--------------------------- MODULE SequenceLemmas ---------------------------
(***************************************************************************)
(* Lemmas about sequences for the other proofs: FlattenSeq, which joins    *)
(* the sequences of a sequence, and prefixes; loops, which are recursive   *)
(* functions, and folds; the largest and the smallest of a set.  What a    *)
(* recursive function computes is shown by induction over a set of natural *)
(* numbers, which is a first-order statement that follows from WFMin.      *)
(***************************************************************************)
EXTENDS Integers, Sequences, SequencesExt, SequenceTheorems, WellFoundedInduction, TLAPS

Less == {p \in Nat \X Nat : p[1] < p[2]}

LEMMA NatLessWF == IsWellFoundedOn(Less, Nat)
BY NatLessThanWellFounded DEF OpToRel, Less

LEMMA LeastElement ==
    ASSUME NEW T \in SUBSET Nat, T # {}
    PROVE  \E n \in T : \A m \in T : n <= m
<1>1. PICK n \in T : \A y \in T : ~(<<y, n>> \in Less)
    BY NatLessWF, WFMin
<1>2. ASSUME NEW m \in T PROVE n <= m
    <2>1. ~(<<m, n>> \in Less) /\ m \in Nat /\ n \in Nat
        BY <1>1
    <2> QED BY <2>1 DEF Less
<1> QED BY <1>2

\* Induction over the natural numbers, for a set instead of a predicate
LEMMA SetInduction ==
    ASSUME NEW T \in SUBSET Nat, 0 \in T, \A n \in T : n + 1 \in T
    PROVE  T = Nat
<1>1. SUFFICES ASSUME Nat \ T # {} PROVE FALSE
    OBVIOUS
<1>2. PICK n \in Nat \ T : \A m \in Nat \ T : n <= m
    BY <1>1, LeastElement
<1>3. n # 0 /\ n - 1 \in Nat /\ n - 1 \in T
    BY <1>2
<1> QED BY <1>2, <1>3

-----------------------------------------------------------------------------
(* Sequences and their elements *)

LEMMA FunctionIsSequence ==
    ASSUME NEW S, NEW n \in Nat, NEW f, f = [i \in 1..n |-> f[i]], \A i \in 1..n : f[i] \in S
    PROVE  f \in Seq(S) /\ Len(f) = n
BY IsASeq, LenProperties

LEMMA ConcatAt ==
    ASSUME NEW S, NEW a \in Seq(S), NEW b \in Seq(S)
    PROVE  /\ a \o b \in Seq(S)
           /\ Len(a \o b) = Len(a) + Len(b)
           /\ \A i \in 1..Len(a) : (a \o b)[i] = a[i]
           /\ \A i \in 1..Len(b) : (a \o b)[Len(a) + i] = b[i]
OBVIOUS

LEMMA DropAt ==
    ASSUME NEW S, NEW q \in Seq(S), NEW n \in 0..Len(q)
    PROVE  /\ SubSeq(q, n + 1, Len(q)) \in Seq(S)
           /\ Len(SubSeq(q, n + 1, Len(q))) = Len(q) - n
           /\ \A i \in 1..(Len(q) - n) : SubSeq(q, n + 1, Len(q))[i] = q[n + i]
OBVIOUS

LEMMA TakeAt ==
    ASSUME NEW S, NEW q \in Seq(S), NEW n \in 0..Len(q)
    PROVE  /\ SubSeq(q, 1, n) \in Seq(S)
           /\ Len(SubSeq(q, 1, n)) = n
           /\ \A i \in 1..n : SubSeq(q, 1, n)[i] = q[i]
OBVIOUS

-----------------------------------------------------------------------------
(* FlattenSeq *)

\* f[i] joins the first i sequences of s, for i up to n
Joins(f, s, n) == f = [i \in 1..n |-> IF i = 1 THEN s[i] ELSE f[i - 1] \o s[i]]

LEMMA JoinsExists ==
    ASSUME NEW s, NEW n \in Nat
    PROVE  \E f : Joins(f, s, n)
<1> DEFINE T == {k \in Nat : \E f : Joins(f, s, k)}
<1>1. 0 \in T
    <2>1. Joins([i \in 1..0 |-> 0], s, 0)
        BY DEF Joins
    <2> QED BY <2>1
<1>2. ASSUME NEW k \in T PROVE k + 1 \in T
    <2>1. PICK f : Joins(f, s, k)
        OBVIOUS
    <2> DEFINE g == [i \in 1..(k + 1) |->
                        IF i = k + 1 THEN IF i = 1 THEN s[i] ELSE f[i - 1] \o s[i]
                        ELSE f[i]]
    <2>2. \A i \in 1..k : g[i] = f[i]
        OBVIOUS
    <2>3. \A i \in 1..k : f[i] = IF i = 1 THEN s[i] ELSE f[i - 1] \o s[i]
        BY <2>1 DEF Joins
    <2>4. ASSUME NEW i \in 1..(k + 1)
          PROVE  g[i] = IF i = 1 THEN s[i] ELSE g[i - 1] \o s[i]
        <3>1. i # 1 => i - 1 \in 1..k /\ g[i - 1] = f[i - 1]
            BY <2>2
        <3>2. g[i] = IF i = 1 THEN s[i] ELSE f[i - 1] \o s[i]
            BY <2>3
        <3> HIDE DEF g
        <3> QED BY <3>1, <3>2
    <2>5. g = [i \in 1..(k + 1) |-> g[i]]
        OBVIOUS
    <2>6. Joins(g, s, k + 1)
        <3> HIDE DEF g
        <3> QED BY <2>4, <2>5 DEF Joins
    <2> HIDE DEF g
    <2> QED BY <2>6
<1>3. T = Nat
    <2> HIDE DEF T
    <2>1. T \in SUBSET Nat
        BY DEF T
    <2> QED BY <1>1, <1>2, <2>1, SetInduction
<1> QED BY <1>3

\* Two of them agree as far as both go
LEMMA JoinsAt ==
    ASSUME NEW s, NEW f, NEW n \in Nat, Joins(f, s, n), NEW k \in 1..n
    PROVE  f[k] = IF k = 1 THEN s[k] ELSE f[k - 1] \o s[k]
<1> DEFINE J(i) == IF i = 1 THEN s[i] ELSE f[i - 1] \o s[i]
<1>1. f = [i \in 1..n |-> J(i)]
    BY DEF Joins
<1> HIDE DEF J
<1>2. f[k] = J(k)
    BY <1>1
<1> QED BY <1>2 DEF J

LEMMA JoinsUnique ==
    ASSUME NEW s, NEW t, NEW f, NEW g, NEW n \in Nat, NEW m \in Nat, NEW k \in 1..n,
           Joins(f, s, n), Joins(g, t, m), n <= m, \A i \in 1..n : s[i] = t[i]
    PROVE  f[k] = g[k]
<1> DEFINE T == {j \in Nat : j \in 1..n => f[j] = g[j]}
<1>1. 0 \in T
    OBVIOUS
<1>2. ASSUME NEW j \in T PROVE j + 1 \in T
    <2>1. SUFFICES ASSUME j + 1 \in 1..n PROVE f[j + 1] = g[j + 1]
        OBVIOUS
    <2>0. (j + 1) - 1 = j
        OBVIOUS
    <2>2. f[j + 1] = IF j + 1 = 1 THEN s[j + 1] ELSE f[j] \o s[j + 1]
        <3>1. f[j + 1] = IF j + 1 = 1 THEN s[j + 1] ELSE f[(j + 1) - 1] \o s[j + 1]
            BY <2>1, JoinsAt
        <3> QED BY <2>0, <3>1, Zenon
    <2>3. g[j + 1] = IF j + 1 = 1 THEN t[j + 1] ELSE g[j] \o t[j + 1]
        <3>1. j + 1 \in 1..m
            BY <2>1
        <3>2. g[j + 1] = IF j + 1 = 1 THEN t[j + 1] ELSE g[(j + 1) - 1] \o t[j + 1]
            BY <3>1, JoinsAt
        <3> QED BY <2>0, <3>2, Zenon
    <2>4. j + 1 # 1 => f[j] = g[j]
        BY <2>1
    <2> QED BY <2>1, <2>2, <2>3, <2>4
<1>3. T = Nat
    <2> HIDE DEF T
    <2>1. T \in SUBSET Nat
        BY DEF T
    <2> QED BY <1>1, <1>2, <2>1, SetInduction
<1> QED BY <1>3

LEMMA FlattenJoins ==
    ASSUME NEW s, Len(s) \in Nat \ {0}
    PROVE  \E f : Joins(f, s, Len(s)) /\ FlattenSeq(s) = f[Len(s)]
<1>1. \E f : Joins(f, s, Len(s))
    BY JoinsExists
<1> DEFINE F == CHOOSE f : Joins(f, s, Len(s))
<1>2. Joins(F, s, Len(s))
    BY <1>1
<1>3. FlattenSeq(s) = F[Len(s)]
    BY DEF FlattenSeq, Joins
<1> QED BY <1>2, <1>3

LEMMA FlattenEmpty == FlattenSeq(<<>>) = <<>>
BY DEF FlattenSeq

\* The sequences that are joined.  The name keeps Seq(Seq(S)) out of the
\* obligations, which the SMT solver does not cope with.
Streams(S) == Seq(S)

LEMMA StreamsDef == \A S : Streams(S) = Seq(S)
BY DEF Streams

LEMMA StreamConcat ==
    ASSUME NEW S, NEW a \in Streams(S), NEW b \in Streams(S)
    PROVE  a \o b \in Streams(S)
BY ConcatProperties DEF Streams

LEMMA ConcatAssoc ==
    ASSUME NEW S, NEW a \in Streams(S), NEW b \in Streams(S), NEW c \in Streams(S)
    PROVE  (a \o b) \o c = a \o (b \o c)
BY ConcatAssociative DEF Streams

\* A name for \o, which the SMT solver does not find in a lemma
Cat(a, b) == a \o b

LEMMA CatAssoc ==
    ASSUME NEW S, NEW a \in Streams(S), NEW b \in Streams(S), NEW c \in Streams(S)
    PROVE  Cat(Cat(a, b), c) = Cat(a, Cat(b, c)) /\ Cat(a, b) \in Streams(S)
BY ConcatAssoc, StreamConcat, SMTT(30) DEF Cat

LEMMA StreamEmpty ==
    ASSUME NEW S, NEW a \in Streams(S)
    PROVE  a \o <<>> = a /\ <<>> \o a = a
BY ConcatEmptySeq DEF Streams

LEMMA Singleton ==
    ASSUME NEW S, NEW s \in Seq(S), Len(s) = 1
    PROVE  s = Append(<<>>, Head(s)) /\ Tail(s) = <<>> /\ Head(s) \in S
<1>1. s # <<>>
    OBVIOUS
<1>2. Tail(s) \in Seq(S) /\ Len(Tail(s)) = 0 /\ Head(s) \in S
    BY <1>1, HeadTailProperties
<1>3. Tail(s) = <<>>
    BY <1>2, EmptySeq
<1>4. s = Append(<<>>, Head(s))
    BY <1>1
<1> QED BY <1>2, <1>3, <1>4

\* The empty sequence, and one appended, are joined as expected
LEMMA FlattenAppend ==
    ASSUME NEW S, NEW s \in Seq(Streams(S)), NEW e \in Streams(S)
    PROVE  FlattenSeq(Append(s, e)) = FlattenSeq(s) \o e
<1> DEFINE n == Len(s)
           t == Append(s, e)
<1>1. n \in Nat /\ Len(t) = n + 1 /\ t[n + 1] = e /\ \A i \in 1..n : t[i] = s[i]
    BY AppendProperties
<1>2. PICK g : Joins(g, t, n + 1) /\ FlattenSeq(t) = g[n + 1]
    <2>1. Len(t) \in Nat \ {0} /\ Len(t) = n + 1
        BY <1>1
    <2> HIDE DEF n, t
    <2> QED BY <2>1, FlattenJoins
<1>3. g[n + 1] = IF n + 1 = 1 THEN e ELSE g[n] \o e
    <2>1. (n + 1) - 1 = n /\ n + 1 \in 1..(n + 1)
        BY <1>1
    <2>2. g[n + 1] = IF n + 1 = 1 THEN t[n + 1] ELSE g[(n + 1) - 1] \o t[n + 1]
        <3> HIDE DEF n, t
        <3> QED BY <1>2, <2>1 DEF Joins
    <2> QED BY <1>1, <2>1, <2>2
<1>4. CASE n = 0
    <2>1. s = <<>>
        BY <1>4, EmptySeq
    <2>2. FlattenSeq(s) \o e = e
        BY <2>1, FlattenEmpty, StreamEmpty
    <2> QED BY <1>2, <1>3, <1>4, <2>2
<1>5. CASE n # 0
    <2>1. PICK f : Joins(f, s, n) /\ FlattenSeq(s) = f[n]
        BY <1>1, <1>5, FlattenJoins
    <2>2. n \in 1..n /\ n + 1 \in Nat /\ n <= n + 1
        BY <1>1, <1>5
    <2>3. f[n] = g[n]
        <3>1. \A i \in 1..n : s[i] = t[i]
            BY <1>1
        <3> HIDE DEF n, t
        <3> QED BY <1>1, <1>2, <2>1, <2>2, <3>1, JoinsUnique
    <2> QED BY <1>1, <1>2, <1>3, <1>5, <2>1, <2>3
<1> QED BY <1>4, <1>5

LEMMA FlattenType ==
    ASSUME NEW S, NEW s \in Seq(Streams(S))
    PROVE  FlattenSeq(s) \in Streams(S)
<1> DEFINE T == {n \in Nat : \A r \in Seq(Streams(S)) : Len(r) = n => FlattenSeq(r) \in Streams(S)}
<1>1. 0 \in T
    BY FlattenEmpty, EmptySeq, StreamsDef
<1>2. ASSUME NEW n \in T PROVE n + 1 \in T
    <2>1. SUFFICES ASSUME NEW r \in Seq(Streams(S)), Len(r) = n + 1
                   PROVE  FlattenSeq(r) \in Streams(S)
        OBVIOUS
    <2>2. PICK q \in Seq(Streams(S)), e \in Streams(S) : r = Append(q, e)
        <3>1. r # <<>>
            BY <2>1, EmptySeq
        <3> HIDE DEF T
        <3> QED BY <3>1, SequenceEmptyOrAppend
    <2>3. FlattenSeq(q) \in Streams(S)
        <3>1. Len(r) = Len(q) + 1 /\ Len(q) \in Nat
            BY <2>2, AppendProperties
        <3> QED BY <2>1, <3>1
    <2> QED BY <2>2, <2>3, FlattenAppend, StreamConcat
<1>3. T = Nat
    <2> HIDE DEF T
    <2>1. T \in SUBSET Nat
        BY DEF T
    <2> QED BY <1>1, <1>2, <2>1, SetInduction
<1> QED BY <1>3

\* The first sequence comes first
LEMMA FlattenHead ==
    ASSUME NEW S, NEW s \in Seq(Streams(S)), s # <<>>
    PROVE  FlattenSeq(s) = Head(s) \o FlattenSeq(Tail(s))
<1> DEFINE T == {n \in Nat : \A r \in Seq(Streams(S)) :
                    Len(r) = n + 1 => FlattenSeq(r) = Head(r) \o FlattenSeq(Tail(r))}
<1> HIDE DEF T
<1>1. 0 \in T
    <2>1. SUFFICES ASSUME NEW r \in Seq(Streams(S)), Len(r) = 0 + 1
                   PROVE  FlattenSeq(r) = Head(r) \o FlattenSeq(Tail(r))
        BY DEF T
    <2>2. r = Append(<<>>, Head(r)) /\ Tail(r) = <<>> /\ Head(r) \in Streams(S)
        <3>1. Len(r) = 1
            BY <2>1
        <3> QED BY <3>1, Singleton
    <2>3. <<>> \in Seq(Streams(S)) /\ <<>> \in Streams(S)
        BY StreamsDef, EmptySeq
    <2>4. FlattenSeq(r) = <<>> \o Head(r)
        BY <2>2, <2>3, FlattenAppend, FlattenEmpty
    <2>5. Head(r) \o <<>> = Head(r) /\ <<>> \o Head(r) = Head(r)
        BY <2>2, StreamEmpty
    <2> QED BY <2>2, <2>4, <2>5, FlattenEmpty
<1>2. ASSUME NEW n \in T PROVE n + 1 \in T
    <2>1. SUFFICES ASSUME NEW r \in Seq(Streams(S)), Len(r) = (n + 1) + 1
                   PROVE  FlattenSeq(r) = Head(r) \o FlattenSeq(Tail(r))
        BY DEF T
    <2>2. PICK q \in Seq(Streams(S)), e \in Streams(S) : r = Append(q, e)
        <3>1. r # <<>>
            <4>1. n \in Nat
                BY DEF T
            <4> QED BY <2>1, <4>1
        <3> QED BY <3>1, SequenceEmptyOrAppend
    <2>3. Len(q) = n + 1 /\ q # <<>>
        <3>1. Len(r) = Len(q) + 1 /\ Len(q) \in Nat
            BY <2>2, AppendProperties
        <3>2. n \in Nat
            BY DEF T
        <3> QED BY <2>1, <3>1, <3>2
    <2>4. FlattenSeq(q) = Head(q) \o FlattenSeq(Tail(q))
        BY <2>3 DEF T
    <2>5. Head(r) = Head(q) /\ Tail(r) = Append(Tail(q), e)
        BY <2>2, <2>3, HeadTailAppend
    <2>6. Head(q) \in Streams(S) /\ Tail(q) \in Seq(Streams(S))
        BY <2>3, HeadTailProperties
    <2>7. FlattenSeq(Tail(q)) \in Streams(S)
        BY <2>6, FlattenType
    <2>8. FlattenSeq(r) = (Head(q) \o FlattenSeq(Tail(q))) \o e
        BY <2>2, <2>4, FlattenAppend
    <2>9. FlattenSeq(Tail(r)) = FlattenSeq(Tail(q)) \o e
        BY <2>5, <2>6, FlattenAppend
    <2>10. (Head(q) \o FlattenSeq(Tail(q))) \o e = Head(q) \o (FlattenSeq(Tail(q)) \o e)
        <3> DEFINE a == Head(q)
                   b == FlattenSeq(Tail(q))
        <3>1. a \in Streams(S) /\ b \in Streams(S)
            BY <2>6, <2>7
        <3> HIDE DEF a, b
        <3>2. (a \o b) \o e = a \o (b \o e)
            <4>1. Cat(Cat(a, b), e) = Cat(a, Cat(b, e))
                BY <3>1, CatAssoc
            <4> QED BY <4>1 DEF Cat
        <3> QED BY <3>2 DEF a, b
    <2> QED BY <2>5, <2>8, <2>9, <2>10
<1>3. T = Nat
    <2>1. T \in SUBSET Nat
        BY DEF T
    <2> QED BY <1>1, <1>2, <2>1, SetInduction
<1>4. Len(s) - 1 \in T /\ Len(s) = (Len(s) - 1) + 1
    <2>1. Len(s) \in Nat \ {0}
        BY EmptySeq
    <2>2. Len(s) - 1 \in Nat /\ Len(s) = (Len(s) - 1) + 1
        BY <2>1
    <2> QED BY <1>3, <2>2
<1> QED BY <1>4 DEF T

\* The join of the first d sequences is a prefix of the join of all
LEMMA FlattenPrefix ==
    ASSUME NEW S, NEW s \in Seq(Streams(S)), NEW d \in 0..Len(s)
    PROVE  \E u \in Streams(S) : FlattenSeq(s) = FlattenSeq(SubSeq(s, 1, d)) \o u
<1> DEFINE P(r, k) == \E u \in Streams(S) : FlattenSeq(r) = FlattenSeq(SubSeq(r, 1, k)) \o u
           T == {n \in Nat : \A r \in Seq(Streams(S)) : Len(r) = n => \A k \in 0..n : P(r, k)}
<1>1. ASSUME NEW r \in Seq(Streams(S)) PROVE P(r, Len(r))
    <2>1. FlattenSeq(r) \in Streams(S) /\ <<>> \in Streams(S)
        BY FlattenType, StreamsDef, EmptySeq
    <2>2. FlattenSeq(r) \o <<>> = FlattenSeq(r)
        BY <2>1, StreamEmpty
    <2>3. SubSeq(r, 1, Len(r)) = r
        BY SubSeqFull
    <2> QED BY <2>1, <2>2, <2>3
<1> HIDE DEF T, P
<1>2. 0 \in T
    BY <1>1 DEF T
<1>3. ASSUME NEW n \in T PROVE n + 1 \in T
    <2>0. n \in Nat
        BY DEF T
    <2>1. SUFFICES ASSUME NEW r \in Seq(Streams(S)), Len(r) = n + 1, NEW k \in 0..(n + 1)
                   PROVE  P(r, k)
        BY <2>0 DEF T
    <2>2. CASE k = n + 1
        BY <1>1, <2>1, <2>2
    <2>3. CASE k \in 0..n
        <3>1. r # <<>>
            BY <2>0, <2>1
        <3>2. PICK q \in Seq(Streams(S)), e \in Streams(S) : r = Append(q, e)
            BY <3>1, SequenceEmptyOrAppend
        <3>3. Len(q) = n
            <4>1. Len(r) = Len(q) + 1 /\ Len(q) \in Nat
                BY <3>2, AppendProperties
            <4> QED BY <2>0, <2>1, <4>1
        <3>4. PICK u \in Streams(S) : FlattenSeq(q) = FlattenSeq(SubSeq(q, 1, k)) \o u
            BY <2>3, <3>3 DEF T, P
        <3>5. SubSeq(r, 1, k) = SubSeq(q, 1, k)
            BY <2>3, <3>2, <3>3
        <3>6. SubSeq(q, 1, k) \in Seq(Streams(S))
            BY <2>3, <3>3
        <3>7. FlattenSeq(SubSeq(q, 1, k)) \in Streams(S)
            BY <3>6, FlattenType
        <3>8. FlattenSeq(r) = (FlattenSeq(SubSeq(q, 1, k)) \o u) \o e
            BY <3>2, <3>4, FlattenAppend
        <3>9. (FlattenSeq(SubSeq(q, 1, k)) \o u) \o e = FlattenSeq(SubSeq(q, 1, k)) \o (u \o e)
            <4> DEFINE a == FlattenSeq(SubSeq(q, 1, k))
            <4>1. a \in Streams(S)
                BY <3>7
            <4> HIDE DEF a
            <4>2. Cat(Cat(a, u), e) = Cat(a, Cat(u, e))
                BY <4>1, CatAssoc
            <4>3. (a \o u) \o e = a \o (u \o e)
                BY <4>2 DEF Cat
            <4> QED BY <4>3 DEF a
        <3>10. u \o e \in Streams(S)
            BY StreamConcat
        <3> QED BY <3>5, <3>8, <3>9, <3>10 DEF P
    <2> QED BY <2>0, <2>2, <2>3
<1>4. T = Nat
    <2>1. T \in SUBSET Nat
        BY DEF T
    <2> QED BY <1>2, <1>3, <2>1, SetInduction
<1>5. Len(s) \in T /\ d \in 0..Len(s)
    BY <1>4
<1>6. P(s, d)
    BY <1>5 DEF T
<1> QED BY <1>6 DEF P

-----------------------------------------------------------------------------
(* Prefixes *)

LEMMA PrefixIffExtends ==
    ASSUME NEW S, NEW s \in Seq(S), NEW t \in Seq(S)
    PROVE  IsPrefix(s, t) <=> \E u \in Seq(S) : t = s \o u
<1>1. ASSUME IsPrefix(s, t) PROVE \E u \in Seq(S) : t = s \o u
    <2> DEFINE u == SubSeq(t, Len(s) + 1, Len(t))
    <2>1. Len(s) <= Len(t) /\ s = SubSeq(t, 1, Len(s))
        BY <1>1, SubSeqFull DEF IsPrefix
    <2>2. u \in Seq(S)
        OBVIOUS
    <2>3. t = s \o u
        BY <2>1, <2>2
    <2> QED BY <2>2, <2>3
<1>2. ASSUME NEW u \in Seq(S), t = s \o u PROVE IsPrefix(s, t)
    <2>1. Len(s) <= Len(t)
        BY <1>2
    <2>2. SubSeq(s, 1, Len(s)) = SubSeq(t, 1, Len(s))
        BY <1>2
    <2> QED BY <2>1, <2>2 DEF IsPrefix
<1> QED BY <1>1, <1>2

\* What is taken from the front of b and put behind a
LEMMA TakeFront ==
    ASSUME NEW S, NEW a \in Seq(S), NEW b \in Seq(S), NEW n \in 1..Len(b)
    PROVE  (a \o SubSeq(b, 1, n)) \o SubSeq(b, n + 1, Len(b)) = a \o b
<1> DEFINE c == SubSeq(b, 1, n)
           d == SubSeq(b, n + 1, Len(b))
<1>1. /\ c \in Seq(S) /\ Len(c) = n /\ \A i \in 1..n : c[i] = b[i]
      /\ d \in Seq(S) /\ Len(d) = Len(b) - n /\ \A i \in 1..(Len(b) - n) : d[i] = b[n + i]
    OBVIOUS
<1> HIDE DEF c, d
<1>2. c \o d = b
    <2>1. /\ c \o d \in Seq(S) /\ Len(c \o d) = Len(c) + Len(d)
          /\ \A i \in 1..Len(c) : (c \o d)[i] = c[i]
          /\ \A i \in 1..Len(d) : (c \o d)[Len(c) + i] = d[i]
        <3>1. c \in Seq(S) /\ d \in Seq(S)
            BY <1>1
        <3> QED BY <3>1
    <2> DEFINE q == c \o d
    <2> HIDE DEF q
    <2>2. /\ q \in Seq(S) /\ Len(q) = Len(b) /\ Len(b) \in Nat
          /\ \A i \in 1..n : q[i] = b[i]
          /\ \A i \in 1..(Len(b) - n) : q[n + i] = b[n + i]
        BY <1>1, <2>1 DEF q
    <2>3. ASSUME NEW i \in 1..Len(b) PROVE q[i] = b[i]
        <3>1. CASE i <= n
            BY <2>2, <3>1
        <3>2. CASE i > n
            <4>1. i - n \in 1..(Len(b) - n) /\ n + (i - n) = i
                BY <2>2, <3>2
            <4>2. q[n + (i - n)] = b[n + (i - n)]
                BY <2>2, <4>1
            <4> QED BY <4>1, <4>2
        <3> QED BY <2>2, <3>1, <3>2
    <2>4. q = b
        BY <2>2, <2>3, SeqEqual
    <2> QED BY <2>4 DEF q
<1>3. (a \o c) \o d = a \o (c \o d)
    <2>1. a \in Streams(S) /\ c \in Streams(S) /\ d \in Streams(S)
        BY <1>1, StreamsDef
    <2>2. Cat(Cat(a, c), d) = Cat(a, Cat(c, d))
        BY <2>1, CatAssoc
    <2> QED BY <2>2 DEF Cat
<1> QED BY <1>2, <1>3 DEF c, d

-----------------------------------------------------------------------------
(* Parts of a sequence *)

\* The first n of a sequence, and the others
FirstPart(q, n) == SubSeq(q, 1, n)
Left(q, n) == SubSeq(q, n + 1, Len(q))

LEMMA PartsType ==
    ASSUME NEW S, NEW q \in Streams(S), NEW n \in 0..Len(q)
    PROVE  /\ FirstPart(q, n) \in Streams(S) /\ Len(FirstPart(q, n)) = n
           /\ Left(q, n) \in Streams(S) /\ Len(Left(q, n)) = Len(q) - n
           /\ Len(q) \in Nat
<1>1. q \in Seq(S)
    BY StreamsDef
<1>2. /\ SubSeq(q, 1, n) \in Seq(S) /\ Len(SubSeq(q, 1, n)) = n
      /\ SubSeq(q, n + 1, Len(q)) \in Seq(S) /\ Len(SubSeq(q, n + 1, Len(q))) = Len(q) - n
      /\ Len(q) \in Nat
    BY <1>1
<1> QED BY <1>2, StreamsDef DEF FirstPart, Left

LEMMA CatLen ==
    ASSUME NEW S, NEW a \in Streams(S), NEW b \in Streams(S)
    PROVE  /\ Cat(a, b) \in Streams(S) /\ Len(Cat(a, b)) = Len(a) + Len(b)
           /\ Len(a) \in Nat /\ Len(b) \in Nat
<1>1. a \in Seq(S) /\ b \in Seq(S)
    BY StreamsDef
<1>2. a \o b \in Seq(S) /\ Len(a \o b) = Len(a) + Len(b) /\ Len(a) \in Nat /\ Len(b) \in Nat
    BY <1>1
<1> QED BY <1>2, StreamsDef DEF Cat

LEMMA CatEmpty ==
    ASSUME NEW S, NEW a \in Streams(S)
    PROVE  Cat(a, <<>>) = a /\ Cat(<<>>, a) = a /\ <<>> \in Streams(S)
BY StreamEmpty, EmptySeq, StreamsDef DEF Cat

\* A sequence is its first n and the others
LEMMA PartsJoin ==
    ASSUME NEW S, NEW q \in Streams(S), NEW n \in 0..Len(q)
    PROVE  Cat(FirstPart(q, n), Left(q, n)) = q
<1>1. q \in Seq(S) /\ <<>> \in Streams(S) /\ Len(q) \in Nat
    <2>1. q \in Seq(S)
        BY StreamsDef
    <2> QED BY <2>1, CatEmpty
<1>2. CASE n = 0
    <2>1. FirstPart(q, n) = <<>>
        BY <1>1, <1>2 DEF FirstPart
    <2>2. Left(q, n) = q
        <3>1. SubSeq(q, 1, Len(q)) = q
            BY <1>1, SubSeqFull
        <3> QED BY <1>2, <3>1 DEF Left
    <2> QED BY <2>1, <2>2, CatEmpty
<1>3. CASE n # 0
    <2>1. <<>> \in Seq(S) /\ n \in 1..Len(q)
        BY <1>1, <1>3, EmptySeq
    <2>2. (<<>> \o SubSeq(q, 1, n)) \o SubSeq(q, n + 1, Len(q)) = <<>> \o q
        BY <1>1, <2>1, TakeFront
    <2>3. Cat(Cat(<<>>, FirstPart(q, n)), Left(q, n)) = Cat(<<>>, q)
        BY <2>2 DEF Cat, FirstPart, Left
    <2>4. Cat(<<>>, q) = q /\ Cat(<<>>, FirstPart(q, n)) = FirstPart(q, n)
        BY PartsType, CatEmpty
    <2> QED BY <2>3, <2>4
<1> QED BY <1>2, <1>3

\* The parts of a joined sequence
LEMMA CatParts ==
    ASSUME NEW S, NEW a \in Streams(S), NEW b \in Streams(S)
    PROVE  FirstPart(Cat(a, b), Len(a)) = a /\ Left(Cat(a, b), Len(a)) = b
<1> DEFINE q == a \o b
<1>1. a \in Seq(S) /\ b \in Seq(S)
    BY StreamsDef
<1>2. /\ q \in Seq(S) /\ Len(q) = Len(a) + Len(b) /\ Len(a) \in Nat /\ Len(b) \in Nat
      /\ \A i \in 1..Len(a) : q[i] = a[i]
      /\ \A i \in 1..Len(b) : q[Len(a) + i] = b[i]
    BY <1>1
<1> HIDE DEF q
<1> DEFINE c == SubSeq(q, 1, Len(a))
           d == SubSeq(q, Len(a) + 1, Len(q))
<1>3. Len(a) \in 0..Len(q) /\ Len(q) - Len(a) = Len(b)
    BY <1>2
<1>4. c = a
    <2>1. c \in Seq(S) /\ Len(c) = Len(a) /\ \A i \in 1..Len(a) : c[i] = q[i]
        BY <1>2, <1>3, TakeAt
    <2> HIDE DEF c
    <2> QED BY <1>1, <1>2, <2>1, SeqEqual
<1>5. d = b
    <2>1. d \in Seq(S) /\ Len(d) = Len(b) /\ \A i \in 1..Len(b) : d[i] = q[Len(a) + i]
        BY <1>2, <1>3, DropAt
    <2> HIDE DEF d
    <2> QED BY <1>1, <1>2, <2>1, SeqEqual
<1> QED BY <1>4, <1>5 DEF Cat, FirstPart, Left, q

\* What follows the same beginning is the same
LEMMA CatCancel ==
    ASSUME NEW S, NEW a \in Streams(S), NEW b \in Streams(S), NEW c \in Streams(S),
           Cat(a, b) = Cat(a, c)
    PROVE  b = c
<1>1. Left(Cat(a, b), Len(a)) = b
    BY CatParts
<1>2. Left(Cat(a, c), Len(a)) = c
    BY CatParts
<1> QED BY <1>1, <1>2

\* If q begins with as many elements as f has, in a sequence that begins with
\* f, then q begins with f
LEMMA FrontOf ==
    ASSUME NEW S, NEW q \in Streams(S), NEW y \in Streams(S), NEW f \in Streams(S), NEW u \in Streams(S),
           Cat(q, y) = Cat(f, u), Len(f) <= Len(q)
    PROVE  FirstPart(q, Len(f)) = f /\ Cat(Left(q, Len(f)), y) = u
<1> DEFINE n == Len(f)
           a == FirstPart(q, n)
           b == Left(q, n)
<1>1. n \in 0..Len(q)
    BY CatLen
<1>2. /\ a \in Streams(S) /\ b \in Streams(S) /\ Len(a) = n /\ Cat(a, b) = q
    BY <1>1, PartsType, PartsJoin
<1> HIDE DEF a, b
<1>3. Cat(a, Cat(b, y)) = Cat(f, u) /\ Cat(b, y) \in Streams(S)
    BY <1>2, CatAssoc
<1>4. FirstPart(Cat(a, Cat(b, y)), n) = a /\ Left(Cat(a, Cat(b, y)), n) = Cat(b, y)
    BY <1>2, <1>3, CatParts
<1>5. FirstPart(Cat(f, u), n) = f /\ Left(Cat(f, u), n) = u
    BY CatParts
<1> QED BY <1>3, <1>4, <1>5 DEF a, b

\* What is left of a joined sequence when a part of its beginning is taken
LEMMA LeftOfCat ==
    ASSUME NEW S, NEW a \in Streams(S), NEW b \in Streams(S), NEW n \in 0..Len(a)
    PROVE  Left(Cat(a, b), n) = Cat(Left(a, n), b)
<1> DEFINE c == FirstPart(a, n)
           d == Left(a, n)
<1>1. c \in Streams(S) /\ Len(c) = n /\ d \in Streams(S) /\ Cat(c, d) = a
    BY PartsType, PartsJoin
<1> HIDE DEF c, d
<1>2. Cat(a, b) = Cat(c, Cat(d, b)) /\ Cat(d, b) \in Streams(S)
    BY <1>1, CatAssoc
<1>3. Left(Cat(c, Cat(d, b)), Len(c)) = Cat(d, b)
    BY <1>1, <1>2, CatParts
<1> QED BY <1>1, <1>2, <1>3 DEF d

LEMMA LeftOfLeft ==
    ASSUME NEW S, NEW q \in Streams(S), NEW n \in 0..Len(q), NEW k \in 0..(Len(q) - n)
    PROVE  /\ n + k \in 0..Len(q)
           /\ Left(q, n + k) = Left(Left(q, n), k)
           /\ SubSeq(q, n + 1, n + k) = FirstPart(Left(q, n), k)
<1>1. q \in Seq(S) /\ Len(q) \in Nat /\ n \in Nat /\ k \in Nat /\ n + k \in 0..Len(q)
    <2>1. q \in Seq(S) /\ Len(q) \in Nat
        BY StreamsDef, PartsType
    <2> QED BY <2>1
<1> DEFINE e == SubSeq(q, n + 1, Len(q))
           x == SubSeq(q, (n + k) + 1, Len(q))
           y == SubSeq(e, k + 1, Len(e))
           z == SubSeq(q, n + 1, n + k)
           t == SubSeq(e, 1, k)
<1>2. e \in Seq(S) /\ Len(e) = Len(q) - n /\ \A i \in 1..(Len(q) - n) : e[i] = q[n + i]
    BY <1>1, DropAt
<1>3. x \in Seq(S) /\ Len(x) = Len(q) - (n + k) /\ \A i \in 1..(Len(q) - (n + k)) : x[i] = q[(n + k) + i]
    BY <1>1, DropAt
<1>4. z \in Seq(S) /\ Len(z) = k /\ \A i \in 1..k : z[i] = q[n + i]
    BY <1>1
<1> HIDE DEF e, x, z
<1>5. k \in 0..Len(e)
    BY <1>1, <1>2
<1>6. y \in Seq(S) /\ Len(y) = Len(e) - k /\ \A i \in 1..(Len(e) - k) : y[i] = e[k + i]
    BY <1>2, <1>5, DropAt
<1>7. t \in Seq(S) /\ Len(t) = k /\ \A i \in 1..k : t[i] = e[i]
    BY <1>2, <1>5, TakeAt
<1> HIDE DEF y, t
<1>8. x = y
    <2>1. Len(x) = Len(y) /\ Len(x) = Len(q) - (n + k)
        BY <1>1, <1>2, <1>3, <1>6
    <2>2. ASSUME NEW i \in 1..Len(x) PROVE x[i] = y[i]
        <3>1. i \in 1..(Len(e) - k) /\ k + i \in 1..(Len(q) - n) /\ n + (k + i) = (n + k) + i
            BY <1>1, <1>2, <2>1
        <3>2. y[i] = e[k + i]
            BY <1>6, <3>1
        <3>3. e[k + i] = q[n + (k + i)]
            BY <1>2, <3>1
        <3>4. x[i] = q[(n + k) + i]
            BY <1>3, <2>1
        <3> QED BY <3>1, <3>2, <3>3, <3>4
    <2> QED BY <1>3, <1>6, <2>1, <2>2, SeqEqual
<1>9. z = t
    <2>1. ASSUME NEW i \in 1..k PROVE z[i] = t[i]
        <3>1. i \in 1..(Len(q) - n)
            BY <1>1
        <3>2. e[i] = q[n + i]
            BY <1>2, <3>1
        <3>3. z[i] = q[n + i] /\ t[i] = e[i]
            BY <1>4, <1>7
        <3> QED BY <3>2, <3>3
    <2> QED BY <1>4, <1>7, <2>1, SeqEqual
<1> QED BY <1>1, <1>8, <1>9 DEF Left, FirstPart, e, x, y, z, t

LEMMA SuffixIfEnd ==
    ASSUME NEW S, NEW p \in Streams(S), NEW s \in Streams(S)
    PROVE  IsSuffix(s, Cat(p, s))
<1> DEFINE t == p \o s
           rs == [i \in 1..Len(s) |-> s[(Len(s) - i) + 1]]
           rt == [i \in 1..Len(t) |-> t[(Len(t) - i) + 1]]
<1>1. p \in Seq(S) /\ s \in Seq(S)
    BY StreamsDef
<1>2. /\ t \in Seq(S) /\ Len(t) = Len(p) + Len(s) /\ Len(p) \in Nat /\ Len(s) \in Nat
      /\ \A i \in 1..Len(s) : t[Len(p) + i] = s[i]
    BY <1>1
<1> HIDE DEF t
<1>3. rs \in Seq(S) /\ Len(rs) = Len(s) /\ \A i \in 1..Len(s) : rs[i] = s[(Len(s) - i) + 1]
    BY <1>1
<1>4. rt \in Seq(S) /\ Len(rt) = Len(t) /\ \A i \in 1..Len(t) : rt[i] = t[(Len(t) - i) + 1]
    BY <1>2
<1> HIDE DEF rs, rt
<1>5. \A i \in 1..Len(s) : rs[i] = rt[i]
    <2>1. SUFFICES ASSUME NEW i \in 1..Len(s) PROVE rs[i] = rt[i]
        OBVIOUS
    <2>2. i \in 1..Len(t) /\ (Len(s) - i) + 1 \in 1..Len(s) /\ Len(p) + ((Len(s) - i) + 1) = (Len(t) - i) + 1
        BY <1>2
    <2>3. t[Len(p) + ((Len(s) - i) + 1)] = s[(Len(s) - i) + 1]
        BY <1>2, <2>2
    <2> QED BY <1>3, <1>4, <2>2, <2>3
<1>6. SubSeq(rs, 1, Len(rs)) = SubSeq(rt, 1, Len(rs))
    <2> DEFINE x == SubSeq(rt, 1, Len(s))
    <2>1. Len(s) \in 0..Len(rt)
        BY <1>2, <1>4
    <2>2. x \in Seq(S) /\ Len(x) = Len(s) /\ \A i \in 1..Len(s) : x[i] = rt[i]
        BY <1>4, <2>1, TakeAt
    <2>3. SubSeq(rs, 1, Len(rs)) = rs
        BY <1>3, SubSeqFull
    <2> HIDE DEF x
    <2>4. rs = x
        BY <1>3, <1>5, <2>2, SeqEqual
    <2> QED BY <1>3, <2>3, <2>4 DEF x
<1>7. IsPrefix(rs, rt)
    BY <1>2, <1>3, <1>4, <1>6 DEF IsPrefix
<1>8. Reverse(s) = rs /\ Reverse(t) = rt
    BY DEF Reverse, rs, rt
<1> QED BY <1>7, <1>8 DEF IsSuffix, Cat, t

LEMMA FlattenOne ==
    ASSUME NEW S, NEW x \in Streams(S)
    PROVE  <<x>> \in Seq(Streams(S)) /\ FlattenSeq(<<x>>) = x
<1>1. <<>> \in Seq(Streams(S))
    BY EmptySeq
<1>2. FlattenSeq(Append(<<>>, x)) = FlattenSeq(<<>>) \o x
    BY <1>1, FlattenAppend
<1>3. <<>> \o x = x
    BY StreamEmpty
<1>4. <<x>> = Append(<<>>, x) /\ <<x>> \in Seq(Streams(S))
    OBVIOUS
<1> QED BY <1>2, <1>3, <1>4, FlattenEmpty

\* The join of two sequences of sequences
LEMMA FlattenConcat ==
    ASSUME NEW S, NEW s \in Seq(Streams(S)), NEW t \in Seq(Streams(S))
    PROVE  /\ Cat(s, t) \in Seq(Streams(S))
           /\ FlattenSeq(Cat(s, t)) = Cat(FlattenSeq(s), FlattenSeq(t))
<1> DEFINE P(r) == FlattenSeq(Cat(s, r)) = Cat(FlattenSeq(s), FlattenSeq(r))
           T == {n \in Nat : \A r \in Seq(Streams(S)) : Len(r) = n => P(r)}
<1>0. \A r \in Seq(Streams(S)) : Cat(s, r) \in Seq(Streams(S))
    BY ConcatProperties DEF Cat
<1>1. P(<<>>)
    <2>1. s \o <<>> = s
        BY ConcatEmptySeq
    <2>2. Cat(FlattenSeq(s), <<>>) = FlattenSeq(s)
        BY FlattenType, CatEmpty
    <2> QED BY <2>1, <2>2, FlattenEmpty DEF Cat
<1>2. ASSUME NEW r \in Seq(Streams(S)), NEW e \in Streams(S), P(r) PROVE P(Append(r, e))
    <2>1. Cat(s, Append(r, e)) = Append(Cat(s, r), e)
        <3>1. s \o Append(r, e) = Append(s \o r, e)
            OBVIOUS
        <3> QED BY <3>1 DEF Cat
    <2>2. FlattenSeq(Append(Cat(s, r), e)) = Cat(FlattenSeq(Cat(s, r)), e)
        BY <1>0, FlattenAppend DEF Cat
    <2>3. FlattenSeq(Append(r, e)) = Cat(FlattenSeq(r), e)
        BY FlattenAppend DEF Cat
    <2>4. FlattenSeq(s) \in Streams(S) /\ FlattenSeq(r) \in Streams(S)
        BY FlattenType
    <2>5. Cat(Cat(FlattenSeq(s), FlattenSeq(r)), e) = Cat(FlattenSeq(s), Cat(FlattenSeq(r), e))
        BY <2>4, CatAssoc
    <2> QED BY <1>2, <2>1, <2>2, <2>3, <2>5
<1> HIDE DEF P, T
<1>3. 0 \in T
    <2>1. \A r \in Seq(Streams(S)) : Len(r) = 0 => r = <<>>
        BY EmptySeq
    <2> QED BY <1>1, <2>1 DEF T
<1>4. ASSUME NEW n \in T PROVE n + 1 \in T
    <2>1. n \in Nat
        BY DEF T
    <2>2. SUFFICES ASSUME NEW r \in Seq(Streams(S)), Len(r) = n + 1 PROVE P(r)
        BY <2>1 DEF T
    <2>3. r # <<>>
        BY <2>1, <2>2
    <2>4. PICK q \in Seq(Streams(S)), e \in Streams(S) : r = Append(q, e)
        BY <2>3, SequenceEmptyOrAppend
    <2>5. Len(q) = n
        <3>1. Len(r) = Len(q) + 1 /\ Len(q) \in Nat
            BY <2>4, AppendProperties
        <3> QED BY <2>1, <2>2, <3>1
    <2>6. P(q)
        BY <2>5 DEF T
    <2> QED BY <1>2, <2>4, <2>6
<1>5. T = Nat
    <2>1. T \in SUBSET Nat
        BY DEF T
    <2> QED BY <1>3, <1>4, <2>1, SetInduction
<1>6. P(t)
    <2>1. Len(t) \in T
        BY <1>5
    <2> QED BY <2>1 DEF T
<1> QED BY <1>0, <1>6 DEF P

-----------------------------------------------------------------------------
(* Recursive functions.  Each calls itself at one place, next, and something *)
(* that it measures, m, gets smaller; a fold is such a function of the sets  *)
(* 1..k.                                                                     *)

\* Induction over what a function measures
LEMMA MeasureInduction ==
    ASSUME NEW S, NEW m \in [S -> Nat], NEW P \in SUBSET S,
           \A s \in S : (\A t \in S : m[t] < m[s] => t \in P) => s \in P
    PROVE  P = S
<1> DEFINE T == {n \in Nat : \A s \in S : m[s] < n => s \in P}
<1>1. 0 \in T
    OBVIOUS
<1>2. ASSUME NEW n \in T PROVE n + 1 \in T
    OBVIOUS
<1>3. T = Nat
    <2>1. T \in SUBSET Nat
        OBVIOUS
    <2> HIDE DEF T
    <2> QED BY <1>1, <1>2, <2>1, SetInduction
<1>4. ASSUME NEW s \in S PROVE s \in P
    <2>1. m[s] + 1 \in T /\ m[s] \in Nat
        BY <1>3
    <2> QED BY <2>1
<1> QED BY <1>4

\* Induction over the natural numbers up to n
LEMMA InductionUpTo ==
    ASSUME NEW n \in Nat, NEW P \in SUBSET (0..n), 0 \in P, \A k \in P : k < n => k + 1 \in P
    PROVE  \A k \in 0..n : k \in P
<1> DEFINE T == {k \in Nat : k <= n => k \in P}
<1>1. 0 \in T /\ T \in SUBSET Nat
    OBVIOUS
<1>2. ASSUME NEW k \in T PROVE k + 1 \in T
    OBVIOUS
<1>3. T = Nat
    <2> HIDE DEF T
    <2> QED BY <1>1, <1>2, SetInduction
<1> QED BY <1>3

\* Of those that are left, one that measures least
LEMMA LeastMeasure ==
    ASSUME NEW S, NEW m \in [S -> Nat], NEW Q \in SUBSET S, Q # {}
    PROVE  \E s \in Q : \A t \in S : m[t] < m[s] => t \notin Q
<1> DEFINE P == S \ Q
<1> SUFFICES ASSUME \A s \in Q : \E t \in S : m[t] < m[s] /\ t \in Q
             PROVE  FALSE
    OBVIOUS
<1>1. \A s \in S : (\A t \in S : m[t] < m[s] => t \in P) => s \in P
    OBVIOUS
<1>2. P \in SUBSET S /\ P # S
    OBVIOUS
<1> HIDE DEF P
<1> QED BY <1>1, <1>2, MeasureInduction

\* What f has to be at s
Solves(f, s, done, base, next, H) ==
    f[s] = IF s \in done THEN base[s] ELSE H[<<s, f[next[s]]>>]

LEMMA RecursionUpTo ==
    ASSUME NEW S, NEW R, NEW done \in SUBSET S, NEW base \in [S -> R], NEW next \in [S -> S],
           NEW H \in [S \X R -> R], NEW m \in [S -> Nat],
           \A s \in S \ done : m[next[s]] < m[s],
           NEW n \in Nat
    PROVE  \E f \in [S -> R] : \A s \in S : m[s] < n => Solves(f, s, done, base, next, H)
<1> DEFINE T == {k \in Nat : \E f \in [S -> R] :
                    \A s \in S : m[s] < k => Solves(f, s, done, base, next, H)}
<1>1. 0 \in T
    <2>1. base \in [S -> R] /\ \A s \in S : ~(m[s] < 0)
        OBVIOUS
    <2> QED BY <2>1
<1>2. ASSUME NEW k \in T PROVE k + 1 \in T
    <2>1. PICK f \in [S -> R] : \A s \in S : m[s] < k => Solves(f, s, done, base, next, H)
        OBVIOUS
    <2> DEFINE V(s) == IF s \in done THEN base[s] ELSE H[<<s, f[next[s]]>>]
               g == [s \in S |-> V(s)]
    <2>2. \A s \in S : V(s) \in R
        OBVIOUS
    <2>3. g \in [S -> R] /\ \A s \in S : g[s] = V(s)
        BY <2>2
    <2>4. ASSUME NEW s \in S, m[s] < k + 1 PROVE Solves(g, s, done, base, next, H)
        <3>1. CASE s \in done
            BY <2>3, <3>1 DEF Solves
        <3>2. CASE s \notin done
            <4>1. next[s] \in S /\ m[next[s]] < k
                BY <2>4, <3>2
            <4>2. f[next[s]] = V(next[s])
                BY <2>1, <4>1 DEF Solves
            <4>3. g[next[s]] = f[next[s]]
                BY <2>3, <4>1, <4>2
            <4>4. g[s] = H[<<s, f[next[s]]>>]
                BY <2>3, <3>2
            <4> HIDE DEF g
            <4> QED BY <3>2, <4>3, <4>4 DEF Solves
        <3> QED BY <3>1, <3>2
    <2> HIDE DEF g
    <2> QED BY <2>3, <2>4
<1>3. T = Nat
    <2>1. T \in SUBSET Nat
        OBVIOUS
    <2> HIDE DEF T
    <2> QED BY <1>1, <1>2, <2>1, SetInduction
<1> QED BY <1>3

LEMMA RecursionExists ==
    ASSUME NEW S, NEW R, NEW done \in SUBSET S, NEW base \in [S -> R], NEW next \in [S -> S],
           NEW H \in [S \X R -> R], NEW m \in [S -> Nat],
           \A s \in S \ done : m[next[s]] < m[s]
    PROVE  \E f \in [S -> R] : \A s \in S : Solves(f, s, done, base, next, H)
<1> DEFINE Up(f, n) == \A s \in S : m[s] < n => Solves(f, s, done, base, next, H)
           G(n) == CHOOSE f \in [S -> R] : Up(f, n)
           F == [s \in S |-> G(m[s] + 1)[s]]
<1>0. ASSUME NEW f \in [S -> R], NEW g \in [S -> R], NEW n \in Nat, Up(f, n), Up(g, n)
      PROVE  \A s \in S : m[s] < n => f[s] = g[s]
    <2> DEFINE P == {s \in S : m[s] < n => f[s] = g[s]}
    <2>1. ASSUME NEW s \in S, \A t \in S : m[t] < m[s] => t \in P PROVE s \in P
        <3> SUFFICES ASSUME m[s] < n PROVE f[s] = g[s]
            OBVIOUS
        <3>0. Solves(f, s, done, base, next, H) /\ Solves(g, s, done, base, next, H)
            BY <1>0
        <3>1. CASE s \in done
            BY <3>0, <3>1 DEF Solves
        <3>2. CASE s \notin done
            <4>1. next[s] \in S /\ m[next[s]] < m[s] /\ m[next[s]] \in Nat /\ m[s] \in Nat
                BY <3>2
            <4>2. f[next[s]] = g[next[s]]
                BY <2>1, <4>1
            <4> QED BY <3>0, <3>2, <4>2 DEF Solves
        <3> QED BY <3>1, <3>2
    <2>2. P = S
        <3>1. P \in SUBSET S
            OBVIOUS
        <3> HIDE DEF P, Up
        <3> QED BY <2>1, <3>1, MeasureInduction
    <2> QED BY <2>2
<1>1. ASSUME NEW n \in Nat PROVE G(n) \in [S -> R] /\ Up(G(n), n)
    <2>1. \E f \in [S -> R] : Up(f, n)
        BY RecursionUpTo
    <2> HIDE DEF Up
    <2> QED BY <2>1
<1>2. ASSUME NEW n \in Nat, NEW k \in Nat, k <= n, NEW s \in S, m[s] < k
      PROVE  G(n)[s] = G(k)[s]
    <2>1. Up(G(n), k)
        <3>1. Up(G(n), n)
            BY <1>1
        <3> HIDE DEF G
        <3> QED BY <1>2, <3>1
    <2>2. Up(G(k), k) /\ G(k) \in [S -> R] /\ G(n) \in [S -> R]
        BY <1>1
    <2> HIDE DEF G, Up
    <2> QED BY <1>0, <1>2, <2>1, <2>2
<1>3. F \in [S -> R]
    <2>1. ASSUME NEW s \in S PROVE G(m[s] + 1) \in [S -> R]
        <3>1. m[s] + 1 \in Nat
            OBVIOUS
        <3> HIDE DEF G, Up
        <3> QED BY <1>1, <3>1
    <2> HIDE DEF G
    <2> QED BY <2>1
<1>4. ASSUME NEW s \in S PROVE Solves(F, s, done, base, next, H)
    <2>1. m[s] + 1 \in Nat /\ m[s] < m[s] + 1
        OBVIOUS
    <2>2. Solves(G(m[s] + 1), s, done, base, next, H)
        <3>1. Up(G(m[s] + 1), m[s] + 1)
            BY <1>1, <2>1
        <3> HIDE DEF G
        <3> QED BY <2>1, <3>1
    <2>3. F[s] = G(m[s] + 1)[s]
        OBVIOUS
    <2>4. ASSUME s \notin done PROVE F[next[s]] = G(m[s] + 1)[next[s]]
        <3>1. next[s] \in S /\ m[next[s]] + 1 \in Nat /\ m[next[s]] + 1 <= m[s] + 1
              /\ m[next[s]] < m[next[s]] + 1
            BY <2>4
        <3>2. G(m[s] + 1)[next[s]] = G(m[next[s]] + 1)[next[s]]
            BY <1>2, <2>1, <3>1
        <3> HIDE DEF G
        <3> QED BY <3>1, <3>2
    <2> HIDE DEF F, G
    <2> QED BY <2>2, <2>3, <2>4 DEF Solves
<1> HIDE DEF F
<1> QED BY <1>3, <1>4

\* A loop: a function that only calls itself with the next state, and something
\* that it measures gets smaller
IsLoop(S, done, next, m) ==
    /\ done \in SUBSET S
    /\ next \in [S -> S]
    /\ m \in [S -> Nat]
    /\ \A s \in S \ done : m[next[s]] < m[s]

Loops(f, S, done, base, next) ==
    \A s \in S : f[s] = IF s \in done THEN base[s] ELSE f[next[s]]

\* What the loop keeps
Kept(Q, S, done, next) == Q \in SUBSET S /\ \A s \in Q \ done : next[s] \in Q

LEMMA LoopExists ==
    ASSUME NEW S, NEW R, NEW done, NEW base \in [S -> R], NEW next, NEW m, IsLoop(S, done, next, m)
    PROVE  \E f \in [S -> R] : Loops(f, S, done, base, next)
<1> DEFINE H == [p \in S \X R |-> p[2]]
<1>0. /\ done \in SUBSET S /\ next \in [S -> S] /\ m \in [S -> Nat]
      /\ \A s \in S \ done : m[next[s]] < m[s]
    BY DEF IsLoop
<1>1. H \in [S \X R -> R] /\ \A s \in S, r \in R : H[<<s, r>>] = r
    OBVIOUS
<1> HIDE DEF H
<1>2. PICK f \in [S -> R] : \A s \in S : Solves(f, s, done, base, next, H)
    BY <1>0, <1>1, RecursionExists
<1>3. ASSUME NEW s \in S PROVE f[s] = IF s \in done THEN base[s] ELSE f[next[s]]
    <2>1. Solves(f, s, done, base, next, H) /\ next[s] \in S /\ f[next[s]] \in R
        BY <1>0, <1>2
    <2> QED BY <1>1, <2>1 DEF Solves
<1> QED BY <1>3 DEF Loops

\* It returns from a state that the loop comes to and ends in
LEMMA LoopEnds ==
    ASSUME NEW S, NEW done, NEW base, NEW next, NEW m, IsLoop(S, done, next, m),
           NEW f, Loops(f, S, done, base, next), NEW Q, Kept(Q, S, done, next), NEW start \in Q
    PROVE  \E e \in Q \cap done : f[start] = base[e]
<1> DEFINE Bad == {s \in Q : \A e \in Q \cap done : f[s] # base[e]}
<1>0. /\ done \in SUBSET S /\ next \in [S -> S] /\ m \in [S -> Nat]
      /\ \A s \in S \ done : m[next[s]] < m[s]
      /\ Q \in SUBSET S /\ \A s \in Q \ done : next[s] \in Q
    BY DEF IsLoop, Kept
<1> SUFFICES ASSUME Bad # {} PROVE FALSE
    OBVIOUS
<1>1. Bad \in SUBSET S
    BY <1>0
<1>2. PICK s \in Bad : \A t \in S : m[t] < m[s] => t \notin Bad
    <2> HIDE DEF Bad
    <2> QED BY <1>0, <1>1, LeastMeasure
<1>3. s \notin done
    <2> SUFFICES ASSUME s \in done PROVE FALSE
        OBVIOUS
    <2>1. f[s] = base[s] /\ s \in Q \cap done
        BY <1>0 DEF Loops
    <2> QED BY <2>1
<1>4. next[s] \in Q /\ next[s] \notin Bad
    BY <1>0, <1>2, <1>3
<1>5. f[s] = f[next[s]]
    BY <1>0, <1>3 DEF Loops
<1> QED BY <1>4, <1>5

LEMMA ToSetIs ==
    ASSUME NEW S, NEW s \in Seq(S), NEW x
    PROVE  x \in ToSet(s) <=> \E k \in 1..Len(s) : s[k] = x
<1>1. DOMAIN s = 1..Len(s)
    OBVIOUS
<1> QED BY <1>1 DEF ToSet

-----------------------------------------------------------------------------
(* The largest and the smallest of a set *)

LEMMA MaxIs ==
    ASSUME NEW S \in SUBSET Int, NEW x \in S, \A y \in S : x >= y
    PROVE  Max(S) = x
<1> DEFINE P(z) == \A y \in S : z >= y
<1>1. \E z \in S : P(z)
    OBVIOUS
<1>2. \A z \in S : P(z) => z = x
    OBVIOUS
<1>3. Max(S) \in S /\ P(Max(S))
    BY <1>1 DEF Max
<1> QED BY <1>2, <1>3

LEMMA MinIs ==
    ASSUME NEW S \in SUBSET Int, NEW x \in S, \A y \in S : x <= y
    PROVE  Min(S) = x
<1> DEFINE P(z) == \A y \in S : z =< y
<1>1. \E z \in S : P(z)
    OBVIOUS
<1>2. \A z \in S : P(z) => z = x
    OBVIOUS
<1>3. Min(S) \in S /\ P(Min(S))
    BY <1>1 DEF Min
<1> QED BY <1>2, <1>3

LEMMA MinExists ==
    ASSUME NEW S \in SUBSET Int, S # {}, NEW b \in Int, \A y \in S : b <= y
    PROVE  Min(S) \in S /\ \A y \in S : Min(S) <= y
<1> DEFINE T == {n \in Nat : b + n \in S}
<1>1. PICK y \in S : TRUE
    OBVIOUS
<1>2. y - b \in T
    OBVIOUS
<1>3. PICK n \in T : \A k \in T : n <= k
    <2>1. T \in SUBSET Nat /\ T # {}
        BY <1>2
    <2> HIDE DEF T
    <2> QED BY <2>1, LeastElement
<1>4. ASSUME NEW z \in S PROVE b + n <= z
    <2>1. z - b \in T
        OBVIOUS
    <2> QED BY <1>3, <2>1
<1>5. Min(S) = b + n
    <2>1. b + n \in S
        BY <1>3
    <2> QED BY <1>4, <2>1, MinIs
<1> QED BY <1>3, <1>4, <1>5

LEMMA MaxExists ==
    ASSUME NEW S \in SUBSET Int, S # {}, NEW b \in Int, \A y \in S : y <= b
    PROVE  Max(S) \in S /\ \A y \in S : Max(S) >= y
<1> DEFINE T == {n \in Nat : b - n \in S}
<1>1. PICK y \in S : TRUE
    OBVIOUS
<1>2. b - y \in T
    OBVIOUS
<1>3. PICK n \in T : \A k \in T : n <= k
    <2>1. T \in SUBSET Nat /\ T # {}
        BY <1>2
    <2> HIDE DEF T
    <2> QED BY <2>1, LeastElement
<1>4. ASSUME NEW z \in S PROVE b - n >= z
    <2>1. b - z \in T /\ z \in Int
        <3>1. b - z \in Nat /\ b - (b - z) = z
            OBVIOUS
        <3> QED BY <3>1
    <2>2. n <= b - z /\ n \in Int
        BY <1>3, <2>1
    <2> HIDE DEF T
    <2> QED BY <2>1, <2>2
<1>5. Max(S) = b - n
    <2>1. b - n \in S
        BY <1>3
    <2> QED BY <1>4, <2>1, MaxIs
<1> QED BY <1>3, <1>4, <1>5

LEMMA MaxOfTwo ==
    ASSUME NEW x \in Int, NEW y \in Int
    PROVE  Max({x, y}) = IF x >= y THEN x ELSE y
<1>1. {x, y} \in SUBSET Int
    OBVIOUS
<1>2. CASE x >= y
    <2>1. x \in {x, y} /\ \A z \in {x, y} : x >= z
        BY <1>2
    <2> QED BY <1>1, <1>2, <2>1, MaxIs
<1>3. CASE ~(x >= y)
    <2>1. y \in {x, y} /\ \A z \in {x, y} : y >= z
        BY <1>3
    <2> QED BY <1>1, <1>3, <2>1, MaxIs
<1> QED BY <1>2, <1>3

LEMMA MinOfTwo ==
    ASSUME NEW x \in Int, NEW y \in Int
    PROVE  Min({x, y}) = IF x <= y THEN x ELSE y
<1>1. {x, y} \in SUBSET Int
    OBVIOUS
<1>2. CASE x <= y
    <2>1. x \in {x, y} /\ \A z \in {x, y} : x <= z
        BY <1>2
    <2> QED BY <1>1, <1>2, <2>1, MinIs
<1>3. CASE ~(x <= y)
    <2>1. y \in {x, y} /\ \A z \in {x, y} : y <= z
        BY <1>3
    <2> QED BY <1>1, <1>3, <2>1, MinIs
<1> QED BY <1>2, <1>3

-----------------------------------------------------------------------------
(* FoldLeft takes the elements off at the end; of a set of places, the last *)

LEMMA LastPlace ==
    ASSUME NEW n \in Nat, NEW S \in SUBSET (1..n), S # {}
    PROVE  Max(S) \in S /\ \A y \in S : Max(S) >= y
BY MaxExists

LEMMA LastOfAll ==
    ASSUME NEW n \in Nat \ {0}
    PROVE  Max(1..n) = n /\ (1..n) \ {n} = 1..(n - 1)
<1>1. n \in 1..n /\ \A y \in 1..n : n >= y
    OBVIOUS
<1>2. 1..n \in SUBSET Int
    OBVIOUS
<1>3. Max(1..n) = n
    BY <1>1, <1>2, MaxIs
<1> QED BY <1>3

\* What FoldLeft recurses with is a function of the sets of places of s, and its
\* values for the sets 1..k are the states of the fold
Folds(it, V, G, base, s) ==
    /\ it[{}] = base
    /\ \A S \in SUBSET (1..Len(s)) :
          S # {} /\ it[S \ {Max(S)}] \in V => it[S] = G[<<it[S \ {Max(S)}], s[Max(S)]>>]

States(st, V, G, base, s) ==
    /\ st \in [0..Len(s) -> V]
    /\ st[0] = base
    /\ \A k \in 1..Len(s) : st[k] = G[<<st[k - 1], s[k]>>]

LastState(x, V, G, base, s) == \E st : States(st, V, G, base, s) /\ st[Len(s)] = x

\* Such a function exists, whatever it folds with
LEMMA FoldExists ==
    ASSUME NEW V, NEW E, NEW G \in [V \X E -> V], NEW base \in V, NEW s \in Seq(E)
    PROVE  \E it \in [SUBSET (1..Len(s)) -> V] : Folds(it, V, G, base, s)
<1> DEFINE D == SUBSET (1..Len(s))
           first == [S \in D |-> base]
           rest == [S \in D |-> IF S = {} THEN S ELSE S \ {Max(S)}]
           H == [p \in D \X V |-> IF p[1] = {} THEN base ELSE G[<<p[2], s[Max(p[1])]>>]]
           m == [S \in D |-> IF S = {} THEN 0 ELSE Max(S)]
<1>0. Len(s) \in Nat /\ DOMAIN s = 1..Len(s) /\ \A i \in 1..Len(s) : s[i] \in E
    OBVIOUS
<1>1. ASSUME NEW S \in D, S # {}
      PROVE  Max(S) \in S /\ Max(S) \in 1..Len(s) /\ \A y \in S : Max(S) >= y
    <2>1. Max(S) \in S /\ \A y \in S : Max(S) >= y
        BY <1>0, <1>1, LastPlace
    <2> QED BY <2>1
<1>2. first \in [D -> V] /\ rest \in [D -> D]
    OBVIOUS
<1>3. H \in [D \X V -> V]
    <2>1. ASSUME NEW p \in D \X V PROVE H[p] \in V
        <3>1. p[1] \in D /\ p[2] \in V
            OBVIOUS
        <3>2. CASE p[1] = {}
            BY <3>2
        <3>3. CASE p[1] # {}
            <4>1. s[Max(p[1])] \in E
                BY <1>0, <1>1, <3>1, <3>3
            <4>2. G[<<p[2], s[Max(p[1])]>>] \in V
                BY <3>1, <4>1
            <4> QED BY <3>3, <4>2
        <3> QED BY <3>2, <3>3
    <2>2. H = [p \in D \X V |-> H[p]]
        OBVIOUS
    <2> HIDE DEF H, D
    <2> QED BY <2>1, <2>2
<1>4. m \in [D -> Nat]
    <2>1. \A S \in D : S # {} => Max(S) \in Nat
        BY <1>1
    <2> QED BY <2>1
<1>5. ASSUME NEW S \in D \ {{}} PROVE m[rest[S]] < m[S]
    <2>1. Max(S) \in S /\ Max(S) \in Nat \ {0} /\ \A y \in S : Max(S) >= y
        BY <1>1
    <2>2. rest[S] = S \ {Max(S)} /\ rest[S] \in D
        OBVIOUS
    <2>3. m[S] = Max(S)
        OBVIOUS
    <2>4. CASE rest[S] = {}
        <3>1. m[rest[S]] = 0
            BY <2>2, <2>4
        <3> HIDE DEF m, rest
        <3> QED BY <2>1, <2>3, <3>1
    <2>5. CASE rest[S] # {}
        <3>1. Max(rest[S]) \in rest[S]
            BY <1>1, <2>2, <2>5
        <3>2. m[rest[S]] = Max(rest[S])
            BY <2>2, <2>5
        <3> HIDE DEF m, rest
        <3> QED BY <2>1, <2>2, <2>3, <3>1, <3>2
    <2> QED BY <2>4, <2>5
<1>6. {{}} \in SUBSET D
    OBVIOUS
<1> HIDE DEF first, rest, H, m, D
<1>7. PICK f \in [D -> V] : \A S \in D : Solves(f, S, {{}}, first, rest, H)
    BY <1>2, <1>3, <1>4, <1>5, <1>6, RecursionExists
<1>8. f[{}] = base
    BY <1>6, <1>7 DEF Solves, first, D
<1>9. ASSUME NEW S \in D, S # {} PROVE f[S] = G[<<f[S \ {Max(S)}], s[Max(S)]>>]
    <2>1. rest[S] = S \ {Max(S)} /\ rest[S] \in D
        BY <1>2, <1>9 DEF rest
    <2>2. f[S] = H[<<S, f[rest[S]]>>]
        BY <1>7, <1>9 DEF Solves
    <2>3. f[rest[S]] \in V
        BY <2>1
    <2>4. H[<<S, f[rest[S]]>>] = G[<<f[rest[S]], s[Max(S)]>>]
        BY <2>3, <1>9 DEF H
    <2> QED BY <2>1, <2>2, <2>4
<1> QED BY <1>7, <1>8, <1>9 DEF D, Folds

\* The states of a fold, from the function that FoldLeft recurses with
LEMMA FoldStates ==
    ASSUME NEW V, NEW E, NEW G \in [V \X E -> V], NEW base \in V, NEW s \in Seq(E),
           NEW it, Folds(it, V, G, base, s)
    PROVE  LastState(it[1..Len(s)], V, G, base, s)
<1> DEFINE st == [k \in 0..Len(s) |-> it[1..k]]
           T == {k \in Nat : k \in 0..Len(s) => st[k] \in V}
<1>0. Len(s) \in Nat /\ \A k \in 1..Len(s) : s[k] \in E
    OBVIOUS
<1>1. st[0] = base
    <2>1. 1..0 = {} /\ 0 \in 0..Len(s)
        OBVIOUS
    <2> QED BY <2>1 DEF Folds
<1>2. ASSUME NEW k \in 1..Len(s), st[k - 1] \in V
      PROVE  st[k] = G[<<st[k - 1], s[k]>>] /\ st[k] \in V
    <2>1. /\ k \in Nat \ {0} /\ k - 1 \in 0..Len(s) /\ k \in 0..Len(s)
          /\ 1..k \in SUBSET (1..Len(s)) /\ 1..k # {}
        <3>1. k \in Int /\ 1 <= k /\ k <= Len(s) /\ k \in 1..k
            BY <1>0
        <3>2. \A i \in 1..k : i \in 1..Len(s)
            BY <1>0, <3>1
        <3>3. k \in Nat \ {0} /\ k - 1 \in 0..Len(s) /\ k \in 0..Len(s)
            BY <1>0, <3>1
        <3> QED BY <3>1, <3>2, <3>3
    <2>2. Max(1..k) = k /\ (1..k) \ {k} = 1..(k - 1)
        BY <2>1, LastOfAll
    <2>3. st[k] = it[1..k] /\ st[k - 1] = it[1..(k - 1)]
        BY <2>1
    <2>4. it[1..k] = G[<<it[1..(k - 1)], s[k]>>]
        BY <1>2, <2>1, <2>2, <2>3 DEF Folds
    <2> HIDE DEF st
    <2> QED BY <1>0, <1>2, <2>3, <2>4
<1>3. T = Nat
    <2>1. 0 \in T
        BY <1>1
    <2>2. ASSUME NEW k \in T PROVE k + 1 \in T
        <3> SUFFICES ASSUME k + 1 \in 0..Len(s) PROVE st[k + 1] \in V
            OBVIOUS
        <3>1. k + 1 \in 1..Len(s) /\ (k + 1) - 1 = k /\ st[k] \in V
            OBVIOUS
        <3> HIDE DEF st
        <3> QED BY <1>2, <3>1
    <2>3. T \in SUBSET Nat
        OBVIOUS
    <2> HIDE DEF T
    <2> QED BY <2>1, <2>2, <2>3, SetInduction
<1>4. \A k \in 0..Len(s) : st[k] \in V
    <2> HIDE DEF st
    <2> QED BY <1>3
<1>5. st \in [0..Len(s) -> V]
    BY <1>4
<1>6. \A k \in 1..Len(s) : st[k] = G[<<st[k - 1], s[k]>>]
    <2>1. \A k \in 1..Len(s) : k - 1 \in 0..Len(s)
        BY <1>0
    <2> HIDE DEF st
    <2> QED BY <1>2, <1>4, <2>1
<1>7. st[Len(s)] = it[1..Len(s)]
    BY <1>0
<1> HIDE DEF st
<1> QED BY <1>1, <1>5, <1>6, <1>7 DEF States, LastState

LEMMA StatesAgree ==
    ASSUME NEW V, NEW G, NEW base, NEW s, Len(s) \in Nat,
           NEW f, States(f, V, G, base, s), NEW g, States(g, V, G, base, s)
    PROVE  \A k \in 0..Len(s) : f[k] = g[k]
<1> DEFINE T == {k \in Nat : k \in 0..Len(s) => f[k] = g[k]}
<1>1. 0 \in T
    BY DEF States
<1>2. ASSUME NEW k \in T PROVE k + 1 \in T
    <2> SUFFICES ASSUME k + 1 \in 0..Len(s) PROVE f[k + 1] = g[k + 1]
        OBVIOUS
    <2>1. k + 1 \in 1..Len(s) /\ (k + 1) - 1 = k /\ f[k] = g[k]
        OBVIOUS
    <2> QED BY <2>1 DEF States
<1>3. T = Nat
    <2>1. T \in SUBSET Nat
        OBVIOUS
    <2> HIDE DEF T
    <2> QED BY <1>1, <1>2, <2>1, SetInduction
<1> QED BY <1>3

\* The part of a sequence from i + 1 to j
LEMMA PartAt ==
    ASSUME NEW S, NEW q \in Seq(S), NEW i \in 0..Len(q), NEW j \in i..Len(q)
    PROVE  /\ SubSeq(q, i + 1, j) \in Seq(S)
           /\ Len(SubSeq(q, i + 1, j)) = j - i
           /\ \A k \in 1..(j - i) : SubSeq(q, i + 1, j)[k] = q[i + k]
<1>1. i \in Nat /\ j \in Nat /\ Len(q) \in Nat /\ i <= j /\ j <= Len(q)
    OBVIOUS
<1>2. SubSeq(q, i + 1, j) = [k \in 1..(j - i) |-> q[i + k]]
    <2>1. SubSeq(q, i + 1, j) = [k \in 1..(1 + j - (i + 1)) |-> q[(i + 1) + k - 1]]
        BY <1>1
    <2>2. 1 + j - (i + 1) = j - i
        BY <1>1
    <2>3. \A k \in 1..(j - i) : (i + 1) + k - 1 = i + k
        BY <1>1
    <2> QED BY <2>1, <2>2, <2>3
<1>3. \A k \in 1..(j - i) : q[i + k] \in S
    BY <1>1
<1>4. j - i \in Nat
    BY <1>1
<1> DEFINE p == SubSeq(q, i + 1, j)
<1> HIDE DEF p
<1>5. p = [k \in 1..(j - i) |-> p[k]] /\ \A k \in 1..(j - i) : p[k] = q[i + k]
    BY <1>2 DEF p
<1>6. p \in Seq(S) /\ Len(p) = j - i
    <2> DEFINE n == j - i
    <2>1. n \in Nat /\ p = [k \in 1..n |-> p[k]] /\ \A k \in 1..n : p[k] \in S
        BY <1>3, <1>4, <1>5
    <2> HIDE DEF n
    <2>2. p \in Seq(S) /\ Len(p) = n
        BY <2>1, FunctionIsSequence
    <2> QED BY <2>2 DEF n
<1> QED BY <1>5, <1>6 DEF p

-----------------------------------------------------------------------------
(* Division *)

LEMMA DivisionUnique ==
    ASSUME NEW T \in Nat \ {0}, NEW q \in Int, NEW r \in Int, NEW x \in 0..(T - 1), NEW y \in 0..(T - 1),
           T * q + x = T * r + y
    PROVE  q = r /\ x = y
OBVIOUS

LEMMA Division ==
    ASSUME NEW T \in Nat \ {0}, NEW a \in Int
    PROVE  /\ a \div T \in Int /\ a % T \in 0..(T - 1)
           /\ a = T * (a \div T) + (a % T)
OBVIOUS

LEMMA Multiple ==
    ASSUME NEW T \in Nat \ {0}, NEW q \in Int, NEW x \in 0..(T - 1)
    PROVE  (T * q + x) % T = x
<1> DEFINE a == T * q + x
           r == a \div T
           y == a % T
<1>1. a \in Int
    OBVIOUS
<1>2. r \in Int /\ y \in 0..(T - 1) /\ a = T * r + y
    <2> HIDE DEF a
    <2> QED BY <1>1, Division
<1>3. T * q + x = T * r + y
    BY <1>2
<1> HIDE DEF r, y
<1>4. x = y
    BY <1>2, <1>3, DivisionUnique
<1> QED BY <1>4 DEF y
=============================================================================
