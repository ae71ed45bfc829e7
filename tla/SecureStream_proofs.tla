------------------------ MODULE SecureStream_proofs ------------------------
(***************************************************************************)
(* Proofs about SecureStream, for every length of header, nonce and tag,   *)
(* every set of plaintexts and any number of records.                      *)
(*                                                                         *)
(* The argument is about the bytes in flight: what the reader has taken of *)
(* the current header or body, what its socket holds, and what the network *)
(* still carries.  They are a chain: each byte is followed by the next one *)
(* of its record, or by the first of the next record when the socket took  *)
(* no more of it.                                                          *)
(***************************************************************************)
EXTENDS SecureStream, SequenceLemmas

Byte == [part : {"header", "body"}, of : Nat, at : Nat, len : Nat]

TL(w, r) == total_len(w[r])

RecLen(w, r) == HEADER_LEN + TL(w, r)

\* Byte p of record r
Tok(w, r, p) ==
    IF p <= HEADER_LEN
    THEN [part |-> "header", of |-> r, at |-> p, len |-> TL(w, r)]
    ELSE [part |-> "body", of |-> r, at |-> p - HEADER_LEN, len |-> TL(w, r)]

Chain(w, h, q) ==
    \A i \in 1..Len(q) : \E r \in 1..Len(w) : \E p \in 1..RecLen(w, r) :
        /\ q[i] = Tok(w, r, p)
        /\ i = Len(q) => r = Len(w) /\ ("torn" \notin h => p = RecLen(w, r))
        /\ i < Len(q) =>
               \/ p < RecLen(w, r) /\ q[i + 1] = Tok(w, r, p + 1)
               \/ ("torn" \notin h => p = RecLen(w, r)) /\ r < Len(w) /\ q[i + 1] = Tok(w, r + 1, 1)

-----------------------------------------------------------------------------
(* Tokens *)

LEMMA TokenLength ==
    ASSUME NEW w \in Seq(Plain), NEW r \in 1..Len(w)
    PROVE  /\ Len(w) \in Nat
           /\ w[r] \in Nat \ {0}
           /\ TL(w, r) \in Nat /\ TL(w, r) = NONCE_LEN + w[r] + TagLen /\ TL(w, r) > NONCE_LEN
           /\ RecLen(w, r) \in Nat /\ RecLen(w, r) > HEADER_LEN
           /\ HEADER_LEN \in Nat \ {0} /\ NONCE_LEN \in Nat
<1>1. w[r] \in Plain /\ Len(w) \in Nat
    OBVIOUS
<1>2. w[r] \in Nat \ {0}
    BY <1>1, SecureAssumption
<1> QED BY <1>1, <1>2, SecureAssumption DEF TL, RecLen, total_len

LEMMA TokenFields ==
    ASSUME NEW w, NEW r, NEW p
    PROVE  /\ Tok(w, r, p).of = r /\ Tok(w, r, p).len = TL(w, r)
           /\ p <= HEADER_LEN => Tok(w, r, p).part = "header" /\ Tok(w, r, p).at = p
           /\ ~(p <= HEADER_LEN) => Tok(w, r, p).part = "body" /\ Tok(w, r, p).at = p - HEADER_LEN
BY DEF Tok

LEMMA TokenUnique ==
    ASSUME NEW w, NEW r, NEW s, NEW p \in Nat, NEW x \in Nat, Tok(w, r, p) = Tok(w, s, x)
    PROVE  r = s /\ p = x
<1>1. r = s
    BY TokenFields
<1>2. HEADER_LEN \in Nat
    BY SecureAssumption
<1>3. CASE p <= HEADER_LEN
    BY <1>2, <1>3, TokenFields
<1>4. CASE ~(p <= HEADER_LEN)
    <2>1. ~(x <= HEADER_LEN)
        BY <1>4, TokenFields
    <2>2. p - HEADER_LEN = x - HEADER_LEN
        BY <1>4, <2>1, TokenFields
    <2> QED BY <1>1, <1>2, <2>2
<1> QED BY <1>3, <1>4

LEMMA TokenType ==
    ASSUME NEW w \in Seq(Plain), NEW r \in 1..Len(w), NEW p \in 1..RecLen(w, r)
    PROVE  Tok(w, r, p) \in Byte
<1>1. r \in Nat /\ p \in Nat /\ TL(w, r) \in Nat /\ HEADER_LEN \in Nat
    BY TokenLength
<1>2. CASE p <= HEADER_LEN
    BY <1>1, <1>2 DEF Tok, Byte
<1>3. CASE ~(p <= HEADER_LEN)
    <2>1. p - HEADER_LEN \in Nat
        BY <1>1, <1>3
    <2> QED BY <1>1, <1>3, <2>1 DEF Tok, Byte
<1> QED BY <1>2, <1>3

\* A record is its tokens
LEMMA RecordTokens ==
    ASSUME NEW w \in Seq(Plain), NEW r \in 1..Len(w)
    PROVE  /\ Record(r, w[r]) \in Seq(Byte)
           /\ Len(Record(r, w[r])) = RecLen(w, r)
           /\ \A p \in 1..RecLen(w, r) : Record(r, w[r])[p] = Tok(w, r, p)
<1> DEFINE H == Header(r, TL(w, r))
           B == Body(r, TL(w, r))
<1>1. r \in Nat /\ TL(w, r) \in Nat /\ HEADER_LEN \in Nat
    BY TokenLength
<1>2. H \in Seq(Byte) /\ Len(H) = HEADER_LEN /\ \A p \in 1..HEADER_LEN : H[p] = Tok(w, r, p)
    <2>1. ASSUME NEW p \in 1..HEADER_LEN PROVE H[p] = Tok(w, r, p) /\ H[p] \in Byte
        BY <1>1 DEF Header, Tok, Byte
    <2>2. H = [p \in 1..HEADER_LEN |-> H[p]]
        BY DEF Header
    <2> HIDE DEF H
    <2> QED BY <1>1, <2>1, <2>2, FunctionIsSequence
<1>3. B \in Seq(Byte) /\ Len(B) = TL(w, r) /\ \A p \in 1..TL(w, r) : B[p] = Tok(w, r, HEADER_LEN + p)
    <2>1. ASSUME NEW p \in 1..TL(w, r) PROVE B[p] = Tok(w, r, HEADER_LEN + p) /\ B[p] \in Byte
        <3>1. ~(HEADER_LEN + p <= HEADER_LEN) /\ (HEADER_LEN + p) - HEADER_LEN = p /\ p \in Nat
            BY <1>1
        <3> QED BY <1>1, <3>1 DEF Body, Tok, Byte
    <2>2. B = [p \in 1..TL(w, r) |-> B[p]]
        BY DEF Body
    <2> HIDE DEF B
    <2> QED BY <1>1, <2>1, <2>2, FunctionIsSequence
<1>4. Record(r, w[r]) = H \o B
    BY DEF Record, TL
<1> HIDE DEF H, B
<1>5. /\ H \o B \in Seq(Byte) /\ Len(H \o B) = HEADER_LEN + TL(w, r)
      /\ \A p \in 1..HEADER_LEN : (H \o B)[p] = H[p]
      /\ \A p \in 1..TL(w, r) : (H \o B)[HEADER_LEN + p] = B[p]
    <2>1. H \in Seq(Byte) /\ B \in Seq(Byte)
        BY <1>2, <1>3
    <2>2. /\ H \o B \in Seq(Byte) /\ Len(H \o B) = Len(H) + Len(B)
          /\ \A p \in 1..Len(H) : (H \o B)[p] = H[p]
          /\ \A p \in 1..Len(B) : (H \o B)[Len(H) + p] = B[p]
        BY <2>1, ConcatAt
    <2> QED BY <1>2, <1>3, <2>2
<1>6. ASSUME NEW p \in 1..RecLen(w, r) PROVE (H \o B)[p] = Tok(w, r, p)
    <2>1. CASE p \in 1..HEADER_LEN
        BY <1>2, <1>5, <2>1
    <2>2. CASE p \notin 1..HEADER_LEN
        <3>1. p - HEADER_LEN \in 1..TL(w, r) /\ HEADER_LEN + (p - HEADER_LEN) = p
            BY <1>1, <2>2 DEF RecLen
        <3> QED BY <1>3, <1>5, <3>1
    <2> QED BY <2>1, <2>2
<1> QED BY <1>4, <1>5, <1>6 DEF RecLen

-----------------------------------------------------------------------------
(* Chains *)

LEMMA ChainAt ==
    ASSUME NEW w \in Seq(Plain), NEW h, NEW q, Chain(w, h, q), NEW i \in 1..Len(q)
    PROVE  \E r \in 1..Len(w) : \E p \in 1..RecLen(w, r) : q[i] = Tok(w, r, p)
BY DEF Chain

\* What a token of a chain is followed by, for a token known by name
LEMMA ChainStep ==
    ASSUME NEW w \in Seq(Plain), NEW h, NEW q, Chain(w, h, q), NEW i \in 1..Len(q),
           NEW r \in 1..Len(w), NEW p \in 1..RecLen(w, r), q[i] = Tok(w, r, p)
    PROVE  /\ i = Len(q) => r = Len(w) /\ ("torn" \notin h => p = RecLen(w, r))
           /\ i < Len(q) =>
                  \/ p < RecLen(w, r) /\ q[i + 1] = Tok(w, r, p + 1)
                  \/ ("torn" \notin h => p = RecLen(w, r)) /\ r < Len(w) /\ q[i + 1] = Tok(w, r + 1, 1)
<1>1. PICK s \in 1..Len(w), x \in Nat :
          /\ x \in 1..RecLen(w, s) /\ q[i] = Tok(w, s, x)
          /\ i = Len(q) => s = Len(w) /\ ("torn" \notin h => x = RecLen(w, s))
          /\ i < Len(q) =>
                 \/ x < RecLen(w, s) /\ q[i + 1] = Tok(w, s, x + 1)
                 \/ ("torn" \notin h => x = RecLen(w, s)) /\ s < Len(w) /\ q[i + 1] = Tok(w, s + 1, 1)
    <2>1. PICK s \in 1..Len(w) : \E x \in 1..RecLen(w, s) :
          /\ q[i] = Tok(w, s, x)
          /\ i = Len(q) => s = Len(w) /\ ("torn" \notin h => x = RecLen(w, s))
          /\ i < Len(q) =>
                 \/ x < RecLen(w, s) /\ q[i + 1] = Tok(w, s, x + 1)
                 \/ ("torn" \notin h => x = RecLen(w, s)) /\ s < Len(w) /\ q[i + 1] = Tok(w, s + 1, 1)
        BY DEF Chain
    <2> QED BY <2>1, TokenLength
<1>2. p \in Nat /\ x \in Nat
    BY TokenLength
<1>3. s = r /\ x = p
    <2>1. Tok(w, s, x) = Tok(w, r, p)
        BY <1>1
    <2> QED BY <1>2, <2>1, TokenUnique
<1> QED BY <1>1, <1>3

\* What is left of a chain is a chain
LEMMA ChainDrop ==
    ASSUME NEW w \in Seq(Plain), NEW h, NEW q \in Seq(Byte), Chain(w, h, q), NEW n \in 0..Len(q)
    PROVE  Chain(w, h, SubSeq(q, n + 1, Len(q)))
<1> DEFINE t == SubSeq(q, n + 1, Len(q))
<1>1. Len(q) \in Nat /\ n \in Nat /\ Len(t) = Len(q) - n /\ \A i \in 1..(Len(q) - n) : t[i] = q[n + i]
    BY DropAt
<1> HIDE DEF t
<1>2. ASSUME NEW i \in 1..Len(t)
      PROVE  \E r \in 1..Len(w) : \E p \in 1..RecLen(w, r) :
                 /\ t[i] = Tok(w, r, p)
                 /\ i = Len(t) => r = Len(w) /\ ("torn" \notin h => p = RecLen(w, r))
                 /\ i < Len(t) =>
                        \/ p < RecLen(w, r) /\ t[i + 1] = Tok(w, r, p + 1)
                        \/ ("torn" \notin h => p = RecLen(w, r)) /\ r < Len(w) /\ t[i + 1] = Tok(w, r + 1, 1)
    <2>1. n + i \in 1..Len(q) /\ t[i] = q[n + i]
        BY <1>1
    <2>2. PICK r \in 1..Len(w), p \in Nat : p \in 1..RecLen(w, r) /\ q[n + i] = Tok(w, r, p)
        BY <2>1, ChainAt, TokenLength, SMTT(40)
    <2>3. /\ n + i = Len(q) => r = Len(w) /\ ("torn" \notin h => p = RecLen(w, r))
          /\ n + i < Len(q) =>
                 \/ p < RecLen(w, r) /\ q[(n + i) + 1] = Tok(w, r, p + 1)
                 \/ ("torn" \notin h => p = RecLen(w, r)) /\ r < Len(w) /\ q[(n + i) + 1] = Tok(w, r + 1, 1)
        BY <2>1, <2>2, ChainStep
    <2>4. /\ i = Len(t) => n + i = Len(q)
          /\ i < Len(t) => n + i < Len(q) /\ t[i + 1] = q[(n + i) + 1]
        <3>1. i < Len(t) => i + 1 \in 1..(Len(q) - n) /\ n + (i + 1) = (n + i) + 1
            BY <1>1
        <3> QED BY <1>1, <3>1
    <2> QED BY <2>1, <2>2, <2>3, <2>4
<1>3. Chain(w, h, t)
    BY <1>2 DEF Chain
<1> QED BY <1>3 DEF t

\* A chain runs through its first record as far as the socket took it, and
\* every token behind that is nearer to the start of its own record.
LEMMA ChainRun ==
    ASSUME NEW w \in Seq(Plain), NEW h, NEW q \in Seq(Byte), Chain(w, h, q),
           NEW r \in 1..Len(w), NEW p \in 1..RecLen(w, r), q[1] = Tok(w, r, p), NEW k \in 1..Len(q)
    PROVE  /\ \/ p + k - 1 <= RecLen(w, r) /\ q[k] = Tok(w, r, p + k - 1)
              \/ \E s \in 1..Len(w) : \E x \in 1..RecLen(w, s) : x < k /\ q[k] = Tok(w, s, x)
           /\ "torn" \notin h /\ p + k - 1 <= RecLen(w, r) => q[k] = Tok(w, r, p + k - 1)
<1> DEFINE A(j) == p + j - 1 <= RecLen(w, r) /\ q[j] = Tok(w, r, p + j - 1)
           B(j) == \E s \in 1..Len(w) : \E x \in 1..RecLen(w, s) : x < j /\ q[j] = Tok(w, s, x)
           C(j) == "torn" \notin h /\ p + j - 1 <= RecLen(w, r) => q[j] = Tok(w, r, p + j - 1)
           T == {n \in Nat : n + 1 \in 1..Len(q) => (A(n + 1) \/ B(n + 1)) /\ C(n + 1)}
<1>0. r \in Nat /\ p \in Nat /\ RecLen(w, r) \in Nat /\ p <= RecLen(w, r) /\ Len(q) \in Nat
    BY TokenLength
<1>1. 0 \in T
    <2>1. p + (0 + 1) - 1 = p /\ 0 + 1 = 1
        BY <1>0
    <2>2. A(0 + 1)
        BY <1>0, <2>1
    <2> QED BY <2>1, <2>2
<1>2. ASSUME NEW n \in T PROVE n + 1 \in T
    <2>1. SUFFICES ASSUME (n + 1) + 1 \in 1..Len(q)
                   PROVE  (A((n + 1) + 1) \/ B((n + 1) + 1)) /\ C((n + 1) + 1)
        OBVIOUS
    <2> DEFINE j == n + 1
    <2>2. n \in Nat /\ j \in Nat /\ j \in 1..Len(q) /\ j < Len(q) /\ (A(j) \/ B(j)) /\ C(j)
        BY <2>1, <1>0
    <2>3. p + (j + 1) - 1 = p + j /\ (p + j - 1) + 1 = p + j /\ p + j - 1 \in Nat
        BY <1>0, <2>2
    <2> HIDE DEF j, T
    <2>4. CASE A(j)
        <3>1. p + j - 1 \in 1..RecLen(w, r)
            BY <1>0, <2>2, <2>3, <2>4
        <3>2. \/ p + j - 1 < RecLen(w, r) /\ q[j + 1] = Tok(w, r, (p + j - 1) + 1)
              \/ ("torn" \notin h => p + j - 1 = RecLen(w, r)) /\ r < Len(w) /\ q[j + 1] = Tok(w, r + 1, 1)
            BY <2>2, <2>4, <3>1, ChainStep
        <3>3. CASE p + j - 1 < RecLen(w, r) /\ q[j + 1] = Tok(w, r, (p + j - 1) + 1)
            <4>1. A(j + 1)
                BY <1>0, <2>2, <2>3, <3>3
            <4>2. C(j + 1)
                BY <1>0, <2>2, <2>3, <3>3
            <4> QED BY <4>1, <4>2 DEF j
        <3>4. CASE ("torn" \notin h => p + j - 1 = RecLen(w, r)) /\ r < Len(w) /\ q[j + 1] = Tok(w, r + 1, 1)
            <4>1. r + 1 \in 1..Len(w) /\ 1 < j + 1
                BY <1>0, <2>2, <3>4, TokenLength
            <4>2. 1 \in 1..RecLen(w, r + 1)
                BY <4>1, TokenLength
            <4>3. B(j + 1)
                BY <3>4, <4>1, <4>2
            <4>4. C(j + 1)
                BY <1>0, <2>2, <2>3, <3>4
            <4> QED BY <4>3, <4>4 DEF j
        <3> QED BY <3>2, <3>3, <3>4 DEF j
    <2>5. CASE B(j) /\ ~A(j)
        <3>1. PICK s \in 1..Len(w), x \in Nat : x \in 1..RecLen(w, s) /\ x < j /\ q[j] = Tok(w, s, x)
            BY <2>5, TokenLength
        <3>2. \/ x < RecLen(w, s) /\ q[j + 1] = Tok(w, s, x + 1)
              \/ ("torn" \notin h => x = RecLen(w, s)) /\ s < Len(w) /\ q[j + 1] = Tok(w, s + 1, 1)
            BY <2>2, <3>1, ChainStep
        <3>3. s \in Nat /\ x \in Nat /\ RecLen(w, s) \in Nat /\ Len(w) \in Nat
            BY TokenLength
        <3>4. B(j + 1)
            <4>1. CASE x < RecLen(w, s) /\ q[j + 1] = Tok(w, s, x + 1)
                <5>1. x + 1 \in 1..RecLen(w, s) /\ x + 1 < j + 1
                    BY <2>2, <3>1, <3>3, <4>1
                <5> QED BY <4>1, <5>1
            <4>2. CASE s < Len(w) /\ q[j + 1] = Tok(w, s + 1, 1)
                <5>1. s + 1 \in 1..Len(w) /\ 1 < j + 1
                    BY <2>2, <3>3, <4>2
                <5>2. 1 \in 1..RecLen(w, s + 1)
                    BY <5>1, TokenLength, SMTT(40)
                <5> QED BY <4>2, <5>1, <5>2
            <4> QED BY <3>2, <4>1, <4>2
        <3>5. C(j + 1)
            <4>1. ~("torn" \notin h /\ p + j <= RecLen(w, r))
                BY <1>0, <2>2, <2>3, <2>5, SMTT(30)
            <4> QED BY <2>3, <4>1
        <3> QED BY <3>4, <3>5 DEF j
    <2> QED BY <2>2, <2>4, <2>5
<1>3. T = Nat
    <2> HIDE DEF T
    <2>1. T \in SUBSET Nat
        BY DEF T
    <2> QED BY <1>1, <1>2, <2>1, SetInduction
<1>4. k - 1 \in T /\ (k - 1) + 1 = k
    <2> HIDE DEF T
    <2> QED BY <1>0, <1>3
<1> QED BY <1>4

\* The same from the first byte of a header, and from the first of a body
LEMMA HeaderRun ==
    ASSUME NEW w \in Seq(Plain), NEW h, NEW q \in Seq(Byte), Chain(w, h, q),
           NEW r \in 1..Len(w), q[1] = Tok(w, r, 1), NEW k \in 1..Len(q)
    PROVE  /\ q[k] = Tok(w, r, k) \/ \E s \in 1..Len(w) : \E x \in 1..RecLen(w, s) : x < k /\ q[k] = Tok(w, s, x)
           /\ "torn" \notin h /\ k <= RecLen(w, r) => q[k] = Tok(w, r, k)
<1>1. 1 \in 1..RecLen(w, r) /\ k \in Nat
    BY TokenLength
<1> DEFINE y == 1 + k - 1
<1>2. /\ \/ y <= RecLen(w, r) /\ q[k] = Tok(w, r, y)
         \/ \E s \in 1..Len(w) : \E x \in 1..RecLen(w, s) : x < k /\ q[k] = Tok(w, s, x)
      /\ "torn" \notin h /\ y <= RecLen(w, r) => q[k] = Tok(w, r, y)
    BY <1>1, ChainRun
<1>3. y = k
    BY <1>1
<1> HIDE DEF y
<1> QED BY <1>2, <1>3

LEMMA BodyRun ==
    ASSUME NEW w \in Seq(Plain), NEW h, NEW q \in Seq(Byte), Chain(w, h, q), "torn" \notin h,
           NEW r \in 1..Len(w), q[1] = Tok(w, r, HEADER_LEN + 1), NEW k \in 1..Len(q), k <= TL(w, r)
    PROVE  q[k] = Tok(w, r, HEADER_LEN + k)
<1>1. /\ HEADER_LEN + 1 \in 1..RecLen(w, r) /\ k \in Nat /\ HEADER_LEN \in Nat /\ TL(w, r) \in Nat
      /\ RecLen(w, r) = HEADER_LEN + TL(w, r)
    <2>1. HEADER_LEN \in Nat /\ TL(w, r) \in Nat /\ TL(w, r) # 0 /\ RecLen(w, r) = HEADER_LEN + TL(w, r)
        BY TokenLength DEF RecLen
    <2> QED BY <2>1
<1> DEFINE p == HEADER_LEN + 1
           y == p + k - 1
<1>2. p \in 1..RecLen(w, r) /\ q[1] = Tok(w, r, p)
    BY <1>1
<1> HIDE DEF p
<1>3. "torn" \notin h /\ y <= RecLen(w, r) => q[k] = Tok(w, r, y)
    BY <1>2, ChainRun
<1>4. y = HEADER_LEN + k
    BY <1>1 DEF p
<1> HIDE DEF y
<1> QED BY <1>1, <1>3, <1>4

\* A chain that is not torn goes to the end of its first record
LEMMA ChainWhole ==
    ASSUME NEW w \in Seq(Plain), NEW h, NEW q \in Seq(Byte), Chain(w, h, q), "torn" \notin h,
           NEW r \in 1..Len(w), NEW p \in 1..RecLen(w, r), q # <<>>, q[1] = Tok(w, r, p)
    PROVE  Len(q) >= RecLen(w, r) - p + 1
<1>0. r \in Nat /\ p \in Nat /\ RecLen(w, r) \in Nat /\ p <= RecLen(w, r) /\ Len(q) \in Nat /\ Len(q) # 0
    BY TokenLength, EmptySeq
<1>1. SUFFICES ASSUME Len(q) < RecLen(w, r) - p + 1 PROVE FALSE
    BY <1>0
<1>2. Len(q) \in 1..Len(q) /\ p + Len(q) - 1 \in 1..RecLen(w, r)
    BY <1>0, <1>1
<1>3. q[Len(q)] = Tok(w, r, p + Len(q) - 1)
    BY <1>2, ChainRun
<1>4. p + Len(q) - 1 = RecLen(w, r)
    BY <1>2, <1>3, ChainStep
<1> QED BY <1>0, <1>1, <1>4

\* After the last byte of a record comes the next one
AtRecord(w, q, d) == IF q = <<>> THEN d = Len(w) ELSE d < Len(w) /\ q[1] = Tok(w, d + 1, 1)

LEMMA ChainNext ==
    ASSUME NEW w \in Seq(Plain), NEW h, NEW q \in Seq(Byte), Chain(w, h, q),
           NEW r \in 1..Len(w), NEW k \in 1..Len(q), q[k] = Tok(w, r, RecLen(w, r))
    PROVE  AtRecord(w, SubSeq(q, k + 1, Len(q)), r)
<1> DEFINE t == SubSeq(q, k + 1, Len(q))
<1>1. /\ Len(q) \in Nat /\ k \in Nat /\ Len(t) = Len(q) - k /\ t \in Seq(Byte)
      /\ \A i \in 1..(Len(q) - k) : t[i] = q[k + i]
    BY DropAt
<1> HIDE DEF t
<1>2. RecLen(w, r) \in Nat /\ RecLen(w, r) \in 1..RecLen(w, r)
    BY TokenLength
<1>3. /\ k = Len(q) => r = Len(w)
      /\ k < Len(q) => r < Len(w) /\ q[k + 1] = Tok(w, r + 1, 1)
    BY <1>2, ChainStep
<1>4. CASE k = Len(q)
    <2>1. t = <<>>
        BY <1>1, <1>4, EmptySeq
    <2> QED BY <1>3, <1>4, <2>1 DEF AtRecord, t
<1>5. CASE k < Len(q)
    <2>1. t # <<>> /\ t[1] = q[k + 1]
        BY <1>1, <1>5
    <2> QED BY <1>3, <1>5, <2>1 DEF AtRecord, t
<1> QED BY <1>1, <1>4, <1>5

\* A write extends the chain
Appended(v, w, n) == v = Append(w, n)

LEMMA AppendKeeps ==
    ASSUME NEW w \in Seq(Plain), NEW n \in Plain, NEW v, Appended(v, w, n)
    PROVE  /\ v \in Seq(Plain) /\ Len(w) \in Nat /\ Len(v) = Len(w) + 1 /\ v[Len(v)] = n
           /\ \A r \in 1..Len(w) : v[r] = w[r] /\ TL(v, r) = TL(w, r) /\ RecLen(v, r) = RecLen(w, r)
           /\ \A r \in 1..Len(w) : \A p : Tok(v, r, p) = Tok(w, r, p)
<1>1. /\ v \in Seq(Plain) /\ Len(w) \in Nat /\ Len(v) = Len(w) + 1 /\ v[Len(v)] = n
      /\ \A r \in 1..Len(w) : v[r] = w[r]
    BY DEF Appended
<1>2. \A r \in 1..Len(w) : TL(v, r) = TL(w, r)
    BY <1>1 DEF TL
<1> QED BY <1>1, <1>2 DEF RecLen, Tok

LEMMA ChainExtend ==
    ASSUME NEW w \in Seq(Plain), NEW h, NEW q \in Seq(Byte), Chain(w, h, q),
           NEW n \in Plain, NEW v, Appended(v, w, n),
           NEW c \in Seq(Byte), c # <<>>, Len(c) <= RecLen(v, Len(v)),
           \A p \in 1..Len(c) : c[p] = Tok(v, Len(v), p),
           NEW g, "torn" \notin g => "torn" \notin h /\ Len(c) = RecLen(v, Len(v))
    PROVE  Chain(v, g, q \o c)
<1> DEFINE t == q \o c
           m == Len(v)
<1>1. /\ v \in Seq(Plain) /\ Len(w) \in Nat /\ m = Len(w) + 1 /\ m \in 1..m
      /\ \A r \in 1..Len(w) : RecLen(v, r) = RecLen(w, r) /\ \A p : Tok(v, r, p) = Tok(w, r, p)
    <2>1. /\ v \in Seq(Plain) /\ Len(w) \in Nat /\ m = Len(w) + 1
          /\ \A r \in 1..Len(w) : RecLen(v, r) = RecLen(w, r) /\ \A p : Tok(v, r, p) = Tok(w, r, p)
        BY AppendKeeps
    <2> QED BY <2>1
<1>2. /\ Len(q) \in Nat /\ Len(c) \in Nat \ {0} /\ Len(t) = Len(q) + Len(c)
      /\ \A i \in 1..Len(q) : t[i] = q[i]
      /\ \A i \in 1..Len(c) : t[Len(q) + i] = c[i]
    BY ConcatAt, EmptySeq
<1>3. RecLen(v, m) \in Nat
    BY <1>1, TokenLength
<1> DEFINE Link(i, r, p) ==
        /\ t[i] = Tok(v, r, p)
        /\ i = Len(t) => r = m /\ ("torn" \notin g => p = RecLen(v, r))
        /\ i < Len(t) =>
               \/ p < RecLen(v, r) /\ t[i + 1] = Tok(v, r, p + 1)
               \/ ("torn" \notin g => p = RecLen(v, r)) /\ r < m /\ t[i + 1] = Tok(v, r + 1, 1)
<1> HIDE DEF t, m
<1>4. ASSUME NEW i \in 1..Len(q)
      PROVE  \E r \in 1..m : \E p \in 1..RecLen(v, r) : Link(i, r, p)
    <2>1. PICK r \in 1..Len(w), p \in Nat : p \in 1..RecLen(w, r) /\ q[i] = Tok(w, r, p)
        BY ChainAt, TokenLength
    <2>2. /\ i = Len(q) => r = Len(w) /\ ("torn" \notin h => p = RecLen(w, r))
          /\ i < Len(q) =>
                 \/ p < RecLen(w, r) /\ q[i + 1] = Tok(w, r, p + 1)
                 \/ ("torn" \notin h => p = RecLen(w, r)) /\ r < Len(w) /\ q[i + 1] = Tok(w, r + 1, 1)
        BY <2>1, ChainStep
    <2>3. t[i] = Tok(v, r, p) /\ r \in 1..m /\ p \in 1..RecLen(v, r) /\ RecLen(v, r) = RecLen(w, r)
        BY <1>1, <1>2, <2>1
    <2>4. i < Len(t)
        BY <1>2
    <2>5. CASE i = Len(q)
        <3>1. t[i + 1] = Tok(v, m, 1) /\ r + 1 = m /\ r < m
            <4>1. t[Len(q) + 1] = c[1] /\ 1 \in 1..Len(c)
                BY <1>2
            <4> QED BY <1>1, <2>2, <2>5, <4>1 DEF m
        <3>2. "torn" \notin g => p = RecLen(v, r)
            BY <2>2, <2>3, <2>5
        <3> QED BY <2>3, <2>4, <3>1, <3>2
    <2>6. CASE i < Len(q)
        <3>1. i + 1 \in 1..Len(q) /\ t[i + 1] = q[i + 1]
            BY <1>2, <2>6
        <3>2. CASE p < RecLen(w, r) /\ q[i + 1] = Tok(w, r, p + 1)
            BY <1>1, <2>3, <2>4, <3>1, <3>2
        <3>3. CASE ("torn" \notin h => p = RecLen(w, r)) /\ r < Len(w) /\ q[i + 1] = Tok(w, r + 1, 1)
            <4>1. r + 1 \in 1..Len(w) /\ r < m
                BY <1>1, <3>3
            <4>2. t[i + 1] = Tok(v, r + 1, 1)
                BY <1>1, <3>1, <3>3, <4>1
            <4>3. "torn" \notin g => p = RecLen(v, r)
                BY <2>3, <3>3
            <4> QED BY <2>3, <2>4, <4>1, <4>2, <4>3
        <3> QED BY <2>2, <2>6, <3>2, <3>3
    <2> QED BY <1>2, <2>5, <2>6
<1>5. ASSUME NEW i \in 1..Len(c)
      PROVE  \E r \in 1..m : \E p \in 1..RecLen(v, r) : Link(Len(q) + i, r, p)
    <2>1. m \in 1..m /\ i \in 1..RecLen(v, m) /\ t[Len(q) + i] = Tok(v, m, i)
        BY <1>1, <1>2, <1>3 DEF m
    <2>2. Len(q) + i = Len(t) => ("torn" \notin g => i = RecLen(v, m))
        BY <1>2, <1>3 DEF m
    <2>3. Len(q) + i < Len(t) => i < RecLen(v, m) /\ t[(Len(q) + i) + 1] = Tok(v, m, i + 1)
        <3>1. SUFFICES ASSUME Len(q) + i < Len(t) PROVE i < RecLen(v, m) /\ t[(Len(q) + i) + 1] = Tok(v, m, i + 1)
            OBVIOUS
        <3>2. i + 1 \in 1..Len(c) /\ (Len(q) + i) + 1 = Len(q) + (i + 1)
            BY <1>2, <3>1
        <3>3. i < RecLen(v, m)
            BY <1>2, <1>3, <3>2 DEF m
        <3> QED BY <1>2, <3>2, <3>3 DEF m
    <2> QED BY <2>1, <2>2, <2>3
<1>6. ASSUME NEW i \in 1..Len(t) PROVE \E r \in 1..m : \E p \in 1..RecLen(v, r) : Link(i, r, p)
    <2>1. CASE i \in 1..Len(q)
        BY <1>4, <2>1
    <2>2. CASE i \notin 1..Len(q)
        <3>1. i - Len(q) \in 1..Len(c) /\ Len(q) + (i - Len(q)) = i
            BY <1>2, <2>2
        <3> HIDE DEF Link
        <3>2. \E r \in 1..m : \E p \in 1..RecLen(v, r) : Link(Len(q) + (i - Len(q)), r, p)
            BY <1>5, <3>1
        <3> QED BY <3>1, <3>2
    <2> QED BY <2>1, <2>2
<1>7. Chain(v, g, t)
    BY <1>6 DEF Chain, m
<1> QED BY <1>7 DEF t

LEMMA AtRecordExtend ==
    ASSUME NEW w \in Seq(Plain), NEW q \in Seq(Byte), NEW n \in Plain, NEW v, Appended(v, w, n),
           NEW c \in Seq(Byte), c # <<>>, c[1] = Tok(v, Len(v), 1),
           NEW d \in 0..Len(w), AtRecord(w, q, d)
    PROVE  AtRecord(v, q \o c, d)
<1>1. /\ Len(w) \in Nat /\ Len(v) = Len(w) + 1
      /\ \A r \in 1..Len(w) : Tok(v, r, 1) = Tok(w, r, 1)
    BY AppendKeeps
<1>2. q \o c # <<>> /\ (q # <<>> => (q \o c)[1] = q[1]) /\ (q = <<>> => (q \o c)[1] = c[1])
    <2>1. Len(q) \in Nat /\ Len(c) \in Nat \ {0} /\ (q # <<>> => Len(q) # 0)
        BY EmptySeq
    <2>2. /\ Len(q \o c) = Len(q) + Len(c)
          /\ \A i \in 1..Len(q) : (q \o c)[i] = q[i]
          /\ \A i \in 1..Len(c) : (q \o c)[Len(q) + i] = c[i]
        BY ConcatAt
    <2>3. q \o c # <<>>
        BY <2>1, <2>2, EmptySeq
    <2>4. q # <<>> => (q \o c)[1] = q[1]
        BY <2>1, <2>2
    <2>5. q = <<>> => (q \o c)[1] = c[1]
        <3>1. SUFFICES ASSUME q = <<>> PROVE (q \o c)[1] = c[1]
            OBVIOUS
        <3>2. Len(q) = 0 /\ 1 \in 1..Len(c)
            BY <2>1, <3>1, EmptySeq
        <3> QED BY <2>2, <3>2
    <2> QED BY <2>3, <2>4, <2>5
<1>3. CASE q = <<>>
    BY <1>1, <1>2, <1>3 DEF AtRecord
<1>4. CASE q # <<>>
    <2>1. d < Len(w) /\ q[1] = Tok(w, d + 1, 1) /\ d + 1 \in 1..Len(w)
        BY <1>1, <1>4 DEF AtRecord
    <2> QED BY <1>1, <1>2, <1>4, <2>1 DEF AtRecord
<1> QED BY <1>3, <1>4

-----------------------------------------------------------------------------
(* Plaintext *)

Pairs == Nat \X Nat

PlaintextOf(w, r) == [i \in 1..w[r] |-> <<r, i>>]

\* What d records give
Given(w, d) == FlattenSeq([r \in 1..d |-> PlaintextOf(w, r)])

LEMMA PlaintextType ==
    ASSUME NEW w \in Seq(Plain), NEW r \in 1..Len(w)
    PROVE  PlaintextOf(w, r) \in Streams(Pairs) /\ Len(PlaintextOf(w, r)) = w[r]
<1> DEFINE f == PlaintextOf(w, r)
<1>1. r \in Nat /\ w[r] \in Nat
    BY TokenLength
<1>2. f = [i \in 1..w[r] |-> f[i]] /\ \A i \in 1..w[r] : f[i] \in Pairs
    BY <1>1 DEF PlaintextOf, Pairs
<1> HIDE DEF f
<1>3. f \in Seq(Pairs) /\ Len(f) = w[r]
    BY <1>1, <1>2, FunctionIsSequence
<1> QED BY <1>3, StreamsDef DEF f

\* The plaintexts of the first d records
Firsts(w, d) == [r \in 1..d |-> PlaintextOf(w, r)]

LEMMA FirstsType ==
    ASSUME NEW w \in Seq(Plain), NEW d \in 0..Len(w)
    PROVE  /\ Firsts(w, d) \in Seq(Streams(Pairs)) /\ Len(Firsts(w, d)) = d
           /\ Given(w, d) = FlattenSeq(Firsts(w, d))
           /\ Given(w, d) \in Streams(Pairs)
<1> DEFINE f == Firsts(w, d)
<1>1. d \in Nat /\ f = [i \in 1..d |-> f[i]] /\ \A i \in 1..d : f[i] \in Streams(Pairs)
    <2>1. \A i \in 1..d : i \in 1..Len(w) /\ f[i] = PlaintextOf(w, i)
        BY DEF Firsts
    <2>2. f = [i \in 1..d |-> f[i]]
        BY DEF Firsts
    <2> HIDE DEF f
    <2> QED BY <2>1, <2>2, PlaintextType
<1> HIDE DEF f
<1>2. f \in Seq(Streams(Pairs)) /\ Len(f) = d
    BY <1>1, FunctionIsSequence
<1>3. FlattenSeq(f) \in Streams(Pairs)
    BY <1>2, FlattenType
<1> QED BY <1>2, <1>3 DEF f, Firsts, Given

LEMMA GivenNothing == \A w : Given(w, 0) = <<>>
<1>1. SUFFICES ASSUME NEW w PROVE Given(w, 0) = <<>>
    OBVIOUS
<1>2. [r \in 1..0 |-> PlaintextOf(w, r)] = <<>>
    OBVIOUS
<1> QED BY <1>2, FlattenEmpty DEF Given

LEMMA GivenNext ==
    ASSUME NEW w \in Seq(Plain), NEW d \in 1..Len(w)
    PROVE  Given(w, d) = Given(w, d - 1) \o PlaintextOf(w, d)
<1> DEFINE f == Firsts(w, d)
           g == Firsts(w, d - 1)
           e == PlaintextOf(w, d)
<1>1. d - 1 \in 0..Len(w) /\ d \in 0..Len(w) /\ d \in Nat
    OBVIOUS
<1>2. /\ f \in Seq(Streams(Pairs)) /\ Len(f) = d /\ Given(w, d) = FlattenSeq(f)
      /\ g \in Seq(Streams(Pairs)) /\ Len(g) = d - 1 /\ Given(w, d - 1) = FlattenSeq(g)
    BY <1>1, FirstsType
<1>3. e \in Streams(Pairs)
    BY PlaintextType
<1>4. f = Append(g, e)
    <2>1. \A i \in 1..(d - 1) : f[i] = g[i]
        BY <1>1 DEF Firsts
    <2>2. f[d] = e
        BY <1>1 DEF Firsts
    <2>3. Len(Append(g, e)) = d /\ \A i \in 1..d : Append(g, e)[i] = IF i = d THEN e ELSE g[i]
        <3> HIDE DEF f, g, e
        <3> QED BY <1>1, <1>2, <1>3, AppendProperties
    <2>4. Append(g, e) \in Seq(Streams(Pairs))
        <3> HIDE DEF f, g, e
        <3> QED BY <1>2, <1>3, AppendProperties
    <2> HIDE DEF f, g, e
    <2>5. \A i \in 1..d : f[i] = Append(g, e)[i]
        BY <1>1, <2>1, <2>2, <2>3
    <2> QED BY <1>2, <2>3, <2>4, <2>5, SeqEqual
<1> HIDE DEF f, g, e
<1>5. FlattenSeq(Append(g, e)) = FlattenSeq(g) \o e
    BY <1>2, <1>3, FlattenAppend
<1> QED BY <1>2, <1>4, <1>5 DEF e

\* What the first records give is the beginning of what all of them give
LEMMA GivenPrefix ==
    ASSUME NEW w \in Seq(Plain), NEW d \in 0..Len(w)
    PROVE  \E u \in Streams(Pairs) : Given(w, Len(w)) = Given(w, d) \o u
<1> DEFINE f == Firsts(w, Len(w))
           g == Firsts(w, d)
<1>1. Len(w) \in 0..Len(w) /\ d \in Nat /\ Len(w) \in Nat
    OBVIOUS
<1>2. /\ f \in Seq(Streams(Pairs)) /\ Len(f) = Len(w) /\ Given(w, Len(w)) = FlattenSeq(f)
      /\ g \in Seq(Streams(Pairs)) /\ Len(g) = d /\ Given(w, d) = FlattenSeq(g)
    BY <1>1, FirstsType
<1>3. SubSeq(f, 1, d) = g
    <2>1. \A i \in 1..d : f[i] = g[i]
        BY <1>1 DEF Firsts
    <2> HIDE DEF f, g
    <2>2. /\ SubSeq(f, 1, d) \in Seq(Streams(Pairs)) /\ Len(SubSeq(f, 1, d)) = d
          /\ \A i \in 1..d : SubSeq(f, 1, d)[i] = f[i]
        BY <1>1, <1>2, TakeAt
    <2> QED BY <1>2, <2>1, <2>2, SeqEqual
<1> HIDE DEF f, g
<1>4. \E u \in Streams(Pairs) : FlattenSeq(f) = FlattenSeq(SubSeq(f, 1, d)) \o u
    <2>1. f \in Seq(Streams(Pairs)) /\ d \in 0..Len(f)
        BY <1>1, <1>2
    <2> HIDE DEF f
    <2> QED BY ONLY <2>1, FlattenPrefix
<1>5. PICK u \in Streams(Pairs) : FlattenSeq(f) = FlattenSeq(SubSeq(f, 1, d)) \o u
    BY <1>4, Zenon
<1>6. Given(w, Len(w)) = Given(w, d) \o u
    BY <1>2, <1>3, <1>5, Zenon
<1> QED BY <1>6, Zenon

\* A write does not change what was given
LEMMA GivenKeeps ==
    ASSUME NEW w \in Seq(Plain), NEW n \in Plain, NEW v, Appended(v, w, n), NEW d \in 0..Len(w)
    PROVE  Given(v, d) = Given(w, d) /\ \A r \in 1..Len(w) : PlaintextOf(v, r) = PlaintextOf(w, r)
<1>1. \A r \in 1..Len(w) : v[r] = w[r]
    BY AppendKeeps
<1>2. \A r \in 1..Len(w) : PlaintextOf(v, r) = PlaintextOf(w, r)
    BY <1>1 DEF PlaintextOf
<1>3. \A r \in 1..d : PlaintextOf(v, r) = PlaintextOf(w, r)
    BY <1>2
<1>4. Firsts(v, d) = Firsts(w, d)
    BY <1>3 DEF Firsts
<1> QED BY <1>2, <1>4 DEF Given, Firsts

-----------------------------------------------------------------------------
(* Bytes in flight *)

InFlight == ((header \o buf) \o avail) \o wire

LEMMA TakeLast ==
    ASSUME NEW a \in Seq(Byte), NEW b \in Seq(Byte), NEW c \in Seq(Byte), NEW n \in 1..Len(c)
    PROVE  /\ Left(c, n) \in Seq(Byte)
           /\ Cat(b, FirstPart(c, n)) \in Seq(Byte) /\ Len(Cat(b, FirstPart(c, n))) = Len(b) + n
           /\ Cat(Cat(b, FirstPart(c, n)), Left(c, n)) = Cat(b, c)
           /\ Cat(Cat(a, Cat(b, FirstPart(c, n))), Left(c, n)) = Cat(Cat(a, b), c)
<1> DEFINE d == FirstPart(c, n)
           e == Left(c, n)
<1>1. d \in Seq(Byte) /\ e \in Seq(Byte) /\ Len(d) = n
    BY DEF FirstPart, Left
<1>2. \A x \in Seq(Byte) : (x \o d) \o e = x \o c
    BY TakeFront, Zenon DEF FirstPart, Left
<1>3. (b \o d) \o e = b \o c /\ ((a \o b) \o d) \o e = (a \o b) \o c
    <2>1. a \o b \in Seq(Byte)
        BY ConcatAt
    <2> QED BY <1>2, <2>1, Zenon
<1>4. ASSUME NEW x \in Seq(Byte) PROVE (a \o b) \o x = a \o (b \o x)
    BY SMTT(60)
<1> HIDE DEF d, e
<1>5. (a \o b) \o d = a \o (b \o d)
    BY <1>1, <1>4
<1>6. b \o d \in Seq(Byte) /\ Len(b \o d) = Len(b) + n
    BY <1>1, ConcatAt
<1> QED BY <1>1, <1>2, <1>3, <1>5, <1>6 DEF d, e, Cat

LEMMA TakeFirst ==
    ASSUME NEW b \in Seq(Byte), NEW c \in Seq(Byte), NEW n \in 1..Len(c)
    PROVE  /\ Left(c, n) \in Seq(Byte)
           /\ Cat(b, FirstPart(c, n)) \in Seq(Byte) /\ Len(Cat(b, FirstPart(c, n))) = Len(b) + n
           /\ Cat(Cat(b, FirstPart(c, n)), Left(c, n)) = Cat(b, c)
BY TakeLast

\* The stream as the reader sees it in each of its states
LEMMA Views ==
    ASSUME NEW h \in Seq(Byte), NEW b \in Seq(Byte), NEW a \in Seq(Byte), NEW w \in Seq(Byte)
    PROVE  /\ Cat(h, b) \in Seq(Byte)
           /\ Cat(Cat(Cat(h, b), a), w) \in Seq(Byte)
           /\ b = <<>> => Cat(h, b) = h
           /\ h = <<>> => Cat(h, b) = b
           /\ h = <<>> /\ b = <<>> => Cat(Cat(h, b), a) = a
<1>1. h \in Streams(Byte) /\ b \in Streams(Byte) /\ a \in Streams(Byte) /\ w \in Streams(Byte)
    BY StreamsDef
<1>2. h \o b \in Streams(Byte) /\ ((h \o b) \o a) \o w \in Streams(Byte)
    BY <1>1, StreamConcat
<1>3. h \o <<>> = h /\ <<>> \o b = b /\ <<>> \o a = a
    BY <1>1, StreamEmpty
<1> QED BY <1>2, <1>3, StreamsDef DEF Cat

LEMMA NothingBefore == \A a \in Seq(Byte) : Cat(Cat(<<>>, <<>>), a) = a
BY StreamEmpty, StreamsDef DEF Cat

LEMMA FirstOfThree ==
    ASSUME NEW h \in Seq(Byte), NEW a \in Seq(Byte), NEW w \in Seq(Byte)
    PROVE  /\ Len(Cat(Cat(h, a), w)) \in Nat /\ Len(h) <= Len(Cat(Cat(h, a), w))
           /\ \A i \in 1..Len(h) : Cat(Cat(h, a), w)[i] = h[i]
           /\ Left(Cat(Cat(h, a), w), Len(h)) = Cat(a, w)
<1> DEFINE c == a \o w
           q == h \o c
<1>1. (h \o a) \o w = q
    BY ConcatAssoc, StreamsDef
<1>2. c \in Seq(Byte)
    BY ConcatAt
<1> HIDE DEF c
<1>3. q \in Seq(Byte) /\ Len(q) = Len(h) + Len(c) /\ Len(h) \in Nat /\ Len(c) \in Nat
    BY <1>2, ConcatAt
<1>4. (\A i \in 1..Len(h) : q[i] = h[i]) /\ (\A i \in 1..Len(c) : q[Len(h) + i] = c[i])
    BY <1>2, ConcatAt
<1> HIDE DEF q
<1> DEFINE d == SubSeq(q, Len(h) + 1, Len(q))
<1>5. d \in Seq(Byte) /\ Len(d) = Len(c) /\ \A i \in 1..Len(c) : d[i] = q[Len(h) + i]
    <2>1. Len(h) \in 0..Len(q) /\ Len(q) - Len(h) = Len(c)
        BY <1>3
    <2> QED BY <1>3, <2>1, DropAt
<1> HIDE DEF d
<1>6. d = c
    BY <1>2, <1>4, <1>5, SeqEqual
<1> QED BY <1>1, <1>3, <1>4, <1>6, SMTT(30) DEF c, d, Cat, Left

-----------------------------------------------------------------------------
(* The inductive invariant *)

Live == state \in {"ReadHeader", "ReadEncrypted", "OutputPlain"}

Typed ==
    /\ header \in Seq(Byte) /\ buf \in Seq(Byte) /\ avail \in Seq(Byte) /\ wire \in Seq(Byte)
    /\ output \in Streams(Pairs)
    /\ pos \in Nat

\* The reader is at the header of record d + 1
InHeader(d) ==
    /\ buf = <<>>
    /\ output = Given(written, d)
    /\ AtRecord(written, InFlight, d)

\* If the next byte is one of a body, then it is the first of record d + 1
BodyOf(w, q, d) ==
    q # <<>> /\ q[1].part = "body" => d < Len(w) /\ q[1] = Tok(w, d + 1, HEADER_LEN + 1)

\* Nothing was lost: the reader has the length of record d + 1, and its body
\* is next
Sound(d) ==
    /\ d < Len(written)
    /\ InFlight # <<>>
    /\ InFlight[1] = Tok(written, d + 1, HEADER_LEN + 1)
    /\ total = TL(written, d + 1) /\ cap = total
    /\ Len(buf) <= total

\* The reader is behind what it took for the header of record d + 1
InBody(d) ==
    /\ header = <<>>
    /\ output = Given(written, d)
    /\ BodyOf(written, InFlight, d)
    /\ harm = {} => Sound(d)

\* The reader gives out record plain
InOutput ==
    /\ header = <<>> /\ buf = <<>>
    /\ output = Given(written, plain - 1) \o SubSeq(PlaintextOf(written, plain), 1, pos)
    /\ AtRecord(written, InFlight, plain)

Ended ==
    /\ \E u \in Streams(Pairs) : Given(written, Len(written)) = output \o u
    /\ harm = {} => closed /\ output = Given(written, Len(written))

IInv ==
    /\ TypeOK
    /\ Typed
    /\ Live => Chain(written, harm, InFlight)
    /\ state = "ReadHeader" => \E d \in 0..Len(written) : InHeader(d)
    /\ state = "ReadEncrypted" => \E d \in 0..Len(written) : InBody(d)
    /\ state = "OutputPlain" => InOutput
    /\ ~Live => Ended

LEMMA InvInit == Init => IInv
<1> SUFFICES ASSUME Init PROVE IInv
    OBVIOUS
<1> USE DEF Init
<1>1. Len(written) = 0 /\ 0 \in 0..Len(written)
    OBVIOUS
<1>2. TypeOK
    <2>1. written \in Seq(Plain) /\ Len(header) = 0 /\ 0 <= HEADER_LEN
        BY SecureAssumption
    <2>2. plain \in 0..Len(written)
        BY <1>1
    <2> QED BY <2>1, <2>2 DEF TypeOK
<1>3. Typed
    <2>1. <<>> \in Seq(Byte) /\ <<>> \in Seq(Pairs)
        OBVIOUS
    <2>2. <<>> \in Streams(Pairs)
        BY <2>1, StreamsDef
    <2> QED BY <2>1, <2>2 DEF Typed
<1>4. InFlight = <<>>
    <2>1. <<>> \o <<>> = <<>>
        OBVIOUS
    <2> QED BY <2>1 DEF InFlight
<1>5. Chain(written, harm, InFlight)
    <2>1. Len(InFlight) = 0
        BY <1>4
    <2> QED BY <2>1 DEF Chain
<1>6. InHeader(0)
    BY <1>1, <1>4, GivenNothing DEF InHeader, AtRecord
<1> QED BY <1>1, <1>2, <1>3, <1>5, <1>6 DEF IInv, Live

\* What the writer puts on the wire is the beginning of the next record
LEMMA WriteTokens ==
    ASSUME NEW w \in Seq(Plain), NEW n \in Plain, NEW v, Appended(v, w, n),
           NEW k \in 1..Len(Record(Len(w) + 1, n))
    PROVE  LET r == Record(Len(w) + 1, n)
               c == SubSeq(r, 1, k)
           IN  /\ r \in Seq(Byte) /\ Len(r) = RecLen(v, Len(v)) /\ Len(r) \in Nat
               /\ c \in Seq(Byte) /\ c # <<>> /\ Len(c) = k
               /\ \A p \in 1..Len(c) : c[p] = Tok(v, Len(v), p)
<1> DEFINE r == Record(Len(w) + 1, n)
           c == SubSeq(r, 1, k)
<1>1. v \in Seq(Plain) /\ Len(v) = Len(w) + 1 /\ v[Len(v)] = n /\ Len(w) \in Nat
    BY AppendKeeps
<1>2. Len(v) \in 1..Len(v)
    BY <1>1
<1>3. r \in Seq(Byte) /\ Len(r) = RecLen(v, Len(v)) /\ \A p \in 1..RecLen(v, Len(v)) : r[p] = Tok(v, Len(v), p)
    <2>1. r = Record(Len(v), v[Len(v)])
        BY <1>1
    <2> HIDE DEF r
    <2> QED BY <1>1, <1>2, <2>1, RecordTokens
<1>4. k \in 1..Len(r)
    OBVIOUS
<1> HIDE DEF r
<1>5. k \in 0..Len(r) /\ k \in Nat \ {0} /\ Len(r) \in Nat
    BY <1>3, <1>4
<1>6. c \in Seq(Byte) /\ Len(c) = k /\ \A p \in 1..k : c[p] = r[p]
    BY <1>3, <1>5, TakeAt
<1> HIDE DEF c
<1>7. c # <<>>
    BY <1>5, <1>6, EmptySeq
<1>8. \A p \in 1..Len(c) : c[p] = Tok(v, Len(v), p)
    BY <1>3, <1>4, <1>5, <1>6
<1> QED BY <1>3, <1>5, <1>6, <1>7, <1>8 DEF r, c

LEMMA BodyOfExtend ==
    ASSUME NEW w \in Seq(Plain), NEW q \in Seq(Byte), NEW n \in Plain, NEW v, Appended(v, w, n),
           NEW c \in Seq(Byte), c # <<>>, c[1] = Tok(v, Len(v), 1),
           NEW d \in 0..Len(w), BodyOf(w, q, d)
    PROVE  BodyOf(v, q \o c, d)
<1>1. /\ Len(w) \in Nat /\ Len(v) = Len(w) + 1 /\ d \in Nat
      /\ \A r \in 1..Len(w) : \A p : Tok(v, r, p) = Tok(w, r, p)
    BY AppendKeeps
<1>2. q # <<>> => (q \o c)[1] = q[1]
    <2>1. Len(q) \in Nat /\ (q # <<>> => Len(q) # 0) /\ \A i \in 1..Len(q) : (q \o c)[i] = q[i]
        BY EmptySeq, ConcatAt
    <2> QED BY <2>1
<1>3. q = <<>> => (q \o c)[1].part # "body"
    <2>1. SUFFICES ASSUME q = <<>> PROVE (q \o c)[1].part # "body"
        OBVIOUS
    <2>2. q \o c = c
        BY <2>1, StreamsDef, StreamEmpty
    <2>3. 1 <= HEADER_LEN
        BY SecureAssumption
    <2> QED BY <2>2, <2>3, TokenFields
<1>4. SUFFICES ASSUME (q \o c)[1].part = "body"
               PROVE  d < Len(v) /\ (q \o c)[1] = Tok(v, d + 1, HEADER_LEN + 1)
    BY DEF BodyOf
<1>5. q # <<>> /\ q[1].part = "body"
    BY <1>2, <1>3, <1>4
<1>6. d < Len(w) /\ q[1] = Tok(w, d + 1, HEADER_LEN + 1)
    BY <1>5 DEF BodyOf
<1>7. d + 1 \in 1..Len(w)
    BY <1>1, <1>6
<1> QED BY <1>1, <1>2, <1>5, <1>6, <1>7

LEMMA PollWriteInv ==
    ASSUME IInv, NEW n \in Plain, PollWrite(n)
    PROVE  IInv'
<1> USE DEF PollWrite, bodyVars, plainVars
<1> DEFINE w == written
           v == written'
           r == Record(Len(w) + 1, n)
<1>1. /\ TypeOK /\ Typed /\ (Live => Chain(written, harm, InFlight))
      /\ w \in Seq(Plain) /\ Len(w) \in Nat /\ harm \subseteq {"torn", "starved"}
    BY DEF IInv, TypeOK
<1>2. Appended(v, w, n)
    BY DEF Appended
<1>3. /\ v \in Seq(Plain) /\ Len(v) = Len(w) + 1
      /\ \A s \in 1..Len(w) : v[s] = w[s] /\ TL(v, s) = TL(w, s)
      /\ \A s \in 1..Len(w) : \A p : Tok(v, s, p) = Tok(w, s, p)
    BY <1>1, <1>2, AppendKeeps
<1>4. PICK k \in 1..Len(r) :
          /\ harm' = IF k < Len(r) THEN harm \cup {"torn"} ELSE harm
          /\ wire' = wire \o SubSeq(r, 1, k)
    OBVIOUS
<1> DEFINE c == SubSeq(r, 1, k)
<1>5. /\ r \in Seq(Byte) /\ Len(r) = RecLen(v, Len(v)) /\ Len(r) \in Nat
      /\ c \in Seq(Byte) /\ c # <<>> /\ Len(c) = k
      /\ \A p \in 1..Len(c) : c[p] = Tok(v, Len(v), p)
    <2> HIDE DEF PollWrite, w, v
    <2> QED BY <1>1, <1>2, WriteTokens
<1>6. /\ harm' = IF k < Len(r) THEN harm \cup {"torn"} ELSE harm
      /\ wire' = wire \o c /\ k \in 1..Len(r)
    BY <1>4
<1>7. UNCHANGED <<closed, avail, state, header, total, buf, cap, plain, pos, output>>
    OBVIOUS
<1>8. ~closed
    OBVIOUS
<1> HIDE DEF w, v, r, c, PollWrite
<1>9. "torn" \notin harm' => "torn" \notin harm /\ Len(c) = RecLen(v, Len(v))
    BY <1>5, <1>6
<1>10. harm' = {} => harm = {}
    BY <1>6
<1>11. /\ InFlight \in Seq(Byte) /\ wire' \in Seq(Byte)
       /\ InFlight' = InFlight \o c
    <2>1. /\ header \in Seq(Byte) /\ buf \in Seq(Byte) /\ avail \in Seq(Byte) /\ wire \in Seq(Byte)
        BY <1>1 DEF Typed
    <2> DEFINE a == (header \o buf) \o avail
    <2>2. a \in Seq(Byte) /\ wire \o c \in Seq(Byte)
        BY <1>5, <2>1, ConcatAt
    <2>3. InFlight = a \o wire /\ InFlight' = a \o (wire \o c)
        BY <1>6, <1>7 DEF InFlight
    <2> HIDE DEF a
    <2>4. a \o wire \in Seq(Byte) /\ (a \o wire) \o c = a \o (wire \o c)
        <3>1. a \in Streams(Byte) /\ wire \in Streams(Byte) /\ c \in Streams(Byte)
            BY <1>5, <2>1, <2>2, StreamsDef
        <3>2. Cat(Cat(a, wire), c) = Cat(a, Cat(wire, c)) /\ Cat(a, wire) \in Streams(Byte)
            BY <3>1, CatAssoc
        <3> QED BY <3>2, StreamsDef DEF Cat
    <2> QED BY <1>6, <2>2, <2>3, <2>4
<1>12. Typed'
    BY <1>1, <1>7, <1>11 DEF Typed
<1>13. TypeOK'
    <2>1. written' \in Seq(Plain) /\ plain' \in 0..Len(written')
        BY <1>1, <1>3, <1>7 DEF TypeOK, w, v
    <2>2. harm' \subseteq {"torn", "starved"}
        BY <1>1, <1>6
    <2>3. state' = "OutputPlain" => plain' # 0 /\ pos' \in 0..(written'[plain'] - 1)
        <3>1. SUFFICES ASSUME state = "OutputPlain" PROVE plain # 0 /\ pos \in 0..(v[plain] - 1)
            BY <1>7 DEF v
        <3>2. plain # 0 /\ pos \in 0..(w[plain] - 1) /\ plain \in 1..Len(w)
            BY <1>1, <3>1 DEF TypeOK, w
        <3> QED BY <1>3, <3>2
    <2> QED BY <1>1, <1>7, <2>1, <2>2, <2>3 DEF TypeOK
<1>14. c[1] = Tok(v, Len(v), 1)
    <2>1. 1 \in 1..Len(c)
        BY <1>5, <1>6
    <2> QED BY <1>5, <2>1
<1>15. Live' => Chain(v, harm', InFlight')
    <2>1. SUFFICES ASSUME Live PROVE Chain(v, harm', InFlight \o c)
        BY <1>7, <1>11 DEF Live
    <2>2. Chain(w, harm, InFlight)
        BY <1>1, <2>1 DEF w
    <2>3. Len(c) <= RecLen(v, Len(v))
        BY <1>5, <1>6
    <2> QED BY <1>1, <1>2, <1>5, <1>9, <1>11, <2>2, <2>3, ChainExtend
<1>16. \A d \in 0..Len(w) : /\ d \in 0..Len(v) /\ Given(v, d) = Given(w, d)
                            /\ AtRecord(w, InFlight, d) => AtRecord(v, InFlight', d)
                            /\ BodyOf(w, InFlight, d) => BodyOf(v, InFlight', d)
    <2>1. SUFFICES ASSUME NEW d \in 0..Len(w)
                   PROVE  /\ d \in 0..Len(v) /\ Given(v, d) = Given(w, d)
                          /\ AtRecord(w, InFlight, d) => AtRecord(v, InFlight', d)
                          /\ BodyOf(w, InFlight, d) => BodyOf(v, InFlight', d)
        OBVIOUS
    <2>2. d \in 0..Len(v)
        BY <1>1, <1>3
    <2>3. Given(v, d) = Given(w, d)
        BY <1>1, <1>2, GivenKeeps
    <2>4. AtRecord(w, InFlight, d) => AtRecord(v, InFlight', d)
        BY <1>1, <1>2, <1>5, <1>11, <1>14, AtRecordExtend
    <2>5. BodyOf(w, InFlight, d) => BodyOf(v, InFlight', d)
        BY <1>1, <1>2, <1>5, <1>11, <1>14, BodyOfExtend
    <2> QED BY <2>2, <2>3, <2>4, <2>5
<1>17. state' = "ReadHeader" => \E d \in 0..Len(v) : InHeader(d)'
    <2>1. SUFFICES ASSUME state = "ReadHeader" PROVE \E d \in 0..Len(v) : InHeader(d)'
        BY <1>7
    <2>2. PICK d \in 0..Len(w) : InHeader(d)
        BY <2>1 DEF IInv, w
    <2>3. InHeader(d)'
        BY <1>7, <1>16, <2>2 DEF InHeader, w, v
    <2> QED BY <1>16, <2>3
<1>18. state' = "ReadEncrypted" => \E d \in 0..Len(v) : InBody(d)'
    <2>1. SUFFICES ASSUME state = "ReadEncrypted" PROVE \E d \in 0..Len(v) : InBody(d)'
        BY <1>7
    <2>2. PICK d \in 0..Len(w) : InBody(d)
        BY <2>1 DEF IInv, w
    <2>3. harm' = {} => Sound(d)'
        <3>1. SUFFICES ASSUME harm' = {} PROVE Sound(d)'
            OBVIOUS
        <3>2. Sound(d)
            BY <1>10, <2>2, <3>1 DEF InBody
        <3>3. d < Len(w) /\ InFlight # <<>> /\ InFlight[1] = Tok(w, d + 1, HEADER_LEN + 1)
              /\ total = TL(w, d + 1) /\ cap = total /\ Len(buf) <= total
            BY <3>2 DEF Sound, w
        <3>4. d + 1 \in 1..Len(w) /\ d < Len(v)
            BY <1>1, <1>3, <3>3
        <3>5. InFlight' # <<>> /\ InFlight'[1] = InFlight[1]
            <4>1. Len(InFlight) \in Nat /\ Len(InFlight) # 0 /\ Len(c) \in Nat
                BY <1>5, <1>11, <3>3, EmptySeq
            <4>2. Len(InFlight') = Len(InFlight) + Len(c) /\ \A i \in 1..Len(InFlight) : InFlight'[i] = InFlight[i]
                BY <1>5, <1>11, ConcatAt
            <4>3. InFlight' \in Seq(Byte) /\ Len(InFlight') # 0
                BY <1>5, <1>11, <4>1, <4>2, ConcatAt
            <4> QED BY <4>1, <4>2, <4>3, EmptySeq
        <3> QED BY <1>3, <1>7, <3>3, <3>4, <3>5 DEF Sound, v
    <2>4. InBody(d)'
        BY <1>7, <1>16, <2>2, <2>3 DEF InBody, w, v
    <2> QED BY <1>16, <2>4
<1>19. state' = "OutputPlain" => InOutput'
    <2>1. SUFFICES ASSUME state = "OutputPlain" PROVE InOutput'
        BY <1>7
    <2>2. InOutput /\ plain # 0 /\ plain \in 0..Len(w)
        BY <1>1, <2>1 DEF IInv, TypeOK, w
    <2>3. plain - 1 \in 0..Len(w) /\ plain \in 1..Len(w)
        BY <1>1, <2>2
    <2>4. PlaintextOf(v, plain) = PlaintextOf(w, plain)
        BY <1>1, <1>2, <2>2, <2>3, GivenKeeps
    <2> QED BY <1>7, <1>16, <2>2, <2>3, <2>4 DEF InOutput, w, v
<1>20. ~Live' => Ended'
    <2>1. SUFFICES ASSUME ~Live PROVE Ended'
        BY <1>7 DEF Live
    <2>2. Ended
        BY <2>1 DEF IInv
    <2>3. PICK u \in Streams(Pairs) : Given(w, Len(w)) = output \o u
        BY <2>2 DEF Ended, w
    <2>4. Len(w) \in 0..Len(v)
        BY <1>1, <1>3
    <2>5. PICK t \in Streams(Pairs) : Given(v, Len(v)) = Given(v, Len(w)) \o t
        BY <1>3, <2>4, GivenPrefix
    <2>6. Given(v, Len(w)) = output \o u
        BY <1>1, <1>16, <2>3, SMTT(40)
    <2>7. PICK x \in Streams(Pairs) : Given(v, Len(v)) = output \o x
        <3>1. output \in Streams(Pairs)
            BY <1>1 DEF Typed
        <3>2. Given(v, Len(v)) = (output \o u) \o t
            BY <2>5, <2>6
        <3>3. (output \o u) \o t = output \o (u \o t)
            BY <3>1, ConcatAssoc, SMTT(40)
        <3>4. u \o t \in Streams(Pairs)
            BY StreamConcat
        <3> QED BY <3>2, <3>3, <3>4
    <2>8. harm' # {}
        BY <1>8, <1>10, <2>2 DEF Ended
    <2>9. output' = output
        BY <1>7
    <2> QED BY <2>7, <2>8, <2>9 DEF Ended, v
<1> QED BY <1>12, <1>13, <1>15, <1>17, <1>18, <1>19, <1>20 DEF IInv, v

\* A step that moves bytes and leaves the reader where it is
LEMMA SameFlight ==
    ASSUME IInv, InFlight' = InFlight,
           UNCHANGED <<written, state, header, total, buf, cap, plain, pos, output, harm>>,
           closed' \in BOOLEAN, closed => closed', avail' \in Seq(Byte), wire' \in Seq(Byte)
    PROVE  IInv'
<1>1. TypeOK'
    BY DEF IInv, TypeOK
<1>2. Typed'
    BY DEF IInv, Typed
<1>3. Live' => Chain(written, harm, InFlight)'
    BY DEF IInv, Live
<1>4. state' = "ReadHeader" => \E d \in 0..Len(written') : InHeader(d)'
    BY DEF IInv, InHeader
<1>5. state' = "ReadEncrypted" => \E d \in 0..Len(written') : InBody(d)'
    BY DEF IInv, InBody, Sound
<1>6. state' = "OutputPlain" => InOutput'
    BY DEF IInv, InOutput
<1>7. ~Live' => Ended'
    BY DEF IInv, Live, Ended
<1> QED BY <1>1, <1>2, <1>3, <1>4, <1>5, <1>6, <1>7 DEF IInv

LEMMA ShutdownInv ==
    ASSUME IInv, Shutdown
    PROVE  IInv'
<1>1. UNCHANGED <<written, wire, avail, state, header, total, buf, cap, plain, pos, output, harm>> /\ closed' = TRUE
    BY DEF Shutdown, bodyVars, plainVars
<1>2. InFlight' = InFlight
    BY <1>1 DEF InFlight
<1>3. avail' \in Seq(Byte) /\ wire' \in Seq(Byte)
    BY <1>1 DEF IInv, Typed
<1> QED BY <1>1, <1>2, <1>3, SameFlight

LEMMA ArriveInv ==
    ASSUME IInv, NEW n \in 1..Len(wire), Arrive(n)
    PROVE  IInv'
<1>1. /\ UNCHANGED <<written, closed, state, header, total, buf, cap, plain, pos, output, harm>>
      /\ avail' = Cat(avail, FirstPart(wire, n))
      /\ wire' = Left(wire, n)
    BY DEF Arrive, writerVars, bodyVars, plainVars, FirstPart, Left, Cat
<1>2. header \in Seq(Byte) /\ buf \in Seq(Byte) /\ avail \in Seq(Byte) /\ wire \in Seq(Byte) /\ closed \in BOOLEAN
    BY DEF IInv, Typed, TypeOK
<1>3. Cat(header, buf) \in Seq(Byte)
    BY <1>2, Views
<1>4. /\ avail' \in Seq(Byte) /\ wire' \in Seq(Byte)
      /\ Cat(Cat(Cat(header, buf), avail'), wire') = Cat(Cat(Cat(header, buf), avail), wire)
    BY <1>1, <1>2, <1>3, TakeLast
<1>5. InFlight' = InFlight
    BY <1>1, <1>4 DEF InFlight, Cat
<1>6. avail' \in Seq(Byte) /\ wire' \in Seq(Byte)
    BY <1>1, <1>4
<1> QED BY <1>1, <1>2, <1>5, <1>6, SameFlight

LEMMA ReadHeaderInv ==
    ASSUME IInv, NEW n \in 1..Len(avail), ReadHeader(n)
    PROVE  IInv'
<1>1. /\ UNCHANGED <<written, closed, wire, state, total, buf, cap, plain, pos, output, harm>>
      /\ state = "ReadHeader" /\ n <= HEADER_LEN - Len(header)
      /\ avail' = Left(avail, n)
      /\ header' = Cat(header, FirstPart(avail, n))
    BY DEF ReadHeader, Take, writerVars, bodyVars, plainVars, FirstPart, Left, Cat
<1>2. /\ header \in Seq(Byte) /\ buf \in Seq(Byte) /\ avail \in Seq(Byte) /\ wire \in Seq(Byte)
      /\ Chain(written, harm, InFlight)
    BY <1>1 DEF IInv, Typed, Live
<1>3. PICK d \in 0..Len(written) : InHeader(d)
    BY <1>1 DEF IInv
<1>4. buf = <<>>
    BY <1>3 DEF InHeader
<1>5. /\ avail' \in Seq(Byte) /\ header' \in Seq(Byte) /\ Len(header') = Len(header) + n
      /\ Cat(header', avail') = Cat(header, avail)
    BY <1>1, <1>2, TakeLast
<1>6. Cat(header, buf) = header /\ Cat(header', buf) = header'
    BY <1>2, <1>4, <1>5, Views
<1>7. InFlight' = InFlight
    <2>1. Cat(Cat(Cat(header, buf), avail), wire) = Cat(Cat(Cat(header', buf), avail'), wire)
        BY <1>5, <1>6
    <2> QED BY <1>1, <2>1 DEF InFlight, Cat
<1>8. InHeader(d)'
    BY <1>1, <1>3, <1>7 DEF InHeader
<1>9. Chain(written, harm, InFlight)'
    BY <1>1, <1>2, <1>7
<1>10. Len(header') <= HEADER_LEN
    BY <1>1, <1>2, <1>5, SecureAssumption
<1>11. TypeOK'
    BY <1>1, <1>10 DEF IInv, TypeOK
<1>12. Typed'
    BY <1>1, <1>5 DEF IInv, Typed
<1> QED BY <1>1, <1>8, <1>9, <1>11, <1>12 DEF IInv, Live

-----------------------------------------------------------------------------
(* The header is complete *)

\* What the four bytes are read as is a number, and the length of record
\* d + 1 if they are its header.
LEMMA LengthsOfHeader ==
    ASSUME NEW w \in Seq(Plain), NEW d \in 0..(Len(w) - 1), NEW q \in Seq(Byte), Len(q) = HEADER_LEN,
           \A i \in 1..HEADER_LEN : q[i] = Tok(w, d + 1, i)
    PROVE  Lengths(q) = {TL(w, d + 1)}
<1>1. /\ d + 1 \in 1..Len(w) /\ d + 1 \in Nat /\ TL(w, d + 1) \in Nat
      /\ HEADER_LEN \in Nat /\ 1 \in 1..HEADER_LEN
    <2>1. d + 1 \in 1..Len(w) /\ d + 1 \in Nat
        OBVIOUS
    <2> QED BY <2>1, TokenLength
<1> DEFINE b == q[1]
<1>2. b = Tok(w, d + 1, 1)
    BY <1>1
<1>3. b.part = "header" /\ b.of = d + 1 /\ b.len = TL(w, d + 1)
    BY <1>1, <1>2, TokenFields
<1>4. q = Header(d + 1, TL(w, d + 1))
    <2> DEFINE H == Header(d + 1, TL(w, d + 1))
    <2>1. \A i \in 1..HEADER_LEN : H[i] = Tok(w, d + 1, i)
        BY <1>1 DEF Header, Tok
    <2>2. H = [i \in 1..HEADER_LEN |-> H[i]]
        BY DEF Header
    <2>3. \A i \in 1..HEADER_LEN : H[i] \in Byte
        BY <1>1, <2>1
    <2> HIDE DEF H
    <2>4. H \in Seq(Byte) /\ Len(H) = HEADER_LEN
        BY <1>1, <2>2, <2>3, FunctionIsSequence
    <2>5. q = H
        BY <2>1, <2>4, SeqEqual
    <2> QED BY <2>5 DEF H
<1>5. b \in ToSet(q) /\ Head(q) = b
    BY <1>1 DEF ToSet
<1>6. \E x \in ToSet(q) : x.part = "header" /\ q = Header(x.of, x.len)
    BY <1>3, <1>4, <1>5
<1> QED BY <1>3, <1>5, <1>6 DEF Lengths

LEMMA LengthsType ==
    ASSUME NEW q \in Seq(Byte), q # <<>>
    PROVE  Lengths(q) \subseteq Nat
<1>1. Head(q) \in Byte
    BY HeadTailProperties
<1>2. Head(q).len \in Nat
    BY <1>1 DEF Byte
<1>3. 0..(HEADER_LEN + NONCE_LEN + TagLen) \subseteq Nat
    OBVIOUS
<1> QED BY <1>2, <1>3 DEF Lengths

LEMMA LeftAt ==
    ASSUME NEW q \in Seq(Byte), NEW n \in 0..Len(q)
    PROVE  /\ Left(q, n) \in Seq(Byte) /\ Len(Left(q, n)) = Len(q) - n
           /\ Left(q, n) # <<>> <=> n < Len(q)
           /\ n < Len(q) => Left(q, n)[1] = q[n + 1]
<1> DEFINE t == Left(q, n)
<1>1. t \in Seq(Byte) /\ Len(t) = Len(q) - n /\ \A i \in 1..(Len(q) - n) : t[i] = q[n + i]
    BY DropAt DEF Left
<1>2. Len(q) \in Nat /\ n \in Nat
    OBVIOUS
<1> HIDE DEF t
<1>3. t # <<>> <=> n < Len(q)
    BY <1>1, <1>2, EmptySeq
<1>4. n < Len(q) => t[1] = q[n + 1]
    BY <1>1, <1>2
<1> QED BY <1>1, <1>3, <1>4 DEF t

LEMMA HeaderDoneInv ==
    ASSUME IInv, HeaderDone
    PROVE  IInv'
<1> DEFINE w == written
           F == InFlight
<1>1. /\ UNCHANGED <<written, closed, wire, avail, plain, pos, output, harm>>
      /\ state = "ReadHeader" /\ Len(header) = HEADER_LEN
      /\ total' \in Lengths(header) /\ state' = "ReadEncrypted"
      /\ buf' = <<>> /\ cap' = total' /\ header' = <<>>
    BY DEF HeaderDone, writerVars, plainVars
<1>2. /\ header \in Seq(Byte) /\ buf \in Seq(Byte) /\ avail \in Seq(Byte) /\ wire \in Seq(Byte)
      /\ w \in Seq(Plain) /\ Len(w) \in Nat /\ Chain(w, harm, F)
      /\ HEADER_LEN \in Nat \ {0}
    BY <1>1, SecureAssumption DEF IInv, Typed, TypeOK, Live
<1>3. PICK d \in 0..Len(w) : InHeader(d)
    BY <1>1 DEF IInv
<1>4. buf = <<>> /\ output = Given(w, d) /\ AtRecord(w, F, d)
    BY <1>3 DEF InHeader
<1>5. F = Cat(Cat(header, avail), wire) /\ InFlight' = Cat(avail, wire) /\ F \in Seq(Byte)
    <2>1. Cat(header, buf) = header /\ Cat(Cat(Cat(header, buf), avail), wire) \in Seq(Byte)
        BY <1>2, <1>4, Views
    <2>2. Cat(Cat(header', buf'), avail) = avail
        BY <1>1, <1>2, NothingBefore
    <2> QED BY <1>1, <2>1, <2>2 DEF InFlight, Cat
<1>6. /\ Len(F) \in Nat /\ HEADER_LEN <= Len(F)
      /\ \A i \in 1..HEADER_LEN : F[i] = header[i]
      /\ InFlight' = Left(F, HEADER_LEN)
    <2> DEFINE G == Cat(Cat(header, avail), wire)
    <2>1. /\ Len(G) \in Nat /\ Len(header) <= Len(G) /\ \A i \in 1..Len(header) : G[i] = header[i]
          /\ Left(G, Len(header)) = Cat(avail, wire)
        BY <1>2, FirstOfThree
    <2> HIDE DEF F, G
    <2>2. F = G
        BY <1>5 DEF G
    <2> QED BY <1>1, <1>5, <2>1, <2>2
<1> HIDE DEF w, F
<1>7. HEADER_LEN \in 0..Len(F) /\ F # <<>>
    BY <1>2, <1>5, <1>6, EmptySeq
<1>8. /\ InFlight' \in Seq(Byte) /\ (InFlight' # <<>> <=> HEADER_LEN < Len(F))
      /\ HEADER_LEN < Len(F) => InFlight'[1] = F[HEADER_LEN + 1]
    BY <1>5, <1>6, <1>7, LeftAt
<1>9. d < Len(w) /\ d + 1 \in 1..Len(w) /\ F[1] = Tok(w, d + 1, 1) /\ d \in 0..(Len(w) - 1)
    BY <1>2, <1>4, <1>7 DEF AtRecord
<1>10. /\ RecLen(w, d + 1) \in Nat /\ RecLen(w, d + 1) > HEADER_LEN /\ TL(w, d + 1) \in Nat
       /\ 1 \in 1..RecLen(w, d + 1)
    BY <1>2, <1>9, TokenLength
<1>11. Chain(w, harm, InFlight')
    <2>1. Chain(w, harm, SubSeq(F, HEADER_LEN + 1, Len(F)))
        BY <1>2, <1>5, <1>7, ChainDrop
    <2> QED BY <1>6, <2>1 DEF Left
<1>12. BodyOf(w, InFlight', d)
    <2>1. SUFFICES ASSUME InFlight' # <<>>, InFlight'[1].part = "body"
                   PROVE  InFlight'[1] = Tok(w, d + 1, HEADER_LEN + 1)
        BY <1>9 DEF BodyOf
    <2>2. HEADER_LEN + 1 \in 1..Len(F) /\ InFlight'[1] = F[HEADER_LEN + 1]
        BY <1>2, <1>6, <1>8, <2>1
    <2>3. \/ F[HEADER_LEN + 1] = Tok(w, d + 1, HEADER_LEN + 1)
          \/ \E s \in 1..Len(w) : \E x \in 1..RecLen(w, s) : x < HEADER_LEN + 1 /\ F[HEADER_LEN + 1] = Tok(w, s, x)
        BY <1>2, <1>5, <1>9, <2>2, HeaderRun
    <2>4. ASSUME NEW s \in 1..Len(w), NEW x \in 1..RecLen(w, s), x < HEADER_LEN + 1,
                 F[HEADER_LEN + 1] = Tok(w, s, x)
          PROVE  FALSE
        <3>1. x <= HEADER_LEN
            BY <1>2, <2>4
        <3>2. Tok(w, s, x).part = "header"
            BY <3>1, TokenFields
        <3> QED BY <2>1, <2>2, <2>4, <3>2
    <2> QED BY <2>2, <2>3, <2>4
<1>13. total' \in Nat
    <2>1. header # <<>>
        BY <1>1, <1>2, EmptySeq
    <2> QED BY <1>1, <1>2, <2>1, LengthsType
<1>14. harm' = {} => Sound(d)'
    <2>1. SUFFICES ASSUME harm = {} PROVE Sound(d)'
        BY <1>1
    <2>2. "torn" \notin harm
        BY <2>1
    <2>3. Len(F) >= RecLen(w, d + 1) - 1 + 1
        BY <1>2, <1>5, <1>7, <1>9, <1>10, <2>2, ChainWhole
    <2>4. HEADER_LEN < Len(F)
        BY <1>2, <1>6, <1>10, <2>3
    <2>5. ASSUME NEW k \in 1..(HEADER_LEN + 1) PROVE F[k] = Tok(w, d + 1, k)
        <3>1. k \in 1..Len(F) /\ k <= RecLen(w, d + 1)
            BY <1>2, <1>6, <1>10, <2>4
        <3> QED BY <1>2, <1>5, <1>9, <2>2, <3>1, HeaderRun
    <2>6. \A i \in 1..HEADER_LEN : header[i] = Tok(w, d + 1, i)
        BY <1>2, <1>6, <2>5
    <2>7. total' = TL(w, d + 1)
        BY <1>1, <1>2, <1>9, <2>6, LengthsOfHeader
    <2>8. InFlight' # <<>> /\ InFlight'[1] = Tok(w, d + 1, HEADER_LEN + 1)
        <3>1. HEADER_LEN + 1 \in 1..(HEADER_LEN + 1)
            BY <1>2
        <3> QED BY <1>8, <2>4, <2>5, <3>1
    <2>9. Len(buf') <= total'
        <3>1. Len(buf') = 0
            BY <1>1, EmptySeq
        <3> QED BY <1>13, <3>1
    <2> QED BY <1>1, <1>9, <2>7, <2>8, <2>9 DEF Sound, w
<1>15. InBody(d)'
    BY <1>1, <1>4, <1>12, <1>14 DEF InBody, w
<1>16. TypeOK'
    <2>1. Len(header') <= HEADER_LEN
        BY <1>1, <1>2
    <2> QED BY <1>1, <1>13, <2>1 DEF IInv, TypeOK
<1>17. Typed'
    BY <1>1, <1>2 DEF IInv, Typed
<1> QED BY <1>1, <1>2, <1>3, <1>11, <1>15, <1>16, <1>17 DEF IInv, Live, w

-----------------------------------------------------------------------------
(* The body is complete *)

\* Bytes of a chain that decrypt are a whole body, of the record of the first
LEMMA DecryptIs ==
    ASSUME NEW w \in Seq(Plain), NEW q \in Seq(Byte), q # <<>>,
           NEW r \in 1..Len(w), NEW p \in 1..RecLen(w, r), q[1] = Tok(w, r, p)
    PROVE  /\ Decrypt(q) \in {0, r}
           /\ Decrypt(q) = r => /\ p = HEADER_LEN + 1 /\ Len(q) = TL(w, r)
                                /\ q[Len(q)] = Tok(w, r, RecLen(w, r))
           /\ /\ Len(q) = TL(w, r)
              /\ \A i \in 1..Len(q) : q[i] = Tok(w, r, HEADER_LEN + i)
              => Decrypt(q) = r
<1> DEFINE L == TL(w, r)
           B == Body(r, L)
<1>1. /\ r \in Nat /\ r # 0 /\ p \in Nat /\ L \in Nat /\ L # 0 /\ HEADER_LEN \in Nat /\ NONCE_LEN \in Nat
      /\ RecLen(w, r) = HEADER_LEN + L
    BY TokenLength DEF RecLen
<1>2. Head(q) = q[1] /\ q[1].of = r /\ q[1].len = L /\ Len(q) \in Nat /\ Len(q) # 0
    BY TokenFields, EmptySeq
<1> HIDE DEF L, B
<1>3. B \in Seq(Byte) /\ Len(B) = L /\ \A i \in 1..L : B[i] = Tok(w, r, HEADER_LEN + i)
    <2>1. ASSUME NEW i \in 1..L PROVE B[i] = Tok(w, r, HEADER_LEN + i) /\ B[i] \in Byte
        <3>1. ~(HEADER_LEN + i <= HEADER_LEN) /\ (HEADER_LEN + i) - HEADER_LEN = i /\ i \in Nat
            BY <1>1
        <3> QED BY <1>1, <3>1 DEF Body, Tok, Byte, B, L
    <2>2. B = [i \in 1..L |-> B[i]]
        BY DEF Body, B
    <2> QED BY <1>1, <2>1, <2>2, FunctionIsSequence
<1>4. Decrypt(q) = IF q = B THEN r ELSE 0
    BY <1>2 DEF Decrypt, B
<1>5. ASSUME q = B
      PROVE  /\ p = HEADER_LEN + 1 /\ Len(q) = L
             /\ q[Len(q)] = Tok(w, r, RecLen(w, r))
    <2>1. 1 \in 1..L /\ L \in 1..L
        BY <1>1
    <2>2. Tok(w, r, p) = Tok(w, r, HEADER_LEN + 1)
        BY <1>3, <1>5, <2>1
    <2>3. p = HEADER_LEN + 1
        BY <1>1, <2>2, TokenUnique
    <2>4. q[Len(q)] = Tok(w, r, HEADER_LEN + L)
        BY <1>3, <1>5, <2>1
    <2> QED BY <1>1, <1>3, <1>5, <2>3, <2>4
<1>6. ASSUME Len(q) = L, \A i \in 1..Len(q) : q[i] = Tok(w, r, HEADER_LEN + i)
      PROVE  q = B
    BY <1>3, <1>6, SeqEqual
<1> QED BY <1>1, <1>4, <1>5, <1>6 DEF L

LEMMA EncryptedDoneInv ==
    ASSUME IInv, EncryptedDone
    PROVE  IInv'
<1> DEFINE w == written
           F == InFlight
<1>1. /\ UNCHANGED <<written, closed, wire, avail, header, total, cap, output, harm>>
      /\ state = "ReadEncrypted" /\ Len(buf) >= total
      /\ buf' = <<>> /\ plain' = Decrypt(buf) /\ pos' = 0
      /\ state' = IF Len(buf) < NONCE_LEN THEN "panicked"
                  ELSE IF Decrypt(buf) = 0 THEN "failed"
                  ELSE "OutputPlain"
    BY DEF EncryptedDone, writerVars
<1>2. /\ header \in Seq(Byte) /\ buf \in Seq(Byte) /\ avail \in Seq(Byte) /\ wire \in Seq(Byte)
      /\ w \in Seq(Plain) /\ Len(w) \in Nat /\ Chain(w, harm, F) /\ total \in Nat
      /\ HEADER_LEN \in Nat \ {0} /\ NONCE_LEN \in Nat \ {0}
    BY <1>1, SecureAssumption DEF IInv, Typed, TypeOK, Live
<1>3. PICK d \in 0..Len(w) : InBody(d)
    BY <1>1 DEF IInv
<1>4. header = <<>> /\ output = Given(w, d) /\ BodyOf(w, F, d) /\ (harm = {} => Sound(d))
    BY <1>3 DEF InBody
<1>5. F = Cat(Cat(buf, avail), wire) /\ InFlight' = Cat(avail, wire) /\ F \in Seq(Byte)
    <2>1. Cat(header, buf) = buf /\ Cat(Cat(Cat(header, buf), avail), wire) \in Seq(Byte)
        BY <1>2, <1>4, Views
    <2>2. Cat(Cat(header', buf'), avail) = avail
        BY <1>1, <1>2, <1>4, NothingBefore
    <2> QED BY <1>1, <2>1, <2>2 DEF InFlight, Cat
<1>6. /\ Len(F) \in Nat /\ Len(buf) <= Len(F)
      /\ \A i \in 1..Len(buf) : F[i] = buf[i]
      /\ InFlight' = Left(F, Len(buf))
    <2> DEFINE G == Cat(Cat(buf, avail), wire)
    <2>1. /\ Len(G) \in Nat /\ Len(buf) <= Len(G) /\ \A i \in 1..Len(buf) : G[i] = buf[i]
          /\ Left(G, Len(buf)) = Cat(avail, wire)
        BY <1>2, FirstOfThree
    <2> HIDE DEF F, G
    <2>2. F = G
        BY <1>5 DEF G
    <2> QED BY <1>1, <1>5, <2>1, <2>2
<1> HIDE DEF w, F
<1>7. Len(buf) \in 0..Len(F)
    BY <1>2, <1>6
<1>8. Chain(w, harm, InFlight')
    <2>1. Chain(w, harm, SubSeq(F, Len(buf) + 1, Len(F)))
        BY <1>2, <1>5, <1>7, ChainDrop
    <2> QED BY <1>6, <2>1 DEF Left
<1>9. buf # <<>> => \E r \in 1..Len(w) : \E p \in 1..RecLen(w, r) : buf[1] = Tok(w, r, p)
    <2>1. SUFFICES ASSUME buf # <<>>
                   PROVE  \E r \in 1..Len(w) : \E p \in 1..RecLen(w, r) : buf[1] = Tok(w, r, p)
        OBVIOUS
    <2>2. 1 \in 1..Len(buf) /\ 1 \in 1..Len(F)
        BY <1>2, <1>6, <2>1, EmptySeq
    <2>3. \E r \in 1..Len(w) : \E p \in 1..RecLen(w, r) : F[1] = Tok(w, r, p)
        BY <1>2, <2>2, ChainAt
    <2> QED BY <1>6, <2>2, <2>3
<1>10. Decrypt(buf) \in 0..Len(w)
    <2>1. CASE buf = <<>>
        BY <1>2, <2>1 DEF Decrypt
    <2>2. CASE buf # <<>>
        <3>1. PICK r \in 1..Len(w) : \E p \in 1..RecLen(w, r) : buf[1] = Tok(w, r, p)
            BY <1>9, <2>2
        <3>2. Decrypt(buf) \in {0, r}
            BY <1>2, <2>2, <3>1, DecryptIs
        <3> QED BY <1>2, <3>2
    <2> QED BY <2>1, <2>2
<1>11. Typed'
    <2>1. <<>> \in Seq(Byte)
        OBVIOUS
    <2> QED BY <1>1, <2>1 DEF IInv, Typed
<1>12. ASSUME state' = "OutputPlain"
       PROVE  InOutput' /\ plain' \in 1..Len(w)
    <2>1. buf # <<>> /\ Decrypt(buf) # 0
        BY <1>1, <1>12 DEF Decrypt
    <2>2. PICK r \in 1..Len(w) : \E p \in 1..RecLen(w, r) : buf[1] = Tok(w, r, p)
        BY <1>9, <2>1
    <2>3. PICK p \in 1..RecLen(w, r) : buf[1] = Tok(w, r, p)
        BY <2>2
    <2>4. /\ Decrypt(buf) = r /\ p = HEADER_LEN + 1
          /\ buf[Len(buf)] = Tok(w, r, RecLen(w, r))
        BY <1>2, <2>1, <2>3, DecryptIs
    <2>5. Len(buf) \in Nat /\ Len(buf) # 0 /\ 1 \in 1..Len(buf) /\ Len(buf) \in 1..Len(buf) /\ Len(buf) \in 1..Len(F)
        BY <1>2, <1>6, <2>1, EmptySeq
    <2>6. r = d + 1
        <3>1. F # <<>> /\ F[1] = Tok(w, r, HEADER_LEN + 1)
            BY <1>6, <2>3, <2>4, <2>5, EmptySeq
        <3>2. ~(HEADER_LEN + 1 <= HEADER_LEN)
            BY <1>2
        <3>3. F[1].part = "body"
            BY <3>1, <3>2, TokenFields
        <3>4. F[1] = Tok(w, d + 1, HEADER_LEN + 1)
            BY <1>4, <3>1, <3>3 DEF BodyOf
        <3> QED BY <1>2, <3>1, <3>4, TokenUnique
    <2>7. AtRecord(w, InFlight', r)
        <3>1. F[Len(buf)] = Tok(w, r, RecLen(w, r))
            BY <1>6, <2>4, <2>5
        <3>2. AtRecord(w, SubSeq(F, Len(buf) + 1, Len(F)), r)
            BY <1>2, <1>5, <2>5, <3>1, ChainNext
        <3> QED BY <1>6, <3>2 DEF Left
    <2>8. output = Given(w, r - 1) \o SubSeq(PlaintextOf(w, r), 1, 0)
        <3>1. r - 1 = d
            BY <1>2, <2>6
        <3>2. SubSeq(PlaintextOf(w, r), 1, 0) = <<>>
            OBVIOUS
        <3>3. Given(w, d) \in Streams(Pairs)
            BY <1>2, FirstsType
        <3>4. Given(w, d) \o <<>> = Given(w, d)
            BY <3>3, StreamEmpty
        <3> QED BY <1>4, <3>1, <3>2, <3>4
    <2> QED BY <1>1, <1>4, <2>4, <2>7, <2>8 DEF InOutput, w
<1>13. ASSUME state' # "OutputPlain"
       PROVE  Ended'
    <2>1. \E u \in Streams(Pairs) : Given(w, Len(w)) = output \o u
        BY <1>2, <1>4, GivenPrefix
    <2>2. harm # {}
        <3>1. SUFFICES ASSUME harm = {} PROVE FALSE
            OBVIOUS
        <3>2. Sound(d) /\ "torn" \notin harm
            BY <1>4, <3>1
        <3>3. /\ d < Len(w) /\ F[1] = Tok(w, d + 1, HEADER_LEN + 1)
              /\ total = TL(w, d + 1) /\ Len(buf) <= total
            BY <3>2 DEF Sound, w, F
        <3>4. d + 1 \in 1..Len(w)
            BY <1>2, <3>3
        <3>5. /\ TL(w, d + 1) \in Nat /\ TL(w, d + 1) > NONCE_LEN /\ RecLen(w, d + 1) = HEADER_LEN + TL(w, d + 1)
            BY <1>2, <3>4, TokenLength DEF RecLen
        <3>6. Len(buf) = TL(w, d + 1) /\ ~(Len(buf) < NONCE_LEN) /\ 1 \in 1..Len(buf)
              /\ HEADER_LEN + 1 \in 1..RecLen(w, d + 1)
            BY <1>1, <1>2, <3>3, <3>5, SMTT(30)
        <3>7. ASSUME NEW k \in 1..Len(buf) PROVE buf[k] = Tok(w, d + 1, HEADER_LEN + k)
            <4>1. k \in 1..Len(F) /\ k <= TL(w, d + 1)
                BY <1>2, <1>6, <3>6
            <4>2. F[k] = Tok(w, d + 1, HEADER_LEN + k)
                BY <1>2, <1>5, <3>2, <3>3, <3>4, <4>1, BodyRun, SMTT(30)
            <4> QED BY <1>6, <4>2
        <3>8. buf # <<>> /\ buf[1] = Tok(w, d + 1, HEADER_LEN + 1)
            BY <3>6, <3>7, EmptySeq
        <3>9. Decrypt(buf) = d + 1
            BY <1>2, <3>4, <3>6, <3>7, <3>8, DecryptIs
        <3>10. d + 1 # 0
            BY <3>4
        <3> QED BY <1>1, <1>13, <3>6, <3>9, <3>10
    <2> QED BY <1>1, <2>1, <2>2 DEF Ended, w
<1>14. TypeOK'
    <2>1. Len(header') <= HEADER_LEN
        BY <1>1 DEF IInv, TypeOK
    <2>2. state' = "OutputPlain" => plain' # 0 /\ pos' \in 0..(written'[plain'] - 1)
        <3>1. SUFFICES ASSUME state' = "OutputPlain" PROVE plain' # 0 /\ pos' \in 0..(written'[plain'] - 1)
            OBVIOUS
        <3>2. plain' \in 1..Len(w)
            BY <1>12, <3>1
        <3>3. w[plain'] \in Nat \ {0}
            BY <1>2, <3>2, TokenLength
        <3> QED BY <1>1, <3>2, <3>3 DEF w
    <2>3. state' \in {"ReadHeader", "ReadEncrypted", "OutputPlain", "failed", "panicked"}
        BY <1>1
    <2>4. plain' \in 0..Len(written')
        BY <1>1, <1>10 DEF w
    <2> QED BY <1>1, <2>1, <2>2, <2>3, <2>4 DEF IInv, TypeOK
<1>15. state' \notin {"ReadHeader", "ReadEncrypted"}
    BY <1>1
<1>16. Live' => Chain(written, harm, InFlight)'
    BY <1>1, <1>8 DEF w
<1>17. ~Live' => Ended'
    BY <1>13 DEF Live
<1> QED BY <1>11, <1>12, <1>14, <1>15, <1>16, <1>17 DEF IInv

-----------------------------------------------------------------------------
(* The body is being read *)

LEMMA ReadEncryptedInv ==
    ASSUME IInv, NEW n \in 1..Len(avail), ReadEncrypted(n)
    PROVE  IInv'
<1> DEFINE w == written
<1>1. /\ UNCHANGED <<written, closed, wire, header, total, plain, pos, output, harm>>
      /\ state = "ReadEncrypted" /\ Len(buf) < total /\ n <= Room
      /\ avail' = Left(avail, n)
      /\ \/ /\ Contiguous \/ buf = <<>>
            /\ buf' = Cat(buf, FirstPart(avail, n)) /\ cap' = Len(buf) + Room /\ state' = state
         \/ ~Contiguous /\ state' = "panicked" /\ buf' = buf /\ cap' = cap
    BY DEF ReadEncrypted, Take, writerVars, plainVars, FirstPart, Left, Cat
<1>2. /\ header \in Seq(Byte) /\ buf \in Seq(Byte) /\ avail \in Seq(Byte) /\ wire \in Seq(Byte)
      /\ Len(buf) \in Nat /\ cap \in Nat /\ total \in Nat /\ n \in Nat
      /\ w \in Seq(Plain) /\ Len(w) \in Nat /\ Chain(w, harm, InFlight)
    BY <1>1 DEF IInv, Typed, TypeOK, Live
<1>3. PICK d \in 0..Len(w) : InBody(d)
    BY <1>1 DEF IInv
<1>4. header = <<>> /\ output = Given(w, d) /\ (harm = {} => Sound(d))
    BY <1>3 DEF InBody
<1>5. Room \in Nat
    BY <1>2, SecureAssumption DEF Room, Contiguous
<1>6. harm = {} => Contiguous /\ Room = total - Len(buf)
    BY <1>1, <1>2, <1>4 DEF Sound, Contiguous, Room
<1>7. /\ avail' \in Seq(Byte) /\ Cat(buf, FirstPart(avail, n)) \in Seq(Byte)
      /\ Len(Cat(buf, FirstPart(avail, n))) = Len(buf) + n
      /\ Cat(Cat(buf, FirstPart(avail, n)), avail') = Cat(buf, avail)
    <2>1. avail' = Left(avail, n) /\ buf \in Seq(Byte) /\ avail \in Seq(Byte)
        BY <1>1, <1>2
    <2>2. /\ Left(avail, n) \in Seq(Byte) /\ Cat(buf, FirstPart(avail, n)) \in Seq(Byte)
          /\ Len(Cat(buf, FirstPart(avail, n))) = Len(buf) + n
          /\ Cat(Cat(buf, FirstPart(avail, n)), Left(avail, n)) = Cat(buf, avail)
        BY <2>1, TakeFirst
    <2> QED BY <2>1, <2>2, Zenon
<1>8. CASE buf' = Cat(buf, FirstPart(avail, n)) /\ cap' = Len(buf) + Room /\ state' = state
    <2>1. Cat(header, buf) = buf /\ Cat(header, buf') = buf'
        <3>1. buf' \in Seq(Byte)
            BY <1>7, <1>8
        <3> QED BY <1>2, <1>4, <3>1, Views
    <2>2. Cat(Cat(Cat(header, buf'), avail'), wire) = Cat(Cat(Cat(header, buf), avail), wire)
        BY <1>7, <1>8, <2>1
    <2>3. InFlight' = InFlight
        BY <1>1, <2>2 DEF InFlight, Cat
    <2>4. harm' = {} => Sound(d)'
        <3>1. SUFFICES ASSUME harm = {} PROVE Sound(d)'
            BY <1>1
        <3>2. Len(buf') <= total /\ cap' = cap
            <4>1. cap = total
                BY <1>4, <3>1 DEF Sound
            <4> QED BY <1>1, <1>2, <1>6, <1>7, <1>8, <3>1, <4>1
        <3> QED BY <1>1, <1>4, <2>3, <3>1, <3>2 DEF Sound
    <2>5. InBody(d)'
        BY <1>1, <1>3, <2>3, <2>4 DEF InBody
    <2>6. Chain(written, harm, InFlight)'
        BY <1>1, <1>2, <2>3
    <2>7. TypeOK'
        <3>1. cap' \in Nat
            BY <1>2, <1>5, <1>8
        <3> QED BY <1>1, <1>8, <3>1 DEF IInv, TypeOK
    <2>8. Typed'
        BY <1>1, <1>2, <1>7, <1>8 DEF IInv, Typed
    <2> QED BY <1>1, <1>3, <1>8, <2>5, <2>6, <2>7, <2>8 DEF IInv, Live
<1>9. CASE ~Contiguous /\ state' = "panicked" /\ buf' = buf /\ cap' = cap
    <2>1. harm # {}
        BY <1>6, <1>9
    <2>2. \E u \in Streams(Pairs) : Given(w, Len(w)) = output \o u
        BY <1>2, <1>4, GivenPrefix
    <2>3. Ended'
        BY <1>1, <2>1, <2>2 DEF Ended
    <2>4. TypeOK'
        BY <1>1, <1>9 DEF IInv, TypeOK
    <2>5. Typed'
        BY <1>1, <1>2, <1>7, <1>9 DEF IInv, Typed
    <2> QED BY <1>9, <2>3, <2>4, <2>5 DEF IInv, Live
<1> QED BY <1>1, <1>8, <1>9

LEMMA EncryptedPendingInv ==
    ASSUME IInv, EncryptedPending
    PROVE  IInv'
<1>1. /\ UNCHANGED <<written, closed, wire, avail, state, header, total, buf, plain, pos, output>>
      /\ state = "ReadEncrypted" /\ cap' = Len(buf) /\ harm' = harm \cup {"starved"}
    BY DEF EncryptedPending, writerVars, plainVars
<1>2. Chain(written, harm, InFlight) /\ Len(buf) \in Nat /\ harm \subseteq {"torn", "starved"}
    BY <1>1 DEF IInv, Live, Typed, TypeOK
<1>3. PICK d \in 0..Len(written) : InBody(d)
    BY <1>1 DEF IInv
<1>4. InFlight' = InFlight
    BY <1>1 DEF InFlight
<1>5. "torn" \notin harm' <=> "torn" \notin harm
    BY <1>1
<1>6. Chain(written, harm, InFlight)'
    BY <1>1, <1>2, <1>4, <1>5 DEF Chain
<1>7. harm' # {}
    BY <1>1
<1>8. InBody(d)'
    BY <1>1, <1>3, <1>4, <1>7 DEF InBody
<1>9. TypeOK'
    BY <1>1, <1>2 DEF IInv, TypeOK
<1>10. Typed'
    BY <1>1 DEF IInv, Typed
<1> QED BY <1>1, <1>3, <1>6, <1>8, <1>9, <1>10 DEF IInv, Live

-----------------------------------------------------------------------------
(* Output and end of file *)

\* A further part of a plaintext
LEMMA FurtherPart ==
    ASSUME NEW g \in Streams(Pairs), NEW t \in Streams(Pairs), NEW p \in 0..Len(t), NEW n \in 1..(Len(t) - p)
    PROVE  /\ (g \o SubSeq(t, 1, p)) \o SubSeq(t, p + 1, p + n) = g \o SubSeq(t, 1, p + n)
           /\ p + n = Len(t) => SubSeq(t, 1, p + n) = t
           /\ g \o SubSeq(t, 1, p + n) \in Streams(Pairs)
<1> DEFINE a == SubSeq(t, 1, p)
           b == SubSeq(t, p + 1, p + n)
           c == SubSeq(t, 1, p + n)
<1>1. /\ t \in Seq(Pairs) /\ g \in Seq(Pairs) /\ Len(t) \in Nat /\ p \in Nat /\ n \in Nat
      /\ p + n \in 0..Len(t) /\ p + n \in Nat
    BY StreamsDef
<1>2. /\ a \in Seq(Pairs) /\ b \in Seq(Pairs) /\ c \in Seq(Pairs)
      /\ Len(a) = p /\ Len(b) = n /\ Len(c) = p + n
      /\ \A i \in 1..p : a[i] = t[i]
      /\ \A i \in 1..n : b[i] = t[p + i]
      /\ \A i \in 1..(p + n) : c[i] = t[i]
    BY <1>1
<1> HIDE DEF a, b, c
<1>3. a \o b = c
    <2>1. /\ a \o b \in Seq(Pairs) /\ Len(a \o b) = p + n
          /\ \A i \in 1..p : (a \o b)[i] = a[i]
          /\ \A i \in 1..n : (a \o b)[p + i] = b[i]
        <3>1. a \in Seq(Pairs) /\ b \in Seq(Pairs) /\ Len(a) = p /\ Len(b) = n
            BY <1>2, Zenon
        <3>2. /\ a \o b \in Seq(Pairs) /\ Len(a \o b) = Len(a) + Len(b)
              /\ \A i \in 1..Len(a) : (a \o b)[i] = a[i]
              /\ \A i \in 1..Len(b) : (a \o b)[Len(a) + i] = b[i]
            BY <3>1
        <3> QED BY <3>1, <3>2, Zenon
    <2>2. ASSUME NEW i \in 1..(p + n) PROVE (a \o b)[i] = c[i]
        <3>1. CASE i \in 1..p
            BY <1>2, <2>1, <3>1
        <3>2. CASE i \notin 1..p
            <4>1. PICK j \in 1..n : p + j = i
                <5>1. i - p \in 1..n /\ p + (i - p) = i
                    BY <1>1, <3>2
                <5> QED BY <5>1
            <4>2. (a \o b)[p + j] = b[j]
                BY <2>1
            <4>3. b[j] = t[p + j]
                BY <1>2
            <4>4. c[i] = t[i]
                BY <1>2
            <4> QED BY <4>1, <4>2, <4>3, <4>4
        <3> QED BY <3>1, <3>2
    <2> QED BY <1>2, <2>1, <2>2, SeqEqual
<1>4. a \in Streams(Pairs) /\ b \in Streams(Pairs) /\ c \in Streams(Pairs)
    BY <1>2, StreamsDef
<1>5. (g \o a) \o b = g \o (a \o b)
    <2>1. Cat(Cat(g, a), b) = Cat(g, Cat(a, b))
        BY <1>4, CatAssoc
    <2> QED BY <2>1 DEF Cat
<1>6. p + n = Len(t) => c = t
    BY <1>1, <1>2, SeqEqual
<1>7. g \o c \in Streams(Pairs)
    BY <1>4, StreamConcat
<1> QED BY <1>3, <1>5, <1>6, <1>7 DEF a, b, c

LEMMA OutputInv ==
    ASSUME IInv, NEW n \in 1..(written[plain] - pos), OutputPlain(n)
    PROVE  IInv'
<1> DEFINE w == written
           t == PlaintextOf(w, plain)
           g == Given(w, plain - 1)
<1>1. /\ UNCHANGED <<written, closed, wire, avail, header, total, buf, cap, harm>>
      /\ state = "OutputPlain"
      /\ output' = output \o SubSeq(t, pos + 1, pos + n)
      /\ \/ pos + n = w[plain] /\ state' = "ReadHeader" /\ pos' = 0 /\ plain' = 0
         \/ pos + n # w[plain] /\ pos' = pos + n /\ state' = state /\ plain' = plain
    BY DEF OutputPlain, writerVars, bodyVars, Plaintext, PlaintextOf
<1>2. /\ w \in Seq(Plain) /\ Len(w) \in Nat /\ Chain(w, harm, InFlight)
      /\ plain \in 0..Len(w) /\ plain # 0 /\ pos \in 0..(w[plain] - 1)
    BY <1>1 DEF IInv, TypeOK, Live
<1>3. header = <<>> /\ buf = <<>> /\ output = g \o SubSeq(t, 1, pos) /\ AtRecord(w, InFlight, plain)
    BY <1>1 DEF IInv, InOutput
<1>4. plain \in 1..Len(w) /\ plain - 1 \in 0..Len(w)
    BY <1>2
<1>5. t \in Streams(Pairs) /\ Len(t) = w[plain] /\ g \in Streams(Pairs) /\ w[plain] \in Nat
      /\ Given(w, plain) = g \o t
    BY <1>2, <1>4, PlaintextType, FirstsType, TokenLength, GivenNext
<1> HIDE DEF t, g
<1>6. /\ (g \o SubSeq(t, 1, pos)) \o SubSeq(t, pos + 1, pos + n) = g \o SubSeq(t, 1, pos + n)
      /\ pos + n = Len(t) => SubSeq(t, 1, pos + n) = t
      /\ g \o SubSeq(t, 1, pos + n) \in Streams(Pairs)
    <2>1. pos \in 0..Len(t) /\ n \in 1..(Len(t) - pos)
        BY <1>2, <1>5
    <2> QED BY <1>5, <2>1, FurtherPart
<1>7. output' = g \o SubSeq(t, 1, pos + n) /\ output' \in Streams(Pairs)
    BY <1>1, <1>3, <1>6
<1>8. InFlight' = InFlight /\ Chain(written, harm, InFlight)'
    BY <1>1, <1>2 DEF InFlight
<1>9. pos + n \in Nat /\ pos + n <= w[plain]
    BY <1>2, <1>5
<1>10. Typed'
    BY <1>1, <1>7, <1>9 DEF IInv, Typed
<1>11. PICK e \in 1..Len(w) : e = plain
    BY <1>4
<1>12. CASE pos + n = w[plain] /\ state' = "ReadHeader" /\ pos' = 0 /\ plain' = 0
    <2>1. output' = Given(w, e)
        BY <1>5, <1>6, <1>7, <1>11, <1>12
    <2>2. InHeader(e)'
        BY <1>1, <1>3, <1>8, <1>11, <2>1 DEF InHeader
    <2>3. e \in 0..Len(written')
        BY <1>1, <1>2
    <2>4. TypeOK'
        BY <1>1, <1>2, <1>12 DEF IInv, TypeOK
    <2> QED BY <1>8, <1>10, <1>12, <2>2, <2>3, <2>4 DEF IInv, Live
<1>13. CASE pos + n # w[plain] /\ pos' = pos + n /\ state' = state /\ plain' = plain
    <2>1. InOutput'
        BY <1>1, <1>3, <1>7, <1>8, <1>13 DEF InOutput, t, g
    <2>2. pos' \in 0..(w[plain] - 1)
        BY <1>2, <1>5, <1>9, <1>13
    <2>3. TypeOK'
        BY <1>1, <1>2, <1>13, <2>2 DEF IInv, TypeOK
    <2> QED BY <1>1, <1>8, <1>10, <1>13, <2>1, <2>3 DEF IInv, Live
<1> QED BY <1>1, <1>12, <1>13

LEMMA EofInv ==
    ASSUME IInv, Eof
    PROVE  IInv'
<1> DEFINE w == written
           F == InFlight
<1>1. /\ UNCHANGED <<written, closed, wire, avail, header, total, buf, cap, plain, pos, output, harm>>
      /\ \/ state = "ReadHeader" /\ Len(header) < HEADER_LEN
         \/ state = "ReadEncrypted" /\ Len(buf) < total
      /\ closed /\ wire = <<>> /\ avail = <<>> /\ state' = "failed"
    BY DEF Eof, AtEof, writerVars, bodyVars, plainVars
<1>2. /\ header \in Seq(Byte) /\ buf \in Seq(Byte)
      /\ w \in Seq(Plain) /\ Len(w) \in Nat /\ Chain(w, harm, F) /\ total \in Nat
      /\ HEADER_LEN \in Nat \ {0}
    BY <1>1, SecureAssumption DEF IInv, Typed, TypeOK, Live
<1>3. F = Cat(header, buf)
    <2>1. Cat(header, buf) \in Seq(Byte)
        BY <1>2, Views
    <2>2. Cat(header, buf) \o <<>> = Cat(header, buf)
        BY <2>1, StreamEmpty, StreamsDef
    <2>3. F = (Cat(header, buf) \o <<>>) \o <<>>
        BY <1>1 DEF InFlight, Cat
    <2> QED BY <2>2, <2>3
<1>4. PICK d \in 0..Len(w) :
          /\ output = Given(w, d)
          /\ harm = {} => output = Given(w, Len(w))
    <2>1. CASE state = "ReadHeader" /\ Len(header) < HEADER_LEN
        <3>1. PICK d \in 0..Len(w) : InHeader(d)
            BY <2>1 DEF IInv
        <3>2. buf = <<>> /\ output = Given(w, d) /\ AtRecord(w, F, d)
            BY <3>1 DEF InHeader
        <3>3. F = header
            BY <1>2, <1>3, <3>2, Views
        <3> HIDE DEF w, F
        <3>4. ASSUME harm = {} PROVE d = Len(w)
            <4>1. SUFFICES ASSUME F # <<>> PROVE FALSE
                BY <3>2 DEF AtRecord
            <4>2. d < Len(w) /\ F[1] = Tok(w, d + 1, 1) /\ "torn" \notin harm
                BY <3>2, <3>4, <4>1 DEF AtRecord
            <4>3. d + 1 \in 1..Len(w)
                BY <1>2, <4>2
            <4>4. RecLen(w, d + 1) \in Nat /\ RecLen(w, d + 1) > HEADER_LEN /\ 1 \in 1..RecLen(w, d + 1)
                BY <1>2, <4>3, TokenLength
            <4>5. Len(F) >= RecLen(w, d + 1) - 1 + 1
                BY <1>2, <3>3, <4>1, <4>2, <4>3, <4>4, ChainWhole
            <4> QED BY <1>2, <2>1, <3>3, <4>4, <4>5
        <3> QED BY <3>2, <3>4
    <2>2. CASE state = "ReadEncrypted" /\ Len(buf) < total
        <3>1. PICK d \in 0..Len(w) : InBody(d)
            BY <2>2 DEF IInv
        <3>2. header = <<>> /\ output = Given(w, d) /\ (harm = {} => Sound(d))
            BY <3>1 DEF InBody
        <3>3. F = buf
            BY <1>2, <1>3, <3>2, Views
        <3>4. ASSUME harm = {} PROVE FALSE
            <4>1. /\ d < Len(w) /\ F # <<>> /\ F[1] = Tok(w, d + 1, HEADER_LEN + 1)
                  /\ total = TL(w, d + 1) /\ "torn" \notin harm
                BY <3>2, <3>4 DEF Sound
            <4> HIDE DEF w, F
            <4>2. d + 1 \in 1..Len(w)
                BY <1>2, <4>1
            <4>3. /\ RecLen(w, d + 1) = HEADER_LEN + TL(w, d + 1) /\ TL(w, d + 1) \in Nat
                  /\ HEADER_LEN + 1 \in 1..RecLen(w, d + 1)
                <5>1. RecLen(w, d + 1) = HEADER_LEN + TL(w, d + 1) /\ TL(w, d + 1) \in Nat /\ TL(w, d + 1) # 0
                    BY <1>2, <4>2, TokenLength DEF RecLen
                <5> QED BY <1>2, <5>1
            <4>4. Len(F) >= RecLen(w, d + 1) - (HEADER_LEN + 1) + 1
                BY <1>2, <3>3, <4>1, <4>2, <4>3, ChainWhole
            <4> QED BY <1>2, <2>2, <3>3, <4>1, <4>3, <4>4
        <3> QED BY <3>2, <3>4
    <2> QED BY <1>1, <2>1, <2>2
<1> HIDE DEF w, F
<1>5. \E u \in Streams(Pairs) : Given(w, Len(w)) = output \o u
    BY <1>2, <1>4, GivenPrefix
<1>6. Ended'
    BY <1>1, <1>4, <1>5 DEF Ended, w
<1>7. TypeOK'
    BY <1>1 DEF IInv, TypeOK
<1>8. Typed'
    BY <1>1 DEF IInv, Typed
<1> QED BY <1>1, <1>6, <1>7, <1>8 DEF IInv, Live

LEMMA FinishedInv ==
    ASSUME IInv, UNCHANGED vars
    PROVE  IInv'
<1>1. UNCHANGED <<written, closed, wire, avail, state, header, total, buf, cap, plain, pos, output, harm>>
    BY DEF vars
<1>2. InFlight' = InFlight
    BY <1>1 DEF InFlight
<1>3. closed' \in BOOLEAN /\ avail' \in Seq(Byte) /\ wire' \in Seq(Byte)
    BY <1>1 DEF IInv, TypeOK, Typed
<1> QED BY <1>1, <1>2, <1>3, SameFlight

LEMMA InvNext == IInv /\ [Next]_vars => IInv'
<1> SUFFICES ASSUME IInv, [Next]_vars PROVE IInv'
    OBVIOUS
<1>1. CASE Writer
    BY <1>1, PollWriteInv, ShutdownInv DEF Writer
<1>2. CASE Arrives
    BY <1>2, ArriveInv DEF Arrives
<1>3. CASE ReadsHeader
    BY <1>3, ReadHeaderInv DEF ReadsHeader
<1>4. CASE HeaderDone
    BY <1>4, HeaderDoneInv
<1>5. CASE ReadsEncrypted
    BY <1>5, ReadEncryptedInv DEF ReadsEncrypted
<1>6. CASE EncryptedPending
    BY <1>6, EncryptedPendingInv
<1>7. CASE EncryptedDone
    BY <1>7, EncryptedDoneInv
<1>8. CASE Outputs
    BY <1>8, OutputInv DEF Outputs
<1>9. CASE Eof
    BY <1>9, EofInv
<1>10. CASE Finished \/ UNCHANGED vars
    BY <1>10, FinishedInv DEF Finished
<1> QED BY <1>1, <1>2, <1>3, <1>4, <1>5, <1>6, <1>7, <1>8, <1>9, <1>10 DEF Next, Reader

THEOREM Invariance == Spec => []IInv
BY InvInit, InvNext, PTL DEF Spec

-----------------------------------------------------------------------------
(* What the invariant says *)

\* Every state of a stream has its type: no more than a header is read as a
\* header, and the reader gives out a record that was written, from a place
\* inside its plaintext.
THEOREM TypeCorrect == Spec => []TypeOK
<1>1. IInv => TypeOK
    BY DEF IInv
<1> QED BY <1>1, Invariance, PTL

LEMMA AllIsGiven == AllPlaintext = Given(written, Len(written))
BY DEF AllPlaintext, Given, Plaintext, PlaintextOf

\* What an IInv state has given out is the beginning of all plaintext
LEMMA GivenInOrder == IInv => InOrder
<1> SUFFICES ASSUME IInv PROVE InOrder
    OBVIOUS
<1> DEFINE w == written
           all == Given(w, Len(w))
<1>1. /\ w \in Seq(Plain) /\ Len(w) \in Nat /\ output \in Streams(Pairs)
      /\ state \in {"ReadHeader", "ReadEncrypted", "OutputPlain", "failed", "panicked"}
      /\ Len(w) \in 0..Len(w)
    BY DEF IInv, TypeOK, Typed
<1>2. \E u \in Streams(Pairs) : all = output \o u
    <2>1. CASE state \in {"ReadHeader", "ReadEncrypted"}
        <3>1. PICK d \in 0..Len(w) : output = Given(w, d)
            BY <2>1 DEF IInv, InHeader, InBody
        <3> QED BY <1>1, <3>1, GivenPrefix
    <2>2. CASE state = "OutputPlain"
        <3> DEFINE t == PlaintextOf(w, plain)
                   g == Given(w, plain - 1)
        <3>1. output = g \o SubSeq(t, 1, pos) /\ plain \in 1..Len(w) /\ pos \in 0..(w[plain] - 1)
            BY <1>1, <2>2, SMTT(30) DEF IInv, InOutput, TypeOK
        <3>2. plain - 1 \in 0..Len(w) /\ plain \in 0..Len(w)
            BY <1>1, <3>1
        <3>3. t \in Streams(Pairs) /\ Len(t) = w[plain] /\ g \in Streams(Pairs) /\ w[plain] \in Nat
              /\ Given(w, plain) = g \o t
            BY <1>1, <3>1, <3>2, PlaintextType, FirstsType, TokenLength, GivenNext
        <3>4. PICK u \in Streams(Pairs) : all = Given(w, plain) \o u
            BY <1>1, <3>2, GivenPrefix
        <3> HIDE DEF t, g, all
        <3> DEFINE n == w[plain] - pos
                   rest == SubSeq(t, pos + 1, pos + n)
        <3>5. pos \in 0..Len(t) /\ n \in 1..(Len(t) - pos) /\ pos + n = Len(t)
            BY <3>1, <3>3
        <3>6. output \o rest = g \o t
            <4> HIDE DEF n
            <4>1. /\ (g \o SubSeq(t, 1, pos)) \o SubSeq(t, pos + 1, pos + n) = g \o SubSeq(t, 1, pos + n)
                  /\ pos + n = Len(t) => SubSeq(t, 1, pos + n) = t
                  /\ g \o SubSeq(t, 1, pos + n) \in Streams(Pairs)
                <5>1. /\ g \in Streams(Pairs) /\ t \in Streams(Pairs)
                      /\ pos \in 0..Len(t) /\ n \in 1..(Len(t) - pos)
                    BY <3>3, <3>5
                <5> QED BY <5>1, FurtherPart
            <4> QED BY <3>1, <3>5, <4>1
        <3>7. rest \in Streams(Pairs)
            <4>1. t \in Seq(Pairs) /\ pos + 1 \in 1..(Len(t) + 1) /\ pos + n \in 0..Len(t)
                BY <3>3, <3>5, StreamsDef
            <4>2. rest \in Seq(Pairs)
                BY <4>1
            <4> QED BY <4>2, StreamsDef
        <3> HIDE DEF rest
        <3>8. Cat(Cat(output, rest), u) = Cat(output, Cat(rest, u)) /\ Cat(rest, u) \in Streams(Pairs)
            BY <1>1, <3>7, CatAssoc
        <3>9. all = output \o Cat(rest, u)
            BY <3>3, <3>4, <3>6, <3>8 DEF Cat
        <3> QED BY <3>8, <3>9
    <2>3. CASE state \in {"failed", "panicked"}
        BY <2>3 DEF IInv, Live, Ended
    <2> QED BY <1>1, <2>1, <2>2, <2>3
<1>3. all \in Streams(Pairs)
    BY <1>1, FirstsType
<1> HIDE DEF all
<1>4. IsPrefix(output, all)
    <2>1. output \in Seq(Pairs) /\ all \in Seq(Pairs) /\ \E u \in Seq(Pairs) : all = output \o u
        BY <1>1, <1>2, <1>3, StreamsDef
    <2> QED BY <2>1, PrefixIffExtends
<1> QED BY <1>4, AllIsGiven DEF InOrder, all

\* However the socket tears records, the network cuts the stream, reads starve
\* and the caller's buffers cut the output, poll_read never gives out a byte
\* that was not written, twice, or out of order.
THEOREM OutputInOrder == Spec => []InOrder
BY GivenInOrder, Invariance, PTL

\* A stream whose records the socket took whole, and whose reads were never
\* Pending inside a record, fails only when the writer has closed it and
\* everything written has been given out: in no other order of arrivals and
\* reads does the reader misread a header, fail to decrypt or panic.
THEOREM OnlyEofFails == Spec => []FailsOnlyAtEof
<1>1. IInv => FailsOnlyAtEof
    BY AllIsGiven DEF IInv, Ended, Live, FailsOnlyAtEof
<1> QED BY <1>1, Invariance, PTL

\* The capacity of the BytesMut keeps the reader from taking bytes of the next
\* record into a body, as long as no record was torn and no read starved.
THEOREM NeverOverreads == Spec => []NoOverread
<1>1. IInv => NoOverread
    BY DEF IInv, InBody, Sound, NoOverread
<1> QED BY <1>1, Invariance, PTL

\* The plaintext given out whenever the reader awaits a header or a body
WholeRecords ==
    state \in {"ReadHeader", "ReadEncrypted"} =>
        \E d \in 0..Len(written) : output = Given(written, d)

\* When poll_read waits for the header or the body of a record, what it has
\* given out are whole records, the first ones written: a record is given out
\* entirely before the next one is looked at, whatever was torn or starved.
THEOREM GivesWholeRecords == Spec => []WholeRecords
<1>1. IInv => WholeRecords
    BY DEF IInv, InHeader, InBody, WholeRecords
<1> QED BY <1>1, Invariance, PTL
=============================================================================
