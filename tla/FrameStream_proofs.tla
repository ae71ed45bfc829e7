------------------------- MODULE FrameStream_proofs -------------------------
(***************************************************************************)
(* Proofs about FrameStream, for every set of messages, every length of    *)
(* header and of bodies and any number of sends.                           *)
(*                                                                         *)
(* The first argument is about what is under way: what has been received,  *)
(* the readable bytes, those on the wire and those left in wbuf make up    *)
(* the frames of what was sent.  The second is about a SecureStream below: *)
(* it carries whole frames only.                                           *)
(***************************************************************************)
EXTENDS FrameStream, SequenceLemmas

HeaderByte == [part : {"header"}, of : Nat, at : Nat]
BodyByte == [part : {"body"}, of : Messages, at : Nat]
Byte == HeaderByte \cup BodyByte

\* The header of the frame of m
HeadOf(m) == IF Zipped(m) THEN WithBit(ZipLen[m]) ELSE BodyLen[m]

\* The frames of the messages s, one after the other
Frames(s) == FlattenSeq([i \in 1..Len(s) |-> Frame(s[i])])

\* r is the beginning of s
Begins(r, s) == Len(r) <= Len(s) /\ \A i \in 1..Len(r) : r[i] = s[i]

-----------------------------------------------------------------------------
(* The frame coder *)

LEMMA Numbers ==
    /\ HEADER_LEN \in Nat \ {0} /\ COMPRESSION_LIMIT \in Nat
    /\ COMPRESSION_BIT \in Nat \ {0} /\ MaxSends \in Nat
    /\ \A m \in Messages : BodyLen[m] \in Nat /\ ZipLen[m] \in Nat \ {0} /\ ZipLen[m] < COMPRESSION_BIT
    /\ \A m \in Messages : ~Zipped(m) => BodyLen[m] < COMPRESSION_BIT
<1>1. COMPRESSION_BIT \in Nat \ {0}
    BY FrameAssumption, CodecAssumption
<1> QED BY <1>1, FrameAssumption, CodecAssumption DEF Zipped

LEMMA HeaderType ==
    ASSUME NEW h \in Nat
    PROVE  /\ HeaderBytes(h) \in Streams(Byte) /\ Len(HeaderBytes(h)) = HEADER_LEN
           /\ \A i \in 1..HEADER_LEN : HeaderBytes(h)[i] = [part |-> "header", of |-> h, at |-> i]
<1> DEFINE f == HeaderBytes(h)
<1>1. HEADER_LEN \in Nat
    BY Numbers
<1>2. f = [i \in 1..HEADER_LEN |-> f[i]] /\ \A i \in 1..HEADER_LEN : f[i] = [part |-> "header", of |-> h, at |-> i]
    BY DEF HeaderBytes
<1>3. \A i \in 1..HEADER_LEN : f[i] \in Byte
    BY <1>1, <1>2 DEF Byte, HeaderByte
<1> HIDE DEF f
<1>4. f \in Seq(Byte) /\ Len(f) = HEADER_LEN
    BY <1>1, <1>2, <1>3, FunctionIsSequence
<1> QED BY <1>2, <1>4, StreamsDef DEF f

LEMMA BodyType ==
    ASSUME NEW m \in Messages
    PROVE  /\ BodyBytes(m) \in Streams(Byte)
           /\ Len(BodyBytes(m)) = IF Zipped(m) THEN ZipLen[m] ELSE BodyLen[m]
           /\ Len(BodyBytes(m)) \in 0..(COMPRESSION_BIT - 1)
           /\ Zipped(m) => Len(BodyBytes(m)) # 0
           /\ \A i \in 1..Len(BodyBytes(m)) : BodyBytes(m)[i] = [part |-> "body", of |-> m, at |-> i]
<1> DEFINE f == BodyBytes(m)
           n == IF Zipped(m) THEN ZipLen[m] ELSE BodyLen[m]
<1>1. n \in 0..(COMPRESSION_BIT - 1) /\ n \in Nat /\ (Zipped(m) => n # 0)
    BY Numbers
<1>2. f = [i \in 1..n |-> f[i]] /\ \A i \in 1..n : f[i] = [part |-> "body", of |-> m, at |-> i]
    BY DEF BodyBytes
<1> HIDE DEF n
<1>3. \A i \in 1..n : f[i] \in Byte
    BY <1>1, <1>2 DEF Byte, BodyByte
<1> HIDE DEF f
<1>4. f \in Seq(Byte) /\ Len(f) = n
    BY <1>1, <1>2, <1>3, FunctionIsSequence
<1> QED BY <1>1, <1>2, <1>4, StreamsDef DEF f, n

LEMMA Modulo ==
    ASSUME NEW b \in Nat \ {0}, NEW n \in 0..(b - 1)
    PROVE  n % b = n /\ (n + b) % b = n
OBVIOUS

LEMMA ModuloType ==
    ASSUME NEW b \in Nat \ {0}, NEW n \in Nat
    PROVE  n % b \in Nat
OBVIOUS

\* The header of a frame says how long its body is and how it is encoded
LEMMA HeadDecodes ==
    ASSUME NEW m \in Messages
    PROVE  /\ HeadOf(m) \in Nat
           /\ DecodeHeader(HeadOf(m)).len = Len(BodyBytes(m))
           /\ DecodeHeader(HeadOf(m)).zipped = Zipped(m)
<1> DEFINE n == Len(BodyBytes(m))
<1>1. n \in 0..(COMPRESSION_BIT - 1) /\ COMPRESSION_BIT \in Nat \ {0}
    BY BodyType, Numbers
<1>2. n % COMPRESSION_BIT = n /\ (n + COMPRESSION_BIT) % COMPRESSION_BIT = n
    BY <1>1, Modulo
<1>3. HeadOf(m) = IF Zipped(m) THEN n + COMPRESSION_BIT ELSE n
    BY <1>1, BodyType DEF HeadOf, WithBit
<1> HIDE DEF n
<1>4. HeadOf(m) \in Nat /\ HeadOf(m) % COMPRESSION_BIT = n
    BY <1>1, <1>2, <1>3
<1>5. (HeadOf(m) >= COMPRESSION_BIT) = Zipped(m)
    BY <1>1, <1>3 DEF Zipped
<1> QED BY <1>4, <1>5 DEF DecodeHeader, n

\* A header that is whole is read as what it is
LEMMA HeadersOfWhole ==
    ASSUME NEW h \in Nat
    PROVE  Headers(HeaderBytes(h)) = {h}
<1> DEFINE q == HeaderBytes(h)
           W == {g \in {b.of : b \in {x \in ToSet(q) : x.part = "header"}} : q = HeaderBytes(g)}
<1>1. 1 \in 1..HEADER_LEN /\ HEADER_LEN \in Nat
    BY Numbers
<1>2. q \in Seq(Byte) /\ Len(q) = HEADER_LEN /\ \A i \in 1..HEADER_LEN : q[i] = [part |-> "header", of |-> h, at |-> i]
    BY HeaderType, StreamsDef
<1>3. ASSUME NEW g, q = HeaderBytes(g) PROVE g = h
    <2>1. HeaderBytes(g)[1] = [part |-> "header", of |-> g, at |-> 1]
        BY <1>1 DEF HeaderBytes
    <2>2. q[1] = [part |-> "header", of |-> h, at |-> 1]
        BY <1>1, <1>2
    <2>3. [part |-> "header", of |-> g, at |-> 1].of = [part |-> "header", of |-> h, at |-> 1].of
        BY <1>3, <2>1, <2>2
    <2> QED BY <2>3
<1>4. h \in W
    <2>1. q[1] \in ToSet(q)
        BY <1>1, <1>2 DEF ToSet
    <2>2. q[1].part = "header" /\ q[1].of = h
        BY <1>1, <1>2
    <2> HIDE DEF q
    <2>3. q[1] \in {x \in ToSet(q) : x.part = "header"}
        BY <2>1, <2>2
    <2>4. h \in {b.of : b \in {x \in ToSet(q) : x.part = "header"}}
        BY <2>2, <2>3
    <2> QED BY <2>4 DEF q
<1>5. W = {h}
    BY <1>3, <1>4
<1>6. W # {}
    BY <1>4
<1> QED BY <1>5, <1>6 DEF Headers

\* Whatever is read as a header gives a length
LEMMA HeadersType ==
    ASSUME NEW q \in Streams(Byte), NEW h \in Headers(q)
    PROVE  h \in Nat /\ DecodeHeader(h).len \in Nat
<1> DEFINE W == {g \in {b.of : b \in {x \in ToSet(q) : x.part = "header"}} : q = HeaderBytes(g)}
<1>1. \A g \in W : g \in Nat
    <2>1. SUFFICES ASSUME NEW g \in W PROVE g \in Nat
        OBVIOUS
    <2>2. PICK b \in ToSet(q) : b.part = "header" /\ g = b.of
        OBVIOUS
    <2>3. b \in Byte
        BY <2>2, StreamsDef DEF ToSet
    <2> QED BY <2>2, <2>3 DEF Byte, HeaderByte, BodyByte
<1>2. \A g \in 0..(2 * COMPRESSION_BIT - 1) : g \in Nat
    BY Numbers
<1>3. Headers(q) = IF W # {} THEN W ELSE 0..(2 * COMPRESSION_BIT - 1)
    BY DEF Headers
<1> HIDE DEF W
<1>4. h \in Nat
    BY <1>1, <1>2, <1>3
<1>5. h % COMPRESSION_BIT \in Nat
    BY <1>4, Numbers, ModuloType
<1> QED BY <1>4, <1>5 DEF DecodeHeader

\* A body that is whole is decoded as the message it is the body of
LEMMA BodyDecodes ==
    ASSUME NEW m \in Messages
    PROVE  DecodeFrame(BodyBytes(m), Zipped(m)) = m
<1> DEFINE W == {n \in Messages : Zipped(n) = Zipped(m) /\ BodyBytes(m) = BodyBytes(n)}
<1>1. m \in W
    OBVIOUS
<1>2. ASSUME NEW n \in W PROVE n = m
    <2>1. n \in Messages /\ Zipped(n) = Zipped(m) /\ BodyBytes(m) = BodyBytes(n)
        BY <1>2
    <2>2. CASE Len(BodyBytes(m)) = 0
        <3>1. ~Zipped(m) /\ ~Zipped(n)
            BY <2>1, <2>2, BodyType
        <3>2. BodyLen[m] = 0 /\ BodyLen[n] = 0
            BY <2>1, <2>2, <3>1, BodyType
        <3> QED BY <2>1, <3>2, CodecAssumption
    <2>3. CASE Len(BodyBytes(m)) # 0
        <3>1. 1 \in 1..Len(BodyBytes(m)) /\ 1 \in 1..Len(BodyBytes(n))
            BY <2>1, <2>3, BodyType
        <3>2. BodyBytes(m)[1] = [part |-> "body", of |-> m, at |-> 1]
            BY <3>1, BodyType
        <3>3. BodyBytes(n)[1] = [part |-> "body", of |-> n, at |-> 1]
            BY <2>1, <3>1, BodyType
        <3>4. [part |-> "body", of |-> m, at |-> 1].of = [part |-> "body", of |-> n, at |-> 1].of
            BY <2>1, <3>2, <3>3
        <3> QED BY <3>4
    <2> QED BY <2>2, <2>3
<1>3. W = {m}
    BY <1>1, <1>2
<1>4. DecodeFrame(BodyBytes(m), Zipped(m)) = IF W # {} THEN CHOOSE n \in W : TRUE ELSE Error
    BY DEF DecodeFrame
<1> HIDE DEF W
<1> QED BY <1>3, <1>4

LEMMA DecodeType ==
    ASSUME NEW q, NEW z
    PROVE  DecodeFrame(q, z) \in Messages \cup {Error}
BY DEF DecodeFrame

-----------------------------------------------------------------------------
(* Frames *)

\* encoded_frame, told apart by whether the body is compressed
LEMMA EncodedForm ==
    ASSUME NEW q, NEW m
    PROVE  EncodedFrame(q, m) =
               LET plain == Cat(q, HeaderBytes(BodyLen[m]))
                   payload == Cat(Left(plain, HEADER_LEN), BodyBytes(m))
               IN  IF Zipped(m) THEN Cat(HeaderBytes(WithBit(Len(payload))), payload)
                   ELSE Cat(plain, BodyBytes(m))
BY DEF EncodedFrame, Cat, Left

\* Of a compressed frame put into q all but the header is what is left of q
\* and of the plain header behind the first bytes, and the body
Payload(q, m) == Cat(Left(Cat(q, HeaderBytes(BodyLen[m])), HEADER_LEN), BodyBytes(m))

LEMMA EncodedZipped ==
    ASSUME NEW q \in Streams(Byte), NEW m \in Messages, Zipped(m)
    PROVE  /\ Payload(q, m) \in Streams(Byte)
           /\ Len(Payload(q, m)) = Len(q) + Len(BodyBytes(m))
           /\ EncodedFrame(q, m) = Cat(HeaderBytes(WithBit(Len(Payload(q, m)))), Payload(q, m))
           /\ EncodedFrame(q, m) \in Streams(Byte)
           /\ Len(EncodedFrame(q, m)) = Len(q) + HEADER_LEN + Len(BodyBytes(m))
<1> DEFINE h == HeaderBytes(BodyLen[m])
           plain == Cat(q, h)
           rest == Left(plain, HEADER_LEN)
           b == BodyBytes(m)
           p == Payload(q, m)
<1>1. /\ h \in Streams(Byte) /\ Len(h) = HEADER_LEN /\ HEADER_LEN \in Nat
      /\ b \in Streams(Byte) /\ Len(b) \in Nat
    BY Numbers, HeaderType, BodyType
<1> HIDE DEF h, b
<1>2. plain \in Streams(Byte) /\ Len(plain) = Len(q) + HEADER_LEN /\ Len(q) \in Nat
    BY <1>1, CatLen
<1> HIDE DEF plain
<1>3. rest \in Streams(Byte) /\ Len(rest) = Len(q)
    <2>1. HEADER_LEN \in 0..Len(plain)
        BY <1>1, <1>2
    <2>2. Left(plain, HEADER_LEN) \in Streams(Byte) /\ Len(Left(plain, HEADER_LEN)) = Len(plain) - HEADER_LEN
        BY <1>2, <2>1, PartsType
    <2> QED BY <1>1, <1>2, <2>2
<1> HIDE DEF rest
<1>4. p = Cat(rest, b)
    BY DEF Payload, rest, plain, h, b
<1> HIDE DEF p
<1>5. p \in Streams(Byte) /\ Len(p) = Len(q) + Len(b) /\ Len(p) \in Nat
    <2>1. Cat(rest, b) \in Streams(Byte) /\ Len(Cat(rest, b)) = Len(rest) + Len(b)
        BY <1>1, <1>3, CatLen
    <2> QED BY <1>1, <1>2, <1>3, <1>4, <2>1
<1> DEFINE g == HeaderBytes(WithBit(Len(p)))
<1>6. g \in Streams(Byte) /\ Len(g) = HEADER_LEN
    <2>1. WithBit(Len(p)) \in Nat
        BY <1>5, Numbers DEF WithBit
    <2> QED BY <2>1, HeaderType
<1> HIDE DEF g
<1>7. EncodedFrame(q, m) = Cat(g, p)
    BY EncodedForm DEF g, p, Payload
<1>8. Cat(g, p) \in Streams(Byte) /\ Len(Cat(g, p)) = HEADER_LEN + Len(p)
    BY <1>5, <1>6, CatLen
<1> QED BY <1>1, <1>2, <1>5, <1>7, <1>8 DEF p, g, b

LEMMA EncodedPlain ==
    ASSUME NEW q \in Streams(Byte), NEW m \in Messages, ~Zipped(m)
    PROVE  /\ EncodedFrame(q, m) = Cat(Cat(q, HeaderBytes(BodyLen[m])), BodyBytes(m))
           /\ EncodedFrame(q, m) = Cat(q, Cat(HeaderBytes(BodyLen[m]), BodyBytes(m)))
           /\ EncodedFrame(q, m) \in Streams(Byte)
           /\ Len(EncodedFrame(q, m)) = Len(q) + HEADER_LEN + Len(BodyBytes(m))
<1> DEFINE h == HeaderBytes(BodyLen[m])
           b == BodyBytes(m)
<1>1. /\ h \in Streams(Byte) /\ Len(h) = HEADER_LEN /\ HEADER_LEN \in Nat
      /\ b \in Streams(Byte) /\ Len(b) \in Nat
    BY Numbers, HeaderType, BodyType
<1>2. EncodedFrame(q, m) = Cat(Cat(q, h), b)
    BY EncodedForm
<1> HIDE DEF h, b
<1>3. Cat(Cat(q, h), b) = Cat(q, Cat(h, b))
    BY <1>1, CatAssoc
<1>4. Cat(q, h) \in Streams(Byte) /\ Len(Cat(q, h)) = Len(q) + HEADER_LEN /\ Len(q) \in Nat
    BY <1>1, CatLen
<1>5. Cat(Cat(q, h), b) \in Streams(Byte) /\ Len(Cat(Cat(q, h), b)) = Len(q) + HEADER_LEN + Len(b)
    <2> DEFINE x == Cat(q, h)
    <2>1. x \in Streams(Byte) /\ Len(x) = Len(q) + HEADER_LEN
        BY <1>4
    <2> HIDE DEF x
    <2>2. Cat(x, b) \in Streams(Byte) /\ Len(Cat(x, b)) = Len(x) + Len(b)
        BY <1>1, <2>1, CatLen
    <2> QED BY <1>1, <1>4, <2>1, <2>2 DEF x
<1> QED BY <1>2, <1>3, <1>5 DEF h, b

\* A frame is its header and its body
LEMMA FrameForm ==
    ASSUME NEW m \in Messages
    PROVE  /\ Frame(m) = Cat(HeaderBytes(HeadOf(m)), BodyBytes(m))
           /\ Frame(m) \in Streams(Byte)
           /\ Len(Frame(m)) = HEADER_LEN + Len(BodyBytes(m))
           /\ Len(Frame(m)) \in Nat \ {0}
<1>1. <<>> \in Streams(Byte) /\ Len(<<>>) = 0
    BY StreamsDef, EmptySeq
<1>2. /\ BodyBytes(m) \in Streams(Byte) /\ Len(BodyBytes(m)) \in Nat /\ BodyLen[m] \in Nat
      /\ HEADER_LEN \in Nat \ {0}
      /\ Len(BodyBytes(m)) = IF Zipped(m) THEN ZipLen[m] ELSE BodyLen[m]
    BY BodyType, Numbers
<1>3. CASE Zipped(m)
    <2>1. Payload(<<>>, m) = BodyBytes(m)
        <3> DEFINE h == HeaderBytes(BodyLen[m])
        <3>1. h \in Streams(Byte) /\ Len(h) = HEADER_LEN
            BY <1>2, HeaderType
        <3> HIDE DEF h
        <3>2. Cat(<<>>, h) = h /\ Cat(h, <<>>) = h
            BY <3>1, CatEmpty
        <3>3. Left(Cat(h, <<>>), Len(h)) = <<>>
            BY <1>1, <3>1, CatParts
        <3>4. Left(Cat(<<>>, h), HEADER_LEN) = <<>>
            BY <3>1, <3>2, <3>3
        <3>5. Cat(<<>>, BodyBytes(m)) = BodyBytes(m)
            BY <1>2, CatEmpty
        <3> QED BY <3>4, <3>5 DEF Payload, h
    <2>2. HeadOf(m) = WithBit(Len(BodyBytes(m)))
        BY <1>2, <1>3 DEF HeadOf
    <2>3. EncodedFrame(<<>>, m) = Cat(HeaderBytes(WithBit(Len(Payload(<<>>, m)))), Payload(<<>>, m))
        BY <1>1, <1>3, EncodedZipped
    <2>4. /\ EncodedFrame(<<>>, m) \in Streams(Byte)
          /\ Len(EncodedFrame(<<>>, m)) = Len(<<>>) + HEADER_LEN + Len(BodyBytes(m))
        BY <1>1, <1>3, EncodedZipped
    <2> QED BY <1>1, <1>2, <2>1, <2>2, <2>3, <2>4 DEF Frame
<1>4. CASE ~Zipped(m)
    <2>1. HeadOf(m) = BodyLen[m]
        BY <1>4 DEF HeadOf
    <2>2. Cat(<<>>, HeaderBytes(BodyLen[m])) = HeaderBytes(BodyLen[m])
        BY <1>2, HeaderType, CatEmpty
    <2>3. EncodedFrame(<<>>, m) = Cat(Cat(<<>>, HeaderBytes(BodyLen[m])), BodyBytes(m))
        BY <1>1, <1>4, EncodedPlain
    <2>4. /\ EncodedFrame(<<>>, m) \in Streams(Byte)
          /\ Len(EncodedFrame(<<>>, m)) = Len(<<>>) + HEADER_LEN + Len(BodyBytes(m))
        BY <1>1, <1>4, EncodedPlain
    <2> QED BY <1>1, <1>2, <2>1, <2>2, <2>3, <2>4 DEF Frame
<1> QED BY <1>3, <1>4

LEMMA EncodedType ==
    ASSUME NEW q \in Streams(Byte), NEW m \in Messages
    PROVE  /\ EncodedFrame(q, m) \in Streams(Byte)
           /\ Len(EncodedFrame(q, m)) = Len(q) + Len(Frame(m))
           /\ Len(q) \in Nat /\ Len(Frame(m)) \in Nat
<1>1. /\ EncodedFrame(q, m) \in Streams(Byte)
      /\ Len(EncodedFrame(q, m)) = Len(q) + HEADER_LEN + Len(BodyBytes(m))
    <2>1. CASE Zipped(m)
        BY <2>1, EncodedZipped
    <2>2. CASE ~Zipped(m)
        BY <2>2, EncodedPlain
    <2> QED BY <2>1, <2>2
<1>2. /\ Len(q) \in Nat /\ HEADER_LEN \in Nat /\ Len(BodyBytes(m)) \in Nat
      /\ Len(Frame(m)) = HEADER_LEN + Len(BodyBytes(m))
    BY CatLen, Numbers, BodyType, FrameForm
<1> QED BY <1>1, <1>2

\* Unless a compressed frame is put into a buffer that is not empty, the frame
\* is appended to what is in the buffer
LEMMA EncodedAppends ==
    ASSUME NEW q \in Streams(Byte), NEW m \in Messages, q = <<>> \/ ~Zipped(m)
    PROVE  EncodedFrame(q, m) = Cat(q, Frame(m))
<1>1. CASE q = <<>>
    <2>1. Cat(<<>>, Frame(m)) = Frame(m)
        BY FrameForm, CatEmpty
    <2> QED BY <1>1, <2>1 DEF Frame
<1>2. CASE ~Zipped(m)
    <2>1. HeadOf(m) = BodyLen[m]
        BY <1>2 DEF HeadOf
    <2> QED BY <1>2, <2>1, EncodedPlain, FrameForm
<1> QED BY <1>1, <1>2

FrameList(s) == [i \in 1..Len(s) |-> Frame(s[i])]

LEMMA FrameListType ==
    ASSUME NEW s \in Seq(Messages)
    PROVE  /\ FrameList(s) \in Seq(Streams(Byte)) /\ Len(FrameList(s)) = Len(s)
           /\ \A i \in 1..Len(s) : FrameList(s)[i] = Frame(s[i])
           /\ Frames(s) = FlattenSeq(FrameList(s)) /\ Frames(s) \in Streams(Byte)
<1> DEFINE f == FrameList(s)
           n == Len(s)
<1>1. n \in Nat /\ \A i \in 1..n : s[i] \in Messages
    OBVIOUS
<1>2. f = [i \in 1..n |-> f[i]] /\ \A i \in 1..n : f[i] = Frame(s[i])
    BY DEF FrameList
<1>3. \A i \in 1..n : f[i] \in Streams(Byte)
    BY <1>1, <1>2, FrameForm
<1> HIDE DEF f, n
<1>4. f \in Seq(Streams(Byte)) /\ Len(f) = n
    BY <1>1, <1>2, <1>3, FunctionIsSequence
<1>5. Frames(s) = FlattenSeq(f)
    BY DEF Frames, f, FrameList
<1> QED BY <1>2, <1>4, <1>5, FlattenType DEF f, n

LEMMA FramesEmpty == Frames(<<>>) = <<>> /\ <<>> \in Seq(Messages)
<1>1. FrameList(<<>>) \in Seq(Streams(Byte)) /\ Len(FrameList(<<>>)) = 0
    BY FrameListType, EmptySeq
<1>2. FrameList(<<>>) = <<>>
    BY <1>1, EmptySeq
<1> QED BY <1>2, FrameListType, FlattenEmpty, EmptySeq

\* The frames of one more message
LEMMA FramesAppend ==
    ASSUME NEW s \in Seq(Messages), NEW m \in Messages
    PROVE  Frames(Append(s, m)) = Cat(Frames(s), Frame(m))
<1> DEFINE t == Append(s, m)
           f == FrameList(s)
           g == FrameList(t)
           e == Frame(m)
<1>1. t \in Seq(Messages) /\ Len(t) = Len(s) + 1 /\ Len(s) \in Nat
      /\ (\A i \in 1..Len(s) : t[i] = s[i]) /\ t[Len(s) + 1] = m
    OBVIOUS
<1> HIDE DEF t
<1>2. /\ f \in Seq(Streams(Byte)) /\ Len(f) = Len(s) /\ \A i \in 1..Len(s) : f[i] = Frame(s[i])
      /\ g \in Seq(Streams(Byte)) /\ Len(g) = Len(t) /\ \A i \in 1..Len(t) : g[i] = Frame(t[i])
      /\ Frames(s) = FlattenSeq(f) /\ Frames(t) = FlattenSeq(g)
    BY <1>1, FrameListType
<1>3. e \in Streams(Byte)
    BY FrameForm
<1>4. \A i \in 1..Len(s) : g[i] = f[i]
    BY <1>1, <1>2
<1>5. g[Len(s) + 1] = e
    BY <1>1, <1>2
<1> HIDE DEF f, g, e
<1>6. g = Append(f, e)
    <2>1. Append(f, e) \in Seq(Streams(Byte)) /\ Len(Append(f, e)) = Len(f) + 1
          /\ (\A i \in 1..Len(f) : Append(f, e)[i] = f[i]) /\ Append(f, e)[Len(f) + 1] = e
        BY <1>2, <1>3, AppendProperties
    <2>2. \A i \in 1..Len(g) : g[i] = Append(f, e)[i]
        BY <1>1, <1>2, <1>4, <1>5, <2>1
    <2>3. Len(g) = Len(Append(f, e))
        BY <1>1, <1>2, <2>1
    <2> QED BY <1>2, <2>1, <2>2, <2>3, SeqEqual
<1>7. FlattenSeq(Append(f, e)) = Cat(FlattenSeq(f), e)
    BY <1>2, <1>3, FlattenAppend DEF Cat
<1> QED BY <1>2, <1>6, <1>7 DEF t, e

\* The frames of a beginning of s are a beginning of the frames of s
LEMMA FramesBegin ==
    ASSUME NEW s \in Seq(Messages), NEW r \in Seq(Messages), Begins(r, s)
    PROVE  \E u \in Streams(Byte) : Frames(s) = Cat(Frames(r), u)
<1> DEFINE f == FrameList(s)
           g == FrameList(r)
           d == Len(r)
<1>1. /\ f \in Seq(Streams(Byte)) /\ Len(f) = Len(s) /\ \A i \in 1..Len(s) : f[i] = Frame(s[i])
      /\ g \in Seq(Streams(Byte)) /\ Len(g) = Len(r) /\ \A i \in 1..Len(r) : g[i] = Frame(r[i])
      /\ Frames(s) = FlattenSeq(f) /\ Frames(r) = FlattenSeq(g)
    BY FrameListType
<1>2. Len(r) \in Nat /\ Len(s) \in Nat /\ Len(r) <= Len(s) /\ \A i \in 1..Len(r) : r[i] = s[i]
    BY DEF Begins
<1>3. \A i \in 1..Len(r) : f[i] = g[i]
    BY <1>1, <1>2
<1> HIDE DEF f, g
<1>4. d \in 0..Len(f)
    BY <1>1, <1>2
<1>5. SubSeq(f, 1, d) = g
    <2>1. /\ SubSeq(f, 1, d) \in Seq(Streams(Byte)) /\ Len(SubSeq(f, 1, d)) = d
          /\ \A i \in 1..d : SubSeq(f, 1, d)[i] = f[i]
        BY <1>1, <1>4, TakeAt
    <2> QED BY <1>1, <1>3, <2>1, SeqEqual
<1> HIDE DEF d
<1>6. \E u \in Streams(Byte) : FlattenSeq(f) = Cat(FlattenSeq(SubSeq(f, 1, d)), u)
    BY <1>1, <1>4, FlattenPrefix DEF Cat
<1> QED BY <1>1, <1>5, <1>6

\* When less than all of s has been received, the next message is in the rest
LEMMA FramesNext ==
    ASSUME NEW s \in Seq(Messages), NEW r \in Seq(Messages), Begins(r, s), Len(r) < Len(s)
    PROVE  /\ s[Len(r) + 1] \in Messages
           /\ Begins(Append(r, s[Len(r) + 1]), s)
           /\ \E u \in Streams(Byte) : Frames(s) = Cat(Frames(r), Cat(Frame(s[Len(r) + 1]), u))
<1> DEFINE m == s[Len(r) + 1]
           t == Append(r, m)
<1>1. /\ Len(r) \in Nat /\ Len(s) \in Nat /\ Len(r) + 1 \in 1..Len(s)
      /\ \A i \in 1..Len(r) : r[i] = s[i]
    BY DEF Begins
<1>2. m \in Messages
    BY <1>1
<1>3. t \in Seq(Messages) /\ Len(t) = Len(r) + 1 /\ \A i \in 1..(Len(r) + 1) : t[i] = s[i]
    <2> HIDE DEF m
    <2>1. t \in Seq(Messages) /\ Len(t) = Len(r) + 1 /\ (\A i \in 1..Len(r) : t[i] = r[i]) /\ t[Len(r) + 1] = m
        BY <1>2
    <2> QED BY <1>1, <2>1 DEF m
<1>4. Begins(t, s)
    BY <1>1, <1>3 DEF Begins
<1> HIDE DEF m
<1>5. Frames(t) = Cat(Frames(r), Frame(m))
    BY <1>2, FramesAppend
<1>6. PICK u \in Streams(Byte) : Frames(s) = Cat(Frames(t), u)
    BY <1>3, <1>4, FramesBegin
<1>7. Cat(Cat(Frames(r), Frame(m)), u) = Cat(Frames(r), Cat(Frame(m), u))
    BY <1>2, FrameListType, FrameForm, CatAssoc
<1> QED BY <1>2, <1>4, <1>5, <1>6, <1>7 DEF m, t

\* When all of s has been received nothing is left
LEMMA FramesDone ==
    ASSUME NEW s \in Seq(Messages), NEW r \in Seq(Messages), Begins(r, s), ~(Len(r) < Len(s)),
           NEW x \in Streams(Byte), Cat(Frames(r), x) = Frames(s)
    PROVE  r = s /\ x = <<>>
<1>1. Len(r) = Len(s) /\ \A i \in 1..Len(r) : r[i] = s[i]
    BY DEF Begins
<1>2. r = s
    BY <1>1, SeqEqual
<1>3. Frames(s) \in Streams(Byte)
    BY FrameListType
<1>4. Cat(Frames(s), <<>>) = Frames(s) /\ <<>> \in Streams(Byte)
    BY <1>3, CatEmpty
<1> QED BY <1>2, <1>3, <1>4, CatCancel

-----------------------------------------------------------------------------
(* What is on the wire *)

\* The bytes to arrive and those still to write
Pending(w, q, n) == Cat(FlattenSeq(w), Left(q, n))

LEMMA PendingType ==
    ASSUME NEW w \in Seq(Streams(Byte)), NEW q \in Streams(Byte), NEW n \in 0..Len(q)
    PROVE  /\ FlattenSeq(w) \in Streams(Byte) /\ Left(q, n) \in Streams(Byte)
           /\ Pending(w, q, n) \in Streams(Byte)
<1>1. FlattenSeq(w) \in Streams(Byte) /\ Left(q, n) \in Streams(Byte)
    BY FlattenType, PartsType
<1> QED BY <1>1, CatLen DEF Pending

\* A frame that is appended to wbuf
LEMMA PendingAppend ==
    ASSUME NEW w \in Seq(Streams(Byte)), NEW q \in Streams(Byte), NEW n \in 0..Len(q), NEW f \in Streams(Byte)
    PROVE  Pending(w, Cat(q, f), n) = Cat(Pending(w, q, n), f)
<1> DEFINE a == FlattenSeq(w)
           b == Left(q, n)
<1>1. a \in Streams(Byte) /\ b \in Streams(Byte)
    BY PendingType
<1>2. Left(Cat(q, f), n) = Cat(b, f)
    BY LeftOfCat
<1> HIDE DEF a, b
<1>3. Cat(a, Cat(b, f)) = Cat(Cat(a, b), f)
    BY <1>1, CatAssoc
<1> QED BY <1>2, <1>3 DEF Pending, a, b

\* Bytes that go from wbuf to the wire
LEMMA PendingWrite ==
    ASSUME NEW w \in Seq(Streams(Byte)), NEW q \in Streams(Byte), NEW n \in 0..Len(q),
           NEW k \in 0..(Len(q) - n), NEW v,
           FlattenSeq(v) = Cat(FlattenSeq(w), FirstPart(Left(q, n), k))
    PROVE  Pending(v, q, n + k) = Pending(w, q, n)
<1> DEFINE a == FlattenSeq(w)
           b == Left(q, n)
           c == FirstPart(b, k)
           d == Left(b, k)
<1>1. a \in Streams(Byte) /\ b \in Streams(Byte) /\ Len(b) = Len(q) - n
    BY PendingType, PartsType
<1>2. Left(q, n + k) = d
    BY LeftOfLeft
<1>3. c \in Streams(Byte) /\ d \in Streams(Byte) /\ Cat(c, d) = b
    <2> HIDE DEF b
    <2>1. k \in 0..Len(b)
        BY <1>1
    <2> QED BY <1>1, <2>1, PartsType, PartsJoin
<1> HIDE DEF a, b, c, d
<1>4. Cat(Cat(a, c), d) = Cat(a, b)
    BY <1>1, <1>3, CatAssoc
<1> QED BY <1>2, <1>4 DEF Pending, a, b, c, d

\* When everything is written wbuf may as well be empty
LEMMA PendingFlushed ==
    ASSUME NEW q \in Streams(Byte)
    PROVE  \A w : Pending(w, q, Len(q)) = Pending(w, <<>>, 0)
<1>1. Cat(q, <<>>) = q /\ <<>> \in Streams(Byte) /\ Cat(<<>>, <<>>) = <<>>
    BY CatEmpty
<1>2. Left(Cat(q, <<>>), Len(q)) = <<>>
    BY <1>1, CatParts
<1>3. Left(Cat(<<>>, <<>>), Len(<<>>)) = <<>>
    BY <1>1, CatParts
<1>4. Len(<<>>) = 0
    BY EmptySeq
<1> QED BY <1>1, <1>2, <1>3, <1>4 DEF Pending

\* What is put on the wire
LEMMA OneChunkMore ==
    ASSUME NEW w \in Seq(Streams(Byte)), \A i \in 1..Len(w) : w[i] # <<>>,
           NEW c \in Streams(Byte), c # <<>>, NEW one, one => Len(w) <= 1
    PROVE  \A v : v = (IF ~one \/ w = <<>> THEN Append(w, c) ELSE <<w[1] \o c>>) =>
               /\ v \in Seq(Streams(Byte)) /\ \A i \in 1..Len(v) : v[i] # <<>>
               /\ FlattenSeq(v) = Cat(FlattenSeq(w), c)
               /\ one => Len(v) <= 1
<1>1. CASE ~one \/ w = <<>>
    <2> DEFINE v == Append(w, c)
    <2>1. /\ v \in Seq(Streams(Byte)) /\ Len(v) = Len(w) + 1 /\ Len(w) \in Nat
          /\ (\A i \in 1..Len(w) : v[i] = w[i]) /\ v[Len(w) + 1] = c
        BY AppendProperties
    <2>2. FlattenSeq(v) = Cat(FlattenSeq(w), c)
        BY FlattenAppend DEF Cat
    <2> HIDE DEF v
    <2>3. \A i \in 1..Len(v) : v[i] # <<>>
        BY <2>1
    <2>4. one => Len(v) <= 1
        <3>1. w = <<>> => Len(w) = 0
            BY EmptySeq
        <3> QED BY <1>1, <2>1, <3>1
    <2> QED BY <1>1, <2>1, <2>2, <2>3, <2>4 DEF v
<1>2. CASE one /\ w # <<>>
    <2>1. Len(w) = 1
        <3>1. Len(w) # 0 /\ Len(w) \in Nat
            BY <1>2, EmptySeq
        <3> QED BY <1>2, <3>1
    <2> DEFINE x == w[1]
               y == w[1] \o c
    <2>2. x \in Streams(Byte) /\ w = <<x>>
        <3>1. 1 \in 1..Len(w)
            BY <2>1
        <3>2. x \in Streams(Byte)
            BY <3>1
        <3> HIDE DEF x
        <3>3. <<x>> \in Seq(Streams(Byte)) /\ Len(<<x>>) = 1 /\ <<x>>[1] = x
            BY <3>2
        <3>4. \A i \in 1..Len(w) : w[i] = <<x>>[i]
            BY <2>1, <3>3 DEF x
        <3> QED BY <2>1, <3>2, <3>3, <3>4, SeqEqual
    <2>3. FlattenSeq(w) = x
        BY <2>2, FlattenOne
    <2>4. y = Cat(x, c)
        BY DEF Cat
    <2> HIDE DEF x, y
    <2>5. y \in Streams(Byte) /\ Len(y) = Len(x) + Len(c) /\ Len(x) \in Nat /\ Len(c) \in Nat
        BY <2>2, <2>4, CatLen
    <2>6. Len(c) # 0
        BY StreamsDef, EmptySeq
    <2>7. y # <<>>
        BY <2>5, <2>6, EmptySeq
    <2>8. <<y>> \in Seq(Streams(Byte)) /\ FlattenSeq(<<y>>) = y
        BY <2>5, FlattenOne
    <2>9. Len(<<y>>) = 1 /\ \A i \in 1..Len(<<y>>) : <<y>>[i] # <<>>
        BY <2>7
    <2> QED BY <1>2, <2>3, <2>4, <2>8, <2>9 DEF y
<1> QED BY <1>1, <1>2

LEMMA ReplaceFirst ==
    ASSUME NEW S, NEW w \in Seq(S), w # <<>>, NEW d \in S, NEW v, v = [w EXCEPT ![1] = d]
    PROVE  /\ v \in Seq(S) /\ Len(v) = Len(w) /\ v[1] = d
           /\ \A i \in 1..Len(w) : i # 1 => v[i] = w[i]
           /\ Head(v) = d /\ Tail(v) = Tail(w)
<1>1. Len(w) \in Nat /\ Len(w) # 0 /\ 1 \in 1..Len(w)
    BY EmptySeq
<1>2. v \in Seq(S) /\ Len(v) = Len(w) /\ v[1] = d /\ \A i \in 1..Len(w) : i # 1 => v[i] = w[i]
    BY <1>1
<1>3. Head(v) = d
    BY <1>2, <1>1
<1>4. Tail(v) = Tail(w)
    <2> DEFINE a == Tail(v)
               b == Tail(w)
    <2>1. a \in Seq(S) /\ Len(a) = Len(w) - 1 /\ \A i \in 1..(Len(w) - 1) : a[i] = v[i + 1]
        <3>1. v # <<>>
            BY <1>1, <1>2, EmptySeq
        <3> QED BY <1>2, <3>1, HeadTailProperties
    <2>2. b \in Seq(S) /\ Len(b) = Len(w) - 1 /\ \A i \in 1..(Len(w) - 1) : b[i] = w[i + 1]
        BY HeadTailProperties
    <2> HIDE DEF a, b
    <2>3. ASSUME NEW i \in 1..(Len(w) - 1) PROVE a[i] = b[i]
        <3>1. i + 1 \in 1..Len(w) /\ i + 1 # 1
            BY <1>1
        <3> QED BY <1>2, <2>1, <2>2, <3>1
    <2> QED BY <2>1, <2>2, <2>3, SeqEqual
<1> QED BY <1>2, <1>3, <1>4

\* What stays on the wire when n bytes of the first chunk arrive
LEMMA OneChunkLess ==
    ASSUME NEW w \in Seq(Streams(Byte)), \A i \in 1..Len(w) : w[i] # <<>>, w # <<>>,
           NEW n \in 1..Len(Head(w))
    PROVE  /\ Head(w) \in Streams(Byte) /\ FirstPart(Head(w), n) \in Streams(Byte)
           /\ Len(Head(w)) \in Nat
           /\ n = Len(Head(w)) => FirstPart(Head(w), n) = Head(w)
           /\ \A v : v = (IF n = Len(Head(w)) THEN Tail(w) ELSE [w EXCEPT ![1] = SubSeq(@, n + 1, Len(@))]) =>
                 /\ v \in Seq(Streams(Byte)) /\ \A i \in 1..Len(v) : v[i] # <<>>
                 /\ FlattenSeq(w) = Cat(FirstPart(Head(w), n), FlattenSeq(v))
                 /\ Len(v) <= Len(w)
<1> DEFINE x == Head(w)
           c == FirstPart(x, n)
           d == Left(x, n)
<1>1. x \in Streams(Byte) /\ Tail(w) \in Seq(Streams(Byte)) /\ x = w[1] /\ Len(w) \in Nat \ {0}
      /\ Len(Tail(w)) = Len(w) - 1 /\ \A i \in 1..Len(Tail(w)) : Tail(w)[i] = w[i + 1]
    BY HeadTailProperties, EmptySeq
<1>2. FlattenSeq(w) = Cat(x, FlattenSeq(Tail(w)))
    BY FlattenHead DEF Cat
<1>3. Len(x) \in Nat /\ n \in 0..Len(x)
    <2>1. Len(x) \in Nat
        BY <1>1, CatLen
    <2> QED BY <2>1
<1> HIDE DEF x
<1>4. c \in Streams(Byte) /\ d \in Streams(Byte) /\ Cat(c, d) = x /\ Len(c) = n /\ Len(d) = Len(x) - n
    <2>0. x \in Streams(Byte) /\ n \in 0..Len(x)
        BY <1>1, <1>3
    <2>1. /\ FirstPart(x, n) \in Streams(Byte) /\ Len(FirstPart(x, n)) = n
          /\ Left(x, n) \in Streams(Byte) /\ Len(Left(x, n)) = Len(x) - n
        BY <2>0, PartsType
    <2>2. Cat(FirstPart(x, n), Left(x, n)) = x
        BY <2>0, PartsJoin
    <2> QED BY <2>1, <2>2
<1> HIDE DEF c, d
<1>5. CASE n = Len(x)
    <2>1. c = x
        <3>1. x \in Seq(Byte)
            BY <1>1, StreamsDef
        <3>2. SubSeq(x, 1, Len(x)) = x
            BY <3>1, SubSeqFull
        <3> QED BY <1>5, <3>2 DEF FirstPart, c
    <2>2. \A i \in 1..Len(Tail(w)) : Tail(w)[i] # <<>>
        BY <1>1
    <2>3. Len(Tail(w)) <= Len(w)
        BY <1>1
    <2> QED BY <1>1, <1>2, <1>3, <1>4, <1>5, <2>1, <2>2, <2>3 DEF x, c
<1>6. CASE n # Len(x)
    <2> DEFINE v == [w EXCEPT ![1] = SubSeq(@, n + 1, Len(@))]
    <2>0. v = [w EXCEPT ![1] = d]
        BY <1>1 DEF Left, d
    <2> HIDE DEF v
    <2>1. /\ v \in Seq(Streams(Byte)) /\ Len(v) = Len(w) /\ v[1] = d
          /\ \A i \in 1..Len(w) : i # 1 => v[i] = w[i]
        BY <1>4, <2>0, ReplaceFirst
    <2>2. d # <<>>
        BY <1>3, <1>4, <1>6, EmptySeq
    <2>3. \A i \in 1..Len(v) : v[i] # <<>>
        BY <2>1, <2>2
    <2>4. v # <<>>
        BY <1>1, <2>1, EmptySeq
    <2>5. Head(v) = d /\ Tail(v) = Tail(w)
        BY <1>4, <2>0, ReplaceFirst
    <2>6. FlattenSeq(v) = Cat(d, FlattenSeq(Tail(w)))
        BY <2>1, <2>4, <2>5, FlattenHead DEF Cat
    <2>7. Cat(c, Cat(d, FlattenSeq(Tail(w)))) = Cat(Cat(c, d), FlattenSeq(Tail(w)))
        <3>1. FlattenSeq(Tail(w)) \in Streams(Byte)
            BY <1>1, FlattenType
        <3> QED BY <1>4, <3>1, CatAssoc
    <2>8. FlattenSeq(w) = Cat(c, FlattenSeq(v))
        BY <1>2, <1>4, <2>6, <2>7
    <2>9. (IF n = Len(Head(w)) THEN Tail(w) ELSE [w EXCEPT ![1] = SubSeq(@, n + 1, Len(@))]) = v
        BY <1>6 DEF x, v
    <2>10. Len(v) <= Len(w)
        BY <1>1, <2>1
    <2>11. Head(w) = x /\ FirstPart(Head(w), n) = c /\ n # Len(Head(w))
        BY <1>6 DEF x, c
    <2> QED BY <1>1, <1>3, <1>4, <2>1, <2>3, <2>8, <2>9, <2>10, <2>11
<1> QED BY <1>5, <1>6

-----------------------------------------------------------------------------
(* The invariant *)

Typed ==
    /\ layer \in {"tcp", "secure"}
    /\ sent \in Seq(Messages)
    /\ wbuf \in Streams(Byte)
    /\ wlen \in 0..Len(wbuf)
    /\ sender \in {"idle", "flushing"}
    /\ wire \in Seq(Streams(Byte))
    /\ \A i \in 1..Len(wire) : wire[i] # <<>>
    /\ layer = "tcp" => Len(wire) <= 1
    /\ avail \in Streams(Byte)
    /\ rbuf \in Streams(Byte)
    /\ reader \in {"polling", "panicked"}
    /\ received \in Seq(Messages \cup {Error})
    /\ harm \subseteq {"cut", "stuffed"}

\* The sender's side: what is pending is the end of the frames of what was sent
Ends(f, x) == \E p \in Streams(Byte) : Cat(p, x) = f

OnWire == "stuffed" \notin harm => Ends(Frames(sent), Pending(wire, wbuf, wlen))

\* Both sides: what was received, what can be read and what is pending make up
\* the frames of what was sent
MakesUp(r, a, x, s) ==
    /\ r \in Seq(Messages)
    /\ Begins(r, s)
    /\ Cat(Frames(r), Cat(a, x)) = Frames(s)

AllThere == harm = {} => rbuf = <<>> /\ MakesUp(received, avail, Pending(wire, wbuf, wlen), sent)

IInv == Typed /\ OnWire /\ AllThere

LEMMA EndsAppend ==
    ASSUME NEW f \in Streams(Byte), NEW x \in Streams(Byte), NEW e \in Streams(Byte), Ends(f, x)
    PROVE  Ends(Cat(f, e), Cat(x, e))
<1>1. PICK p \in Streams(Byte) : Cat(p, x) = f
    BY DEF Ends
<1>2. Cat(Cat(p, x), e) = Cat(p, Cat(x, e))
    BY CatAssoc
<1> QED BY <1>1, <1>2 DEF Ends

LEMMA EndsArrive ==
    ASSUME NEW f, NEW x \in Streams(Byte), NEW c \in Streams(Byte), Ends(f, Cat(c, x))
    PROVE  Ends(f, x)
<1>1. PICK p \in Streams(Byte) : Cat(p, Cat(c, x)) = f
    BY DEF Ends
<1>2. Cat(Cat(p, c), x) = Cat(p, Cat(c, x)) /\ Cat(p, c) \in Streams(Byte)
    BY CatAssoc
<1> QED BY <1>1, <1>2 DEF Ends

LEMMA MakesUpAppend ==
    ASSUME NEW s \in Seq(Messages), NEW m \in Messages, NEW r, NEW a \in Streams(Byte), NEW x \in Streams(Byte),
           MakesUp(r, a, x, s)
    PROVE  MakesUp(r, a, Cat(x, Frame(m)), Append(s, m))
<1> DEFINE e == Frame(m)
           f == Frames(r)
<1>1. r \in Seq(Messages) /\ Begins(r, s) /\ Cat(f, Cat(a, x)) = Frames(s)
    BY DEF MakesUp
<1>2. e \in Streams(Byte) /\ f \in Streams(Byte)
    BY <1>1, FrameForm, FrameListType
<1>3. Begins(r, Append(s, m))
    <2>1. Len(r) \in Nat /\ Len(s) \in Nat
        BY <1>1
    <2> QED BY <1>1, <2>1 DEF Begins
<1>4. Frames(Append(s, m)) = Cat(Frames(s), e)
    BY FramesAppend
<1> HIDE DEF e, f
<1>5. Cat(a, x) \in Streams(Byte) /\ Cat(Cat(a, x), e) = Cat(a, Cat(x, e))
    BY <1>2, CatAssoc
<1>6. Cat(Cat(f, Cat(a, x)), e) = Cat(f, Cat(Cat(a, x), e))
    BY <1>2, <1>5, CatAssoc
<1>7. Cat(f, Cat(a, Cat(x, e))) = Frames(Append(s, m))
    BY <1>1, <1>4, <1>5, <1>6
<1> QED BY <1>1, <1>3, <1>7 DEF MakesUp, e, f

LEMMA MakesUpArrive ==
    ASSUME NEW s, NEW r, NEW a \in Streams(Byte), NEW x \in Streams(Byte), NEW c \in Streams(Byte),
           MakesUp(r, a, Cat(c, x), s)
    PROVE  MakesUp(r, Cat(a, c), x, s)
<1>1. Cat(Cat(a, c), x) = Cat(a, Cat(c, x))
    BY CatAssoc
<1> QED BY <1>1 DEF MakesUp

\* The next frame: its header is at the front of what can be read as soon as
\* that holds a header, and when it holds the body too it is the message that
\* was sent next.
LEMMA MakesUpNext ==
    ASSUME NEW s \in Seq(Messages), NEW r, NEW a \in Streams(Byte), NEW x \in Streams(Byte),
           MakesUp(r, a, x, s), Len(a) >= HEADER_LEN
    PROVE  \E m \in Messages :
               /\ FirstPart(a, HEADER_LEN) = HeaderBytes(HeadOf(m))
               /\ Len(a) >= Len(Frame(m)) =>
                      /\ FirstPart(Left(a, HEADER_LEN), Len(BodyBytes(m))) = BodyBytes(m)
                      /\ MakesUp(Append(r, m), Left(a, Len(Frame(m))), x, s)
<1> DEFINE y == Cat(a, x)
           f == Frames(r)
<1>1. r \in Seq(Messages) /\ Begins(r, s) /\ Cat(f, y) = Frames(s)
    BY DEF MakesUp
<1>2. f \in Streams(Byte) /\ y \in Streams(Byte) /\ Len(y) = Len(a) + Len(x) /\ Len(a) \in Nat /\ Len(x) \in Nat
      /\ HEADER_LEN \in Nat \ {0}
    BY <1>1, FrameListType, CatLen, Numbers
<1> HIDE DEF y, f
<1>3. Len(r) < Len(s)
    <2>1. SUFFICES ASSUME ~(Len(r) < Len(s)) PROVE FALSE
        OBVIOUS
    <2>2. y = <<>>
        BY <1>1, <1>2, <2>1, FramesDone DEF f
    <2> QED BY <1>2, <2>2, EmptySeq
<1> DEFINE m == s[Len(r) + 1]
           h == HeaderBytes(HeadOf(m))
           b == BodyBytes(m)
           e == Frame(m)
<1>4. /\ m \in Messages /\ Begins(Append(r, m), s)
      /\ \E u \in Streams(Byte) : Frames(s) = Cat(Frames(r), Cat(Frame(m), u))
    BY <1>1, <1>3, FramesNext
<1> HIDE DEF m
<1>5. /\ h \in Streams(Byte) /\ Len(h) = HEADER_LEN /\ b \in Streams(Byte) /\ Len(b) \in Nat
      /\ e = Cat(h, b) /\ e \in Streams(Byte) /\ Len(e) = HEADER_LEN + Len(b)
    <2>1. HeadOf(m) \in Nat
        BY <1>4, HeadDecodes
    <2>2. Len(b) \in Nat
        BY <1>4, BodyType
    <2> QED BY <1>4, <2>1, <2>2, HeaderType, BodyType, FrameForm
<1>6. PICK u \in Streams(Byte) : Frames(s) = Cat(f, Cat(e, u))
    BY <1>4 DEF f
<1> HIDE DEF h, b, e
<1>7. y = Cat(e, u) /\ Cat(e, u) \in Streams(Byte)
    <2>1. Cat(e, u) \in Streams(Byte)
        BY <1>5, CatLen
    <2>2. Cat(f, y) = Cat(f, Cat(e, u))
        BY <1>1, <1>6
    <2> QED BY <1>2, <2>1, <2>2, CatCancel
<1>8. FirstPart(a, HEADER_LEN) = h
    <2>1. Cat(Cat(h, b), u) = Cat(h, Cat(b, u)) /\ Cat(b, u) \in Streams(Byte)
        BY <1>5, CatAssoc
    <2>2. Cat(a, x) = Cat(h, Cat(b, u)) /\ Len(h) <= Len(a)
        BY <1>2, <1>5, <1>7, <2>1 DEF y
    <2>3. FirstPart(a, Len(h)) = h
        BY <1>5, <2>1, <2>2, FrontOf
    <2> QED BY <1>5, <2>3
<1>9. ASSUME Len(a) >= Len(e)
      PROVE  FirstPart(Left(a, HEADER_LEN), Len(b)) = b /\ MakesUp(Append(r, m), Left(a, Len(e)), x, s)
    <2> DEFINE d == Left(a, Len(e))
    <2>1. Cat(a, x) = Cat(e, u) /\ Len(e) <= Len(a) /\ Len(e) \in 0..Len(a)
        BY <1>2, <1>5, <1>7, <1>9 DEF y
    <2>2. FirstPart(a, Len(e)) = e /\ Cat(d, x) = u
        BY <1>5, <2>1, FrontOf
    <2>3. d \in Streams(Byte) /\ a = Cat(e, d)
        BY <2>1, <2>2, PartsType, PartsJoin
    <2> HIDE DEF d
    <2>4. a = Cat(h, Cat(b, d)) /\ Cat(b, d) \in Streams(Byte)
        BY <1>5, <2>3, CatAssoc
    <2>5. Left(a, HEADER_LEN) = Cat(b, d)
        <3>1. Left(Cat(h, Cat(b, d)), Len(h)) = Cat(b, d)
            BY <1>5, <2>4, CatParts
        <3> QED BY <1>5, <2>4, <3>1
    <2>6. FirstPart(Cat(b, d), Len(b)) = b
        BY <1>5, <2>3, CatParts
    <2>7. Frames(Append(r, m)) = Cat(f, e)
        BY <1>1, <1>4, FramesAppend DEF f, e
    <2>8. Cat(Cat(f, e), Cat(d, x)) = Cat(f, Cat(e, Cat(d, x)))
        BY <1>2, <1>5, <1>6, <2>2, CatAssoc
    <2>9. Cat(Cat(f, e), Cat(d, x)) = Frames(s)
        BY <1>6, <2>2, <2>8
    <2>10. Append(r, m) \in Seq(Messages)
        BY <1>1, <1>4
    <2>11. MakesUp(Append(r, m), d, x, s)
        BY <1>4, <2>7, <2>9, <2>10 DEF MakesUp
    <2> QED BY <2>5, <2>6, <2>11 DEF d
<1> QED BY <1>4, <1>8, <1>9 DEF h, b, e

-----------------------------------------------------------------------------
(* The actions *)

\* What the lemmas need of a state
LEMMA StateTypes ==
    ASSUME Typed
    PROVE  /\ Pending(wire, wbuf, wlen) \in Streams(Byte)
           /\ Frames(sent) \in Streams(Byte)
           /\ Len(wbuf) \in Nat /\ wlen \in Nat /\ wlen \in 0..Len(wbuf)
           /\ FlattenSeq(wire) \in Streams(Byte) /\ Left(wbuf, wlen) \in Streams(Byte)
           /\ Len(Left(wbuf, wlen)) = Len(wbuf) - wlen
<1> USE DEF Typed
<1>1. Len(wbuf) \in Nat
    BY CatLen
<1> QED BY <1>1, PendingType, PartsType, FrameListType

LEMMA InvInit == Init => IInv
<1> SUFFICES ASSUME Init PROVE IInv
    OBVIOUS
<1> USE DEF Init
<1>1. <<>> \in Streams(Byte) /\ <<>> \in Seq(Streams(Byte)) /\ Len(<<>>) = 0 /\ <<>> \in Seq(Messages)
      /\ <<>> \in Seq(Messages \cup {Error})
    BY StreamsDef, EmptySeq
<1>2. Typed
    BY <1>1 DEF Typed
<1>3. Pending(<<>>, <<>>, 0) = <<>>
    <2>1. Left(<<>>, 0) = <<>>
        <3>1. Cat(<<>>, <<>>) = <<>>
            BY <1>1, CatEmpty
        <3>2. Left(Cat(<<>>, <<>>), Len(<<>>)) = <<>>
            BY <1>1, CatParts
        <3> QED BY <1>1, <3>1, <3>2
    <2>2. Cat(<<>>, <<>>) = <<>>
        BY <1>1, CatEmpty
    <2> QED BY <2>1, <2>2, FlattenEmpty DEF Pending
<1>4. Cat(<<>>, <<>>) = <<>> /\ Frames(<<>>) = <<>>
    BY <1>1, CatEmpty, FramesEmpty
<1>5. OnWire
    BY <1>1, <1>3, <1>4 DEF OnWire, Ends
<1>6. Begins(<<>>, <<>>)
    BY <1>1 DEF Begins
<1>7. AllThere
    BY <1>1, <1>3, <1>4, <1>6 DEF AllThere, MakesUp
<1> QED BY <1>2, <1>5, <1>7 DEF IInv

LEMMA StartSendInv ==
    ASSUME IInv, NEW m \in Messages, StartSend(m)
    PROVE  IInv'
<1> DEFINE x == Pending(wire, wbuf, wlen)
           e == Frame(m)
<1> USE DEF StartSend, readerVars
<1>1. Typed /\ OnWire /\ AllThere
    BY DEF IInv
<1>2. /\ x \in Streams(Byte) /\ Frames(sent) \in Streams(Byte) /\ e \in Streams(Byte)
      /\ Len(wbuf) \in Nat /\ wlen \in Nat /\ wlen \in 0..Len(wbuf)
      /\ sent \in Seq(Messages) /\ wbuf \in Streams(Byte) /\ avail \in Streams(Byte)
      /\ wire \in Seq(Streams(Byte))
    BY <1>1, StateTypes, FrameForm DEF Typed
<1>3. Typed'
    <2>1. wbuf' \in Streams(Byte) /\ Len(wbuf') = Len(wbuf) + Len(e) /\ Len(e) \in Nat
        BY <1>2, EncodedType
    <2>2. sent' \in Seq(Messages)
        BY <1>2
    <2>3. wlen' \in 0..Len(wbuf')
        BY <1>2, <2>1
    <2> QED BY <1>1, <2>1, <2>2, <2>3 DEF Typed
<1>4. ASSUME "stuffed" \notin harm'
      PROVE  /\ "stuffed" \notin harm
             /\ Pending(wire', wbuf', wlen') = Cat(x, e)
             /\ Frames(sent') = Cat(Frames(sent), e)
    <2>1. "stuffed" \notin harm /\ (wbuf = <<>> \/ ~Zipped(m))
        BY <1>4
    <2>2. wbuf' = Cat(wbuf, e)
        BY <1>2, <2>1, EncodedAppends
    <2>3. Pending(wire, Cat(wbuf, e), wlen) = Cat(x, e)
        BY <1>2, PendingAppend
    <2>4. Frames(Append(sent, m)) = Cat(Frames(sent), e)
        BY <1>2, FramesAppend
    <2> QED BY <2>1, <2>2, <2>3, <2>4
<1> HIDE DEF x, e
<1>5. OnWire'
    <2>1. SUFFICES ASSUME "stuffed" \notin harm' PROVE Ends(Frames(sent'), Pending(wire', wbuf', wlen'))
        BY DEF OnWire
    <2>2. Ends(Frames(sent), x)
        BY <1>1, <1>4, <2>1 DEF OnWire, x
    <2>3. Ends(Cat(Frames(sent), e), Cat(x, e))
        BY <1>2, <2>2, EndsAppend
    <2> QED BY <1>4, <2>1, <2>3
<1>6. AllThere'
    <2>1. SUFFICES ASSUME harm' = {}
                   PROVE  rbuf' = <<>> /\ MakesUp(received', avail', Pending(wire', wbuf', wlen'), sent')
        BY DEF AllThere
    <2>2. harm = {} /\ "stuffed" \notin harm'
        BY <2>1
    <2>3. rbuf = <<>> /\ MakesUp(received, avail, x, sent)
        BY <1>1, <2>2 DEF AllThere, x
    <2>4. MakesUp(received, avail, Cat(x, e), Append(sent, m))
        BY <1>2, <2>3, MakesUpAppend DEF e
    <2> QED BY <1>4, <2>2, <2>3, <2>4
<1> QED BY <1>3, <1>5, <1>6 DEF IInv

LEMMA WriteInv ==
    ASSUME IInv, NEW n \in 1..Len(wbuf), Write(n)
    PROVE  IInv'
<1> DEFINE c == SubSeq(wbuf, wlen + 1, wlen + n)
<1> USE DEF Write, readerVars
<1>1. Typed /\ OnWire /\ AllThere
    BY DEF IInv
<1>2. /\ Len(wbuf) \in Nat /\ wlen \in Nat /\ wlen \in 0..Len(wbuf) /\ n \in 1..(Len(wbuf) - wlen)
      /\ wbuf \in Streams(Byte) /\ wire \in Seq(Streams(Byte)) /\ n \in 0..(Len(wbuf) - wlen)
      /\ n \in Nat /\ n # 0
    BY <1>1, StateTypes DEF Typed
<1>3. c = FirstPart(Left(wbuf, wlen), n) /\ wlen + n \in 0..Len(wbuf)
    BY <1>2, LeftOfLeft
<1>4. c \in Streams(Byte) /\ c # <<>>
    <2>1. Left(wbuf, wlen) \in Streams(Byte) /\ Len(Left(wbuf, wlen)) = Len(wbuf) - wlen
        BY <1>1, StateTypes
    <2>2. n \in 0..Len(Left(wbuf, wlen))
        BY <1>2, <2>1
    <2>3. FirstPart(Left(wbuf, wlen), n) \in Streams(Byte) /\ Len(FirstPart(Left(wbuf, wlen), n)) = n
        BY <2>1, <2>2, PartsType
    <2> QED BY <1>2, <1>3, <2>3, EmptySeq
<1>5. wire' = IF layer # "tcp" \/ wire = <<>> THEN Append(wire, c) ELSE <<wire[1] \o c>>
    BY <1>1 DEF Written, Typed
<1> HIDE DEF c
<1>6. /\ wire' \in Seq(Streams(Byte)) /\ \A i \in 1..Len(wire') : wire'[i] # <<>>
      /\ FlattenSeq(wire') = Cat(FlattenSeq(wire), c)
      /\ layer = "tcp" => Len(wire') <= 1
    BY <1>1, <1>2, <1>4, <1>5, OneChunkMore DEF Typed
<1>7. Typed'
    <2>1. wlen' \in 0..Len(wbuf') /\ wbuf' = wbuf /\ sender' = sender /\ layer' = layer /\ sent' = sent
          /\ avail' = avail /\ rbuf' = rbuf /\ reader' = reader /\ received' = received /\ harm' = harm
        BY <1>3
    <2> QED BY <1>1, <1>6, <2>1 DEF Typed
<1>8. Pending(wire', wbuf', wlen') = Pending(wire, wbuf, wlen)
    <2>1. Pending(wire', wbuf, wlen + n) = Pending(wire, wbuf, wlen)
        BY <1>2, <1>3, <1>6, PendingWrite
    <2> QED BY <2>1
<1>9. OnWire'
    BY <1>1, <1>8 DEF OnWire
<1>10. AllThere'
    BY <1>1, <1>8 DEF AllThere
<1> QED BY <1>7, <1>9, <1>10 DEF IInv

LEMMA FlushedInv ==
    ASSUME IInv, Flushed
    PROVE  IInv'
<1> USE DEF Flushed, readerVars
<1>1. Typed /\ OnWire /\ AllThere
    BY DEF IInv
<1>2. <<>> \in Streams(Byte) /\ Len(<<>>) = 0
    BY StreamsDef, EmptySeq
<1>3. Typed'
    BY <1>1, <1>2 DEF Typed
<1>4. Pending(wire', wbuf', wlen') = Pending(wire, wbuf, wlen)
    <2>1. wbuf \in Streams(Byte)
        BY <1>1 DEF Typed
    <2>2. Pending(wire, wbuf, Len(wbuf)) = Pending(wire, <<>>, 0)
        BY <2>1, PendingFlushed
    <2> QED BY <2>2
<1>5. OnWire'
    BY <1>1, <1>4 DEF OnWire
<1>6. AllThere'
    BY <1>1, <1>4 DEF AllThere
<1> QED BY <1>3, <1>5, <1>6 DEF IInv

LEMMA ArriveInv ==
    ASSUME IInv, NEW n, Arrive(n)
    PROVE  IInv'
<1> DEFINE c == FirstPart(Head(wire), n)
           x == Pending(wire', wbuf, wlen)
<1> USE DEF Arrive, senderVars, readerVars
<1>1. Typed /\ OnWire /\ AllThere
    BY DEF IInv
<1>2. /\ wire \in Seq(Streams(Byte)) /\ (\A i \in 1..Len(wire) : wire[i] # <<>>) /\ wire # <<>>
      /\ n \in 1..Len(Head(wire))
      /\ wire' = IF n = Len(Head(wire)) THEN Tail(wire) ELSE [wire EXCEPT ![1] = SubSeq(@, n + 1, Len(@))]
      /\ avail \in Streams(Byte) /\ wbuf \in Streams(Byte) /\ wlen \in 0..Len(wbuf)
    BY <1>1 DEF Typed
<1>3. /\ c \in Streams(Byte)
      /\ wire' \in Seq(Streams(Byte)) /\ \A i \in 1..Len(wire') : wire'[i] # <<>>
      /\ FlattenSeq(wire) = Cat(c, FlattenSeq(wire'))
      /\ Len(wire') <= Len(wire) /\ Len(wire') \in Nat /\ Len(wire) \in Nat
    <2>1. c \in Streams(Byte)
        BY <1>2, OneChunkLess
    <2>2. /\ wire' \in Seq(Streams(Byte)) /\ \A i \in 1..Len(wire') : wire'[i] # <<>>
          /\ FlattenSeq(wire) = Cat(c, FlattenSeq(wire'))
          /\ Len(wire') <= Len(wire)
        BY <1>2, OneChunkLess
    <2>3. Len(wire') \in Nat /\ Len(wire) \in Nat
        BY <1>2, <2>2
    <2> QED BY <2>1, <2>2, <2>3
<1>4. avail' = Cat(avail, c)
    BY DEF Cat, FirstPart
<1> HIDE DEF c
<1>5. avail' \in Streams(Byte)
    BY <1>2, <1>3, <1>4, CatLen
<1>6. Typed'
    <2>1. layer = "tcp" => Len(wire') <= 1
        BY <1>1, <1>3 DEF Typed
    <2> QED BY <1>1, <1>3, <1>5, <2>1 DEF Typed
<1>7. Pending(wire, wbuf, wlen) = Cat(c, x) /\ x \in Streams(Byte)
    <2>1. /\ wire \in Seq(Streams(Byte)) /\ wire' \in Seq(Streams(Byte)) /\ c \in Streams(Byte)
          /\ FlattenSeq(wire) = Cat(c, FlattenSeq(wire'))
          /\ wbuf \in Streams(Byte) /\ wlen \in 0..Len(wbuf)
        BY <1>2, <1>3
    <2>2. Pending(wire', wbuf, wlen) \in Streams(Byte)
        BY <2>1, PendingType
    <2>3. Pending(wire, wbuf, wlen) = Cat(c, Pending(wire', wbuf, wlen))
        <3>1. FlattenSeq(wire') \in Streams(Byte) /\ Left(wbuf, wlen) \in Streams(Byte)
            BY <2>1, PendingType
        <3>2. Cat(Cat(c, FlattenSeq(wire')), Left(wbuf, wlen)) = Cat(c, Cat(FlattenSeq(wire'), Left(wbuf, wlen)))
            BY <2>1, <3>1, CatAssoc
        <3> QED BY <2>1, <3>2 DEF Pending
    <2> QED BY <2>2, <2>3
<1>8. Pending(wire', wbuf', wlen') = x
    OBVIOUS
<1> HIDE DEF x
<1>9. OnWire'
    <2>1. SUFFICES ASSUME "stuffed" \notin harm PROVE Ends(Frames(sent), x)
        BY <1>8 DEF OnWire
    <2>2. Ends(Frames(sent), Cat(c, x))
        BY <1>1, <1>7, <2>1 DEF OnWire
    <2> QED BY <1>3, <1>7, <2>2, EndsArrive
<1>10. AllThere'
    <2>1. SUFFICES ASSUME harm = {} PROVE rbuf = <<>> /\ MakesUp(received, avail', x, sent)
        BY <1>8 DEF AllThere
    <2>2. rbuf = <<>> /\ MakesUp(received, avail, Cat(c, x), sent)
        BY <1>1, <1>7, <2>1 DEF AllThere
    <2> QED BY <1>2, <1>3, <1>4, <1>7, <2>2, MakesUpArrive
<1> QED BY <1>6, <1>9, <1>10 DEF IInv

LEMMA PollPartialInv ==
    ASSUME IInv, PollPartial
    PROVE  IInv'
<1> USE DEF PollPartial, senderVars, readerVars
<1>1. Typed /\ OnWire /\ AllThere
    BY DEF IInv
<1>2. <<>> \in Streams(Byte)
    BY StreamsDef, EmptySeq
<1>3. Typed'
    BY <1>1, <1>2 DEF Typed
<1>4. OnWire'
    BY <1>1 DEF OnWire
<1>5. AllThere'
    BY DEF AllThere
<1> QED BY <1>3, <1>4, <1>5 DEF IInv

LEMMA PollReadyInv ==
    ASSUME IInv, PollReady
    PROVE  IInv'
<1> USE DEF PollReady, senderVars
<1>1. Typed /\ OnWire /\ AllThere
    BY DEF IInv
<1>2. PICK h \in NextHeaders :
          LET len == DecodeHeader(h).len
              body == SubSeq(avail, HEADER_LEN + 1, HEADER_LEN + len)
              item == DecodeFrame(body, DecodeHeader(h).zipped)
          IN  /\ HasFrame(h)
              /\ received' = Append(received, item)
              /\ rbuf' = IF item = Error THEN body ELSE <<>>
              /\ avail' = SubSeq(avail, HEADER_LEN + len + 1, Len(avail))
    OBVIOUS
<1> DEFINE len == DecodeHeader(h).len
           body == SubSeq(avail, HEADER_LEN + 1, HEADER_LEN + len)
           item == DecodeFrame(body, DecodeHeader(h).zipped)
           x == Pending(wire, wbuf, wlen)
<1>3. /\ Len(avail) >= HEADER_LEN + len /\ received' = Append(received, item)
      /\ rbuf' = IF item = Error THEN body ELSE <<>>
      /\ avail' = Left(avail, HEADER_LEN + len)
    BY <1>2 DEF HasFrame, Left
<1>4. /\ avail \in Streams(Byte) /\ Len(avail) \in Nat /\ HEADER_LEN \in Nat
      /\ HEADER_LEN \in 0..Len(avail) /\ Len(avail) >= HEADER_LEN
      /\ FirstPart(avail, HEADER_LEN) \in Streams(Byte)
      /\ x \in Streams(Byte)
    <2>1. avail \in Streams(Byte) /\ Len(avail) \in Nat /\ HEADER_LEN \in Nat /\ x \in Streams(Byte)
        BY <1>1, CatLen, Numbers, StateTypes DEF Typed
    <2>2. HEADER_LEN \in 0..Len(avail) /\ Len(avail) >= HEADER_LEN
        BY <2>1 DEF HasHeader
    <2> QED BY <2>1, <2>2, PartsType
<1>5. h \in Headers(FirstPart(avail, HEADER_LEN))
    BY <1>2 DEF NextHeaders, FirstPart
<1>6. len \in Nat
    BY <1>4, <1>5, HeadersType
<1> HIDE DEF len
<1>7. len \in 0..(Len(avail) - HEADER_LEN) /\ HEADER_LEN + len \in 0..Len(avail)
    BY <1>3, <1>4, <1>6
<1>8. body = FirstPart(Left(avail, HEADER_LEN), len)
    BY <1>4, <1>7, LeftOfLeft
<1> HIDE DEF body
<1>9. body \in Streams(Byte)
    <2>1. Left(avail, HEADER_LEN) \in Streams(Byte) /\ Len(Left(avail, HEADER_LEN)) = Len(avail) - HEADER_LEN
        BY <1>4, PartsType
    <2>2. len \in 0..Len(Left(avail, HEADER_LEN))
        BY <1>7, <2>1
    <2> QED BY <1>8, <2>1, <2>2, PartsType
<1>10. avail' \in Streams(Byte)
    BY <1>3, <1>4, <1>7, PartsType
<1>11. item \in Messages \cup {Error}
    BY DecodeType
<1> HIDE DEF item
<1>12. <<>> \in Streams(Byte)
    BY StreamsDef, EmptySeq
<1>13. Typed'
    <2>1. received' \in Seq(Messages \cup {Error})
        BY <1>1, <1>3, <1>11 DEF Typed
    <2>2. rbuf' \in Streams(Byte)
        BY <1>3, <1>9, <1>12
    <2> QED BY <1>1, <1>10, <2>1, <2>2 DEF Typed
<1>14. OnWire'
    BY <1>1 DEF OnWire
<1>15. AllThere'
    <2>1. SUFFICES ASSUME harm = {}
                   PROVE  rbuf' = <<>> /\ MakesUp(received', avail', x, sent)
        BY DEF AllThere
    <2>2. MakesUp(received, avail, x, sent) /\ sent \in Seq(Messages)
        BY <1>1, <2>1 DEF AllThere, Typed
    <2> HIDE DEF x
    <2>3. PICK m \in Messages :
              /\ FirstPart(avail, HEADER_LEN) = HeaderBytes(HeadOf(m))
              /\ Len(avail) >= Len(Frame(m)) =>
                     /\ FirstPart(Left(avail, HEADER_LEN), Len(BodyBytes(m))) = BodyBytes(m)
                     /\ MakesUp(Append(received, m), Left(avail, Len(Frame(m))), x, sent)
        BY <1>4, <2>2, MakesUpNext
    <2>4. h = HeadOf(m)
        <3>1. HeadOf(m) \in Nat
            BY HeadDecodes
        <3>2. Headers(HeaderBytes(HeadOf(m))) = {HeadOf(m)}
            BY <3>1, HeadersOfWhole
        <3> QED BY <1>5, <2>3, <3>2
    <2>5. len = Len(BodyBytes(m)) /\ DecodeHeader(h).zipped = Zipped(m)
        BY <2>4, HeadDecodes DEF len
    <2>6. Len(Frame(m)) = HEADER_LEN + len
        BY <2>5, FrameForm
    <2>7. FirstPart(Left(avail, HEADER_LEN), len) = BodyBytes(m)
        BY <1>3, <2>3, <2>5, <2>6
    <2>8. MakesUp(Append(received, m), Left(avail, HEADER_LEN + len), x, sent)
        BY <1>3, <2>3, <2>6
    <2>9. item = m
        BY <1>8, <2>5, <2>7, BodyDecodes DEF item
    <2>10. item # Error
        BY <2>9, CodecAssumption
    <2> QED BY <1>3, <2>8, <2>9, <2>10
<1> QED BY <1>13, <1>14, <1>15 DEF IInv

LEMMA OtherInv ==
    ASSUME IInv, Abandon \/ PollPanics \/ Finished \/ UNCHANGED vars
    PROVE  IInv'
<1>1. Typed /\ OnWire /\ AllThere
    BY DEF IInv
<1>2. CASE Abandon
    <2> USE <1>2 DEF Abandon, readerVars
    <2>1. Typed' /\ OnWire' /\ AllThere'
        BY <1>1 DEF Typed, OnWire, AllThere
    <2> QED BY <2>1 DEF IInv
<1>3. CASE PollPanics
    <2> USE <1>3 DEF PollPanics, senderVars
    <2>1. Typed' /\ OnWire' /\ AllThere'
        BY <1>1 DEF Typed, OnWire, AllThere
    <2> QED BY <2>1 DEF IInv
<1>4. CASE Finished \/ UNCHANGED vars
    <2>1. UNCHANGED vars
        BY <1>4 DEF Finished
    <2>2. Typed' /\ OnWire' /\ AllThere'
        BY <1>1, <2>1 DEF Typed, OnWire, AllThere, vars
    <2> QED BY <2>2 DEF IInv
<1> QED BY <1>2, <1>3, <1>4

LEMMA InvNext == IInv /\ [Next]_vars => IInv'
<1> SUFFICES ASSUME IInv, [Next]_vars PROVE IInv'
    OBVIOUS
<1>1. CASE \E m \in Messages : StartSend(m)
    BY <1>1, StartSendInv
<1>2. CASE Writes
    BY <1>2, WriteInv DEF Writes
<1>3. CASE Flushed
    BY <1>3, FlushedInv
<1>4. CASE Arrives
    BY <1>4, ArriveInv DEF Arrives
<1>5. CASE PollPartial
    BY <1>5, PollPartialInv
<1>6. CASE PollReady
    BY <1>6, PollReadyInv
<1>7. CASE Abandon \/ PollPanics \/ Finished \/ UNCHANGED vars
    BY <1>7, OtherInv
<1> QED BY <1>1, <1>2, <1>3, <1>4, <1>5, <1>6, <1>7 DEF Next, Polls

THEOREM Invariance == Spec => []IInv
BY InvInit, InvNext, PTL DEF Spec

-----------------------------------------------------------------------------
(* What the invariant says *)

\* Every state of the two adapters has its type; wlen never passes the end of
\* wbuf, whatever sends are abandoned.
THEOREM TypeCorrect == Spec => []TypeOK
<1>1. ASSUME Typed PROVE TypeOK
    <2>1. \A b \in ToSet(wbuf \o avail \o rbuf) : b.part \in {"header", "body"}
        <3> DEFINE q == wbuf \o avail \o rbuf
        <3>1. q \in Seq(Byte)
            <4>1. wbuf \in Streams(Byte) /\ avail \in Streams(Byte) /\ rbuf \in Streams(Byte)
                BY <1>1 DEF Typed
            <4>2. wbuf \o avail \in Streams(Byte)
                BY <4>1, StreamConcat
            <4>3. q \in Streams(Byte)
                BY <4>1, <4>2, StreamConcat
            <4> QED BY <4>3, StreamsDef
        <3> HIDE DEF q
        <3>2. \A b \in ToSet(q) : b \in Byte
            BY <3>1 DEF ToSet
        <3>3. \A b \in Byte : b.part \in {"header", "body"}
            BY DEF Byte, HeaderByte, BodyByte
        <3> QED BY <3>2, <3>3 DEF q
    <2> QED BY <1>1, <2>1 DEF Typed, TypeOK
<1>2. IInv => TypeOK
    BY <1>1 DEF IInv
<1> QED BY <1>2, Invariance, PTL

\* As long as no compressed frame was put into a buffer that was not empty,
\* the stream carries the frames of what was sent and nothing else, through
\* short writes and abandoned sends.
THEOREM WireCarriesFrames == Spec => []WireIntact
<1>1. ASSUME IInv PROVE WireIntact
    <2> DEFINE x == Pending(wire, wbuf, wlen)
    <2>1. SUFFICES ASSUME "stuffed" \notin harm
                   PROVE  IsSuffix(x, Frames(sent))
        BY DEF WireIntact, Frames, Pending, Cat, Left
    <2>2. x \in Streams(Byte)
        BY <1>1, StateTypes DEF IInv
    <2>3. PICK p \in Streams(Byte) : Cat(p, x) = Frames(sent)
        BY <1>1, <2>1 DEF IInv, OnWire, Ends
    <2> HIDE DEF x
    <2> QED BY <2>2, <2>3, SuffixIfEnd
<1> QED BY <1>1, Invariance, PTL

\* Messages are received in the order they were sent, once, unaltered, as long
\* as no read was cut and no frame was stuffed into another one.
THEOREM ReceivedInOrder == Spec => []InOrder
<1>1. ASSUME IInv PROVE InOrder
    <2>1. SUFFICES ASSUME harm = {} PROVE IsPrefix(received, sent)
        BY DEF InOrder, Unharmed
    <2>2. sent \in Seq(Messages) /\ received \in Seq(Messages) /\ Begins(received, sent)
        BY <1>1, <2>1 DEF IInv, Typed, AllThere, MakesUp
    <2>3. Len(received) \in 0..Len(sent) /\ \A i \in 1..Len(received) : received[i] = sent[i]
        BY <2>2 DEF Begins
    <2>4. SubSeq(received, 1, Len(received)) = received
        BY <2>2, SubSeqFull
    <2>5. received = SubSeq(sent, 1, Len(received))
        <3>1. /\ SubSeq(sent, 1, Len(received)) \in Seq(Messages)
              /\ Len(SubSeq(sent, 1, Len(received))) = Len(received)
              /\ \A i \in 1..Len(received) : SubSeq(sent, 1, Len(received))[i] = sent[i]
            BY <2>2, <2>3, TakeAt
        <3> QED BY <2>2, <2>3, <3>1, SeqEqual
    <2> QED BY <2>3, <2>4, <2>5 DEF IsPrefix
<1> QED BY <1>1, Invariance, PTL

\* When nothing is left to write, to arrive or to read, all that was sent has
\* been received, unless one of the two harms was done.
THEOREM NothingIsLost == Spec => []NothingLost
<1>1. ASSUME IInv PROVE NothingLost
    <2>1. SUFFICES ASSUME harm = {}, Quiet PROVE received = sent
        BY DEF NothingLost, Unharmed
    <2>2. /\ sent \in Seq(Messages) /\ wlen \in 0..Len(wbuf)
          /\ MakesUp(received, avail, Pending(wire, wbuf, wlen), sent)
        BY <1>1, <2>1 DEF IInv, Typed, AllThere
    <2>3. wbuf = <<>> /\ wire = <<>> /\ avail = <<>>
        BY <2>1 DEF Quiet
    <2>4. Cat(<<>>, <<>>) = <<>> /\ <<>> \in Streams(Byte) /\ Len(<<>>) = 0
        BY StreamsDef, EmptySeq, CatEmpty
    <2>5. Pending(wire, wbuf, wlen) = <<>>
        <3>1. wlen = 0
            BY <2>2, <2>3, <2>4
        <3>2. Left(Cat(<<>>, <<>>), Len(<<>>)) = <<>>
            BY <2>4, CatParts
        <3>3. Left(<<>>, 0) = <<>>
            BY <2>4, <3>2
        <3> QED BY <2>3, <2>4, <3>1, <3>3, FlattenEmpty DEF Pending
    <2>6. received \in Seq(Messages) /\ Begins(received, sent) /\ Cat(Frames(received), <<>>) = Frames(sent)
        BY <2>2, <2>3, <2>4, <2>5 DEF MakesUp
    <2>7. CASE ~(Len(received) < Len(sent))
        BY <2>2, <2>4, <2>6, <2>7, FramesDone
    <2>8. CASE Len(received) < Len(sent)
        <3> DEFINE m == sent[Len(received) + 1]
                   f == Frames(received)
                   e == Frame(m)
        <3>1. m \in Messages /\ \E u \in Streams(Byte) : Frames(sent) = Cat(f, Cat(e, u))
            BY <2>2, <2>6, <2>8, FramesNext
        <3> HIDE DEF m
        <3>2. e \in Streams(Byte) /\ Len(e) \in Nat \ {0} /\ f \in Streams(Byte)
            BY <2>6, <3>1, FrameForm, FrameListType
        <3> HIDE DEF e
        <3>3. PICK u \in Streams(Byte) : Frames(sent) = Cat(f, Cat(e, u))
            BY <3>1
        <3> HIDE DEF f
        <3>4. Cat(e, u) \in Streams(Byte) /\ Len(Cat(e, u)) = Len(e) + Len(u) /\ Len(u) \in Nat
            BY <3>2, CatLen
        <3>5. Cat(f, <<>>) = Cat(f, Cat(e, u))
            BY <2>6, <3>3 DEF f
        <3>6. <<>> = Cat(e, u)
            BY <2>4, <3>2, <3>4, <3>5, CatCancel
        <3>7. Len(Cat(e, u)) # 0
            BY <3>2, <3>4
        <3> QED BY <2>4, <3>6, <3>7
    <2> QED BY <2>7, <2>8
<1> QED BY <1>1, Invariance, PTL

-----------------------------------------------------------------------------
(* Whole frames above a SecureStream *)

\* A header and a body of the length it says, garbled or not
Unit(x) == \E h \in Nat : \E b \in Streams(Byte) :
               x = Cat(HeaderBytes(h), b) /\ Len(b) = DecodeHeader(h).len

\* A sequence of units
Whole(q) == \E u \in Seq(Streams(Byte)) :
                (\A i \in 1..Len(u) : Unit(u[i])) /\ FlattenSeq(u) = q

LEMMA WholeEmpty == Whole(<<>>)
<1>1. <<>> \in Seq(Streams(Byte)) /\ Len(<<>>) = 0
    BY EmptySeq
<1> DEFINE u == <<>>
<1>2. \A i \in 1..Len(u) : Unit(u[i])
    BY <1>1
<1>3. u \in Seq(Streams(Byte)) /\ FlattenSeq(u) = <<>>
    BY <1>1, FlattenEmpty
<1> HIDE DEF u
<1> QED BY <1>2, <1>3 DEF Whole

LEMMA WholeUnit ==
    ASSUME NEW x \in Streams(Byte), Unit(x)
    PROVE  Whole(x)
<1>1. <<x>> \in Seq(Streams(Byte)) /\ FlattenSeq(<<x>>) = x
    BY FlattenOne
<1>2. \A i \in 1..Len(<<x>>) : Unit(<<x>>[i])
    <2>1. Len(<<x>>) = 1 /\ <<x>>[1] = x
        OBVIOUS
    <2> QED BY <2>1
<1> QED BY <1>1, <1>2 DEF Whole

LEMMA WholeCat ==
    ASSUME NEW p, NEW q, Whole(p), Whole(q)
    PROVE  Whole(Cat(p, q))
<1>1. PICK u \in Seq(Streams(Byte)) : (\A i \in 1..Len(u) : Unit(u[i])) /\ FlattenSeq(u) = p
    BY DEF Whole
<1>2. PICK v \in Seq(Streams(Byte)) : (\A i \in 1..Len(v) : Unit(v[i])) /\ FlattenSeq(v) = q
    BY DEF Whole
<1> DEFINE w == Cat(u, v)
<1>3. w \in Seq(Streams(Byte)) /\ FlattenSeq(w) = Cat(p, q)
    BY <1>1, <1>2, FlattenConcat
<1>4. /\ Len(w) = Len(u) + Len(v) /\ Len(u) \in Nat /\ Len(v) \in Nat
      /\ \A i \in 1..Len(u) : w[i] = u[i]
      /\ \A i \in 1..Len(v) : w[Len(u) + i] = v[i]
    <2>1. Len(u) \in Nat /\ Len(v) \in Nat
        OBVIOUS
    <2> QED BY <2>1, ConcatAt DEF Cat
<1> HIDE DEF w
<1>5. ASSUME NEW i \in 1..Len(w) PROVE Unit(w[i])
    <2>1. CASE i <= Len(u)
        <3>1. i \in 1..Len(u)
            BY <1>4, <2>1
        <3> QED BY <1>1, <1>4, <3>1
    <2>2. CASE i > Len(u)
        <3>1. i - Len(u) \in 1..Len(v) /\ Len(u) + (i - Len(u)) = i
            BY <1>4, <2>2
        <3>2. w[Len(u) + (i - Len(u))] = v[i - Len(u)]
            BY <1>4, <3>1
        <3>3. Unit(v[i - Len(u)])
            BY <1>2, <3>1
        <3> QED BY <3>1, <3>2, <3>3
    <2> QED BY <1>4, <2>1, <2>2
<1> QED BY <1>3, <1>5 DEF Whole

\* The first unit of whole frames is read in one go, and whole frames are left
LEMMA WholeHead ==
    ASSUME NEW q \in Streams(Byte), Whole(q), q # <<>>
    PROVE  \E h \in Nat :
               /\ FirstPart(q, HEADER_LEN) = HeaderBytes(h)
               /\ DecodeHeader(h).len \in Nat
               /\ Len(q) >= HEADER_LEN + DecodeHeader(h).len
               /\ Whole(Left(q, HEADER_LEN + DecodeHeader(h).len))
<1>1. PICK u \in Seq(Streams(Byte)) : (\A i \in 1..Len(u) : Unit(u[i])) /\ FlattenSeq(u) = q
    BY DEF Whole
<1>2. u # <<>>
    BY <1>1, FlattenEmpty
<1> DEFINE x == Head(u)
           t == Tail(u)
           r == FlattenSeq(t)
<1>3. /\ x \in Streams(Byte) /\ t \in Seq(Streams(Byte)) /\ x = u[1] /\ Len(u) \in Nat \ {0}
      /\ Len(t) = Len(u) - 1 /\ \A i \in 1..Len(t) : t[i] = u[i + 1]
    BY <1>2, HeadTailProperties, EmptySeq
<1>4. q = Cat(x, r)
    BY <1>1, <1>2, FlattenHead DEF Cat
<1> HIDE DEF x, t
<1>5. r \in Streams(Byte)
    BY <1>3, FlattenType
<1>6. Whole(r)
    <2>1. \A i \in 1..Len(t) : Unit(t[i])
        BY <1>1, <1>3
    <2> QED BY <1>3, <2>1 DEF Whole
<1> HIDE DEF r
<1>7. Unit(x)
    BY <1>1, <1>3
<1>8. PICK h \in Nat, b \in Streams(Byte) : x = Cat(HeaderBytes(h), b) /\ Len(b) = DecodeHeader(h).len
    BY <1>7 DEF Unit
<1> DEFINE g == HeaderBytes(h)
<1>9. g \in Streams(Byte) /\ Len(g) = HEADER_LEN /\ HEADER_LEN \in Nat
    BY HeaderType, Numbers
<1> HIDE DEF g
<1>10. Len(b) \in Nat /\ Len(x) = HEADER_LEN + Len(b) /\ Len(q) = Len(x) + Len(r) /\ Len(r) \in Nat
    <2>1. Len(Cat(g, b)) = Len(g) + Len(b) /\ Len(b) \in Nat
        BY <1>9, CatLen
    <2>2. Len(Cat(x, r)) = Len(x) + Len(r) /\ Len(r) \in Nat
        BY <1>3, <1>5, CatLen
    <2> QED BY <1>4, <1>8, <1>9, <2>1, <2>2 DEF g
<1>11. FirstPart(q, HEADER_LEN) = g
    <2>1. Cat(Cat(g, b), r) = Cat(g, Cat(b, r)) /\ Cat(b, r) \in Streams(Byte)
        BY <1>5, <1>9, CatAssoc
    <2>2. FirstPart(Cat(g, Cat(b, r)), Len(g)) = g
        BY <1>9, <2>1, CatParts
    <2> QED BY <1>4, <1>8, <1>9, <2>1, <2>2 DEF g
<1>12. Left(q, Len(x)) = r
    BY <1>3, <1>4, <1>5, CatParts
<1>13. /\ DecodeHeader(h).len \in Nat /\ Len(q) >= HEADER_LEN + DecodeHeader(h).len
       /\ Left(q, HEADER_LEN + DecodeHeader(h).len) = r
    BY <1>8, <1>9, <1>10, <1>12
<1> QED BY <1>6, <1>11, <1>13 DEF g

LEMMA FrameIsUnit ==
    ASSUME NEW m \in Messages
    PROVE  Unit(Frame(m))
BY FrameForm, HeadDecodes, BodyType DEF Unit

\* A compressed frame that swallows what was in the buffer is one unit, if it
\* is not longer than a header can say
LEMMA SwallowedIsUnit ==
    ASSUME NEW q \in Streams(Byte), NEW m \in Messages, Zipped(m),
           Len(q) + Len(Frame(m)) < COMPRESSION_BIT
    PROVE  Unit(EncodedFrame(q, m))
<1> DEFINE p == Payload(q, m)
           n == Len(p)
           h == WithBit(n)
<1>1. p \in Streams(Byte) /\ n = Len(q) + Len(BodyBytes(m)) /\ EncodedFrame(q, m) = Cat(HeaderBytes(h), p)
    BY EncodedZipped
<1>2. n \in 0..(COMPRESSION_BIT - 1) /\ COMPRESSION_BIT \in Nat \ {0}
    <2>1. /\ Len(q) \in Nat /\ Len(BodyBytes(m)) \in Nat /\ HEADER_LEN \in Nat
          /\ Len(Frame(m)) = HEADER_LEN + Len(BodyBytes(m)) /\ COMPRESSION_BIT \in Nat \ {0}
        BY CatLen, BodyType, Numbers, FrameForm
    <2> QED BY <1>1, <2>1
<1> HIDE DEF n
<1>3. h = n + COMPRESSION_BIT /\ h \in Nat
    BY <1>2 DEF WithBit
<1>4. h % COMPRESSION_BIT = n
    BY <1>2, <1>3, Modulo
<1> HIDE DEF h
<1>5. DecodeHeader(h).len = n
    BY <1>4 DEF DecodeHeader
<1> HIDE DEF p
<1> QED BY <1>1, <1>3, <1>5 DEF Unit, n

\* The frames of MaxSends messages fit in one frame
SendsFit == \E c \in Nat : /\ \A m \in Messages : Len(Frame(m)) <= c
                           /\ MaxSends * c < COMPRESSION_BIT

\* wbuf holds at most what was sent
BufferLen ==
    /\ Len(sent) <= MaxSends
    /\ \A c \in Nat : (\A m \in Messages : Len(Frame(m)) <= c) => Len(wbuf) <= Len(sent) * c

WholeFrames ==
    layer = "secure" /\ (SendsFit \/ "stuffed" \notin harm) =>
        /\ Whole(avail)
        /\ \A i \in 1..Len(wire) : Whole(wire[i])
        /\ Whole(wbuf)
        /\ wlen = 0 \/ (wlen = Len(wbuf) /\ sender = "flushing")
        /\ "cut" \notin harm

FInv == IInv /\ BufferLen /\ WholeFrames

LEMMA FInvInit == Init => FInv
<1> SUFFICES ASSUME Init PROVE FInv
    OBVIOUS
<1>1. IInv
    BY InvInit
<1>2. Len(<<>>) = 0
    BY EmptySeq
<1>3. BufferLen
    BY <1>2, Numbers DEF Init, BufferLen
<1>4. WholeFrames
    BY <1>2, WholeEmpty DEF Init, WholeFrames
<1> QED BY <1>1, <1>3, <1>4 DEF FInv

LEMMA Product ==
    ASSUME NEW a \in Nat, NEW b \in Nat, NEW c \in Nat, a <= b
    PROVE  a * c <= b * c /\ (a + 1) * c = a * c + c /\ a * c \in Nat /\ b * c \in Nat
OBVIOUS

LEMMA StartSendLen ==
    ASSUME FInv, NEW m \in Messages, StartSend(m)
    PROVE  /\ BufferLen'
           /\ SendsFit => Len(wbuf) + Len(Frame(m)) < COMPRESSION_BIT
<1> USE DEF StartSend
<1>1. /\ sent \in Seq(Messages) /\ wbuf \in Streams(Byte) /\ Len(sent) < MaxSends /\ MaxSends \in Nat
      /\ Len(sent) \in Nat /\ Len(sent') = Len(sent) + 1
    BY Numbers DEF FInv, IInv, Typed
<1>2. Len(wbuf') = Len(wbuf) + Len(Frame(m)) /\ Len(wbuf) \in Nat /\ Len(Frame(m)) \in Nat
    BY <1>1, EncodedType
<1>3. ASSUME NEW c \in Nat, \A n \in Messages : Len(Frame(n)) <= c
      PROVE  /\ Len(wbuf) + Len(Frame(m)) <= (Len(sent) + 1) * c
             /\ (Len(sent) + 1) * c <= MaxSends * c
             /\ (Len(sent) + 1) * c \in Nat /\ MaxSends * c \in Nat
    <2> DEFINE k == Len(sent)
    <2>1. Len(wbuf) <= k * c /\ Len(Frame(m)) <= c
        BY <1>3 DEF FInv, BufferLen
    <2> HIDE DEF k
    <2>2. k \in Nat /\ k + 1 \in Nat /\ k + 1 <= MaxSends
        BY <1>1 DEF k
    <2>3. (k + 1) * c = k * c + c /\ k * c \in Nat
        BY <2>2, Product
    <2>4. (k + 1) * c <= MaxSends * c /\ (k + 1) * c \in Nat /\ MaxSends * c \in Nat
        BY <1>1, <2>2, Product
    <2>5. Len(wbuf) + Len(Frame(m)) <= k * c + c
        BY <1>2, <2>1, <2>3
    <2> QED BY <2>3, <2>4, <2>5 DEF k
<1>4. BufferLen'
    <2>1. Len(sent') <= MaxSends
        BY <1>1
    <2>2. ASSUME NEW c \in Nat, \A n \in Messages : Len(Frame(n)) <= c
          PROVE  Len(wbuf') <= Len(sent') * c
        <3>1. Len(wbuf) + Len(Frame(m)) <= (Len(sent) + 1) * c
            BY <1>3, <2>2
        <3> QED BY <1>1, <1>2, <3>1
    <2> QED BY <2>1, <2>2 DEF BufferLen
<1>5. SendsFit => Len(wbuf) + Len(Frame(m)) < COMPRESSION_BIT
    <2>1. SUFFICES ASSUME NEW c \in Nat, \A n \in Messages : Len(Frame(n)) <= c, MaxSends * c < COMPRESSION_BIT
                   PROVE  Len(wbuf) + Len(Frame(m)) < COMPRESSION_BIT
        BY DEF SendsFit
    <2>2. /\ Len(wbuf) + Len(Frame(m)) <= (Len(sent) + 1) * c
          /\ (Len(sent) + 1) * c <= MaxSends * c
          /\ (Len(sent) + 1) * c \in Nat /\ MaxSends * c \in Nat
        BY <1>3, <2>1
    <2> QED BY <1>2, <2>1, <2>2, Numbers
<1> QED BY <1>4, <1>5

LEMMA StartSendWhole ==
    ASSUME FInv, NEW m \in Messages, StartSend(m)
    PROVE  WholeFrames'
<1> USE DEF StartSend
<1>1. SUFFICES ASSUME layer = "secure", SendsFit \/ "stuffed" \notin harm'
               PROVE  Whole(wbuf') /\ WholeFrames /\ (SendsFit \/ "stuffed" \notin harm)
    <2>1. wlen' = wlen /\ sender = "idle"
        OBVIOUS
    <2>2. "cut" \in harm' => "cut" \in harm
        OBVIOUS
    <2>3. ASSUME layer = "secure", SendsFit \/ "stuffed" \notin harm',
                 Whole(wbuf') /\ WholeFrames /\ (SendsFit \/ "stuffed" \notin harm)
          PROVE  /\ Whole(avail') /\ (\A i \in 1..Len(wire') : Whole(wire'[i])) /\ Whole(wbuf')
                 /\ wlen' = 0 /\ "cut" \notin harm'
        BY <2>1, <2>2, <2>3 DEF WholeFrames
    <2> QED BY <2>3 DEF WholeFrames
<1>2. WholeFrames /\ (SendsFit \/ "stuffed" \notin harm) /\ wbuf \in Streams(Byte)
    BY <1>1 DEF FInv, IInv, Typed
<1>3. Whole(wbuf)
    BY <1>1, <1>2 DEF WholeFrames
<1>4. Frame(m) \in Streams(Byte) /\ Unit(Frame(m))
    BY FrameForm, FrameIsUnit
<1>5. CASE wbuf = <<>> \/ ~Zipped(m)
    <2>1. wbuf' = Cat(wbuf, Frame(m))
        BY <1>2, <1>5, EncodedAppends
    <2>2. Whole(Cat(wbuf, Frame(m)))
        BY <1>3, <1>4, WholeUnit, WholeCat
    <2> QED BY <1>2, <2>1, <2>2
<1>6. CASE wbuf # <<>> /\ Zipped(m)
    <2>1. Len(wbuf) + Len(Frame(m)) < COMPRESSION_BIT
        <3>1. "stuffed" \in harm'
            BY <1>6
        <3> QED BY <1>1, <3>1, StartSendLen
    <2>2. Unit(EncodedFrame(wbuf, m)) /\ EncodedFrame(wbuf, m) \in Streams(Byte)
        BY <1>2, <1>6, <2>1, SwallowedIsUnit, EncodedType
    <2>3. Whole(wbuf')
        BY <2>2, WholeUnit
    <2> QED BY <1>2, <2>3
<1> QED BY <1>5, <1>6

LEMMA WriteWhole ==
    ASSUME FInv, NEW n \in 1..Len(wbuf), Write(n)
    PROVE  WholeFrames'
<1> USE DEF Write
<1>1. SUFFICES ASSUME layer = "secure", SendsFit \/ "stuffed" \notin harm
               PROVE  /\ Whole(avail) /\ (\A i \in 1..Len(wire') : Whole(wire'[i])) /\ Whole(wbuf)
                      /\ wlen' = Len(wbuf) /\ "cut" \notin harm
    BY DEF WholeFrames, readerVars
<1>2. /\ Whole(avail) /\ (\A i \in 1..Len(wire) : Whole(wire[i])) /\ Whole(wbuf) /\ "cut" \notin harm
      /\ wlen = 0 \/ wlen = Len(wbuf)
    BY <1>1 DEF FInv, WholeFrames
<1>3. /\ wbuf \in Streams(Byte) /\ wire \in Seq(Streams(Byte)) /\ Len(wbuf) \in Nat /\ wlen \in Nat
      /\ n \in 1..(Len(wbuf) - wlen) /\ n = Len(wbuf) - wlen
    BY <1>1, StateTypes DEF FInv, IInv, Typed
<1>4. wlen = 0 /\ n = Len(wbuf)
    BY <1>2, <1>3
<1>5. SubSeq(wbuf, wlen + 1, wlen + n) = wbuf
    <2>1. wbuf \in Seq(Byte)
        BY <1>3, StreamsDef
    <2>2. SubSeq(wbuf, 1, Len(wbuf)) = wbuf
        BY <2>1, SubSeqFull
    <2>3. wlen + 1 = 1 /\ wlen + n = Len(wbuf)
        BY <1>3, <1>4
    <2> QED BY <2>2, <2>3
<1>6. wire' = Append(wire, wbuf)
    BY <1>1, <1>5 DEF Written
<1>7. /\ Len(wire') = Len(wire) + 1 /\ Len(wire) \in Nat
      /\ (\A i \in 1..Len(wire) : wire'[i] = wire[i]) /\ wire'[Len(wire) + 1] = wbuf
    BY <1>3, <1>6, AppendProperties
<1>8. \A i \in 1..Len(wire') : Whole(wire'[i])
    <2>1. SUFFICES ASSUME NEW i \in 1..Len(wire') PROVE Whole(wire'[i])
        OBVIOUS
    <2>2. i \in 1..Len(wire) \/ i = Len(wire) + 1
        BY <1>7
    <2> QED BY <1>2, <1>7, <2>2
<1>9. wlen' = Len(wbuf)
    BY <1>3, <1>4
<1> QED BY <1>2, <1>8, <1>9

LEMMA ArriveWhole ==
    ASSUME FInv, NEW n, Arrive(n)
    PROVE  WholeFrames'
<1> USE DEF Arrive, senderVars, readerVars
<1>1. SUFFICES ASSUME layer = "secure", SendsFit \/ "stuffed" \notin harm
               PROVE  Whole(avail') /\ (\A i \in 1..Len(wire') : Whole(wire'[i]))
    BY DEF FInv, WholeFrames
<1>2. Whole(avail) /\ (\A i \in 1..Len(wire) : Whole(wire[i]))
    BY <1>1 DEF FInv, WholeFrames
<1>3. wire \in Seq(Streams(Byte)) /\ wire # <<>> /\ n = Len(Head(wire)) /\ n \in 1..Len(Head(wire))
      /\ (\A i \in 1..Len(wire) : wire[i] # <<>>)
    BY <1>1 DEF FInv, IInv, Typed
<1>4. FirstPart(Head(wire), n) = Head(wire)
    BY <1>3, OneChunkLess
<1>5. avail' = Cat(avail, Head(wire))
    BY <1>4 DEF Cat, FirstPart
<1>6. /\ Head(wire) = wire[1] /\ Len(wire) \in Nat \ {0} /\ wire' = Tail(wire)
      /\ Len(Tail(wire)) = Len(wire) - 1 /\ \A i \in 1..Len(Tail(wire)) : Tail(wire)[i] = wire[i + 1]
    BY <1>3, HeadTailProperties, EmptySeq
<1> HIDE DEF Arrive
<1>7. Whole(avail')
    <2>1. Whole(Head(wire))
        <3>1. 1 \in 1..Len(wire)
            BY <1>6
        <3> QED BY <1>2, <1>6, <3>1
    <2> QED BY <1>2, <1>5, <2>1, WholeCat
<1>8. \A i \in 1..Len(wire') : Whole(wire'[i])
    <2>1. SUFFICES ASSUME NEW i \in 1..Len(wire') PROVE Whole(wire'[i])
        OBVIOUS
    <2>2. i \in 1..Len(Tail(wire)) /\ wire'[i] = Tail(wire)[i]
        BY <1>6
    <2>3. i + 1 \in 1..Len(wire) /\ wire'[i] = wire[i + 1]
        BY <1>6, <2>2
    <2> QED BY <1>2, <2>3
<1> QED BY <1>7, <1>8

\* What poll_next finds when whole frames are there to read
LEMMA ReadsWhole ==
    ASSUME Typed, Whole(avail), avail # <<>>
    PROVE  \E h \in Nat :
               /\ HasHeader /\ NextHeaders = {h} /\ HasFrame(h)
               /\ Whole(Left(avail, HEADER_LEN + DecodeHeader(h).len))
<1>1. avail \in Streams(Byte) /\ Len(avail) \in Nat /\ HEADER_LEN \in Nat
    BY CatLen, Numbers DEF Typed
<1>2. PICK h \in Nat :
          /\ FirstPart(avail, HEADER_LEN) = HeaderBytes(h)
          /\ DecodeHeader(h).len \in Nat
          /\ Len(avail) >= HEADER_LEN + DecodeHeader(h).len
          /\ Whole(Left(avail, HEADER_LEN + DecodeHeader(h).len))
    BY <1>1, WholeHead
<1>3. NextHeaders = {h}
    BY <1>2, HeadersOfWhole DEF NextHeaders, FirstPart
<1>4. HasFrame(h) /\ HasHeader
    BY <1>1, <1>2 DEF HasFrame, HasHeader
<1> QED BY <1>2, <1>3, <1>4

LEMMA PollWhole ==
    ASSUME FInv, PollPartial \/ PollReady
    PROVE  WholeFrames'
<1>1. SUFFICES ASSUME layer = "secure", SendsFit \/ "stuffed" \notin harm'
               PROVE  Whole(avail') /\ "cut" \notin harm' /\ (SendsFit \/ "stuffed" \notin harm)
    BY DEF FInv, WholeFrames, PollPartial, PollReady, senderVars
<1>2. SendsFit \/ "stuffed" \notin harm
    BY <1>1 DEF PollPartial, PollReady
<1>3. Whole(avail) /\ "cut" \notin harm /\ Typed
    BY <1>1, <1>2 DEF FInv, IInv, WholeFrames
<1>4. CASE PollPartial
    <2>1. avail # <<>>
        BY <1>4 DEF PollPartial
    <2>2. PICK h \in Nat : HasHeader /\ NextHeaders = {h} /\ HasFrame(h)
        BY <1>3, <2>1, ReadsWhole
    <2>3. FALSE
        BY <1>4, <2>2 DEF PollPartial
    <2> QED BY <2>3
<1>5. CASE PollReady
    <2>1. avail # <<>>
        <3>1. HasHeader
            BY <1>5 DEF PollReady
        <3>2. Len(avail) # 0
            BY <3>1, Numbers DEF HasHeader
        <3> QED BY <3>2, EmptySeq
    <2>2. PICK h \in Nat : /\ HasHeader /\ NextHeaders = {h} /\ HasFrame(h)
                           /\ Whole(Left(avail, HEADER_LEN + DecodeHeader(h).len))
        BY <1>3, <2>1, ReadsWhole
    <2>3. avail' = Left(avail, HEADER_LEN + DecodeHeader(h).len) /\ harm' = harm
        BY <1>5, <2>2 DEF PollReady, Left
    <2> QED BY <1>2, <1>3, <2>2, <2>3
<1> QED BY <1>4, <1>5

LEMMA FInvNext == FInv /\ [Next]_vars => FInv'
<1> SUFFICES ASSUME FInv, [Next]_vars PROVE FInv'
    OBVIOUS
<1>1. IInv'
    BY InvNext DEF FInv
<1>2. CASE \E m \in Messages : StartSend(m)
    BY <1>1, <1>2, StartSendLen, StartSendWhole DEF FInv
<1>3. CASE Writes
    <2>1. PICK n \in 1..Len(wbuf) : Write(n)
        BY <1>3 DEF Writes
    <2>2. BufferLen'
        BY <2>1 DEF FInv, BufferLen, Write
    <2> QED BY <1>1, <2>1, <2>2, WriteWhole DEF FInv
<1>4. CASE Flushed
    <2>1. Len(<<>>) = 0
        BY EmptySeq
    <2>2. BufferLen'
        <3>1. Len(sent) \in Nat
            BY DEF FInv, IInv, Typed
        <3>2. \A c \in Nat : Len(sent) * c \in Nat
            BY <3>1, Product
        <3>3. \A c \in Nat : 0 <= Len(sent) * c
            BY <3>2
        <3>4. sent' = sent /\ Len(wbuf') = 0
            BY <1>4, <2>1 DEF Flushed
        <3> QED BY <3>3, <3>4 DEF FInv, BufferLen
    <2>3. WholeFrames'
        BY <1>4, WholeEmpty DEF FInv, WholeFrames, Flushed, readerVars
    <2> QED BY <1>1, <2>2, <2>3 DEF FInv
<1>5. CASE Abandon
    <2>1. BufferLen' /\ WholeFrames'
        BY <1>5 DEF FInv, BufferLen, WholeFrames, Abandon, readerVars
    <2> QED BY <1>1, <2>1 DEF FInv
<1>6. CASE Arrives
    <2>1. PICK n \in 1..Len(Head(wire)) : Arrive(n)
        BY <1>6 DEF Arrives
    <2>2. BufferLen'
        BY <2>1 DEF FInv, BufferLen, Arrive, senderVars
    <2> QED BY <1>1, <2>1, <2>2, ArriveWhole DEF FInv
<1>7. CASE PollPartial \/ PollReady
    <2>1. BufferLen'
        BY <1>7 DEF FInv, BufferLen, PollPartial, PollReady, senderVars
    <2> QED BY <1>1, <1>7, <2>1, PollWhole DEF FInv
<1>8. CASE PollPanics
    <2>1. BufferLen' /\ WholeFrames'
        BY <1>8 DEF FInv, BufferLen, WholeFrames, PollPanics, senderVars
    <2> QED BY <1>1, <2>1 DEF FInv
<1>9. CASE Finished \/ UNCHANGED vars
    <2>1. UNCHANGED vars
        BY <1>9 DEF Finished
    <2>2. BufferLen' /\ WholeFrames'
        BY <2>1 DEF FInv, BufferLen, WholeFrames, vars
    <2> QED BY <1>1, <2>2 DEF FInv
<1> QED BY <1>2, <1>3, <1>4, <1>5, <1>6, <1>7, <1>8, <1>9 DEF Next, Polls

LEMMA FramingInvariance == Spec => []FInv
BY FInvInit, FInvNext, PTL DEF Spec

\* Above a SecureStream a read is cut only after a compressed frame was put
\* into a buffer that was not empty, however much is sent.
CutOnlyIfStuffed == layer = "secure" /\ "cut" \in harm => "stuffed" \in harm

\* A SecureStream gives out whole records, and a record that is one flush of
\* wbuf is whole frames: no read of read_frame is ever Pending inside a frame.
THEOREM SecureNeverCuts == Spec => []CutOnlyIfStuffed
<1>1. FInv => CutOnlyIfStuffed
    BY DEF FInv, WholeFrames, CutOnlyIfStuffed
<1> QED BY <1>1, FramingInvariance, PTL

\* The same for frames that were stuffed, which are garbled but of the length
\* their header says, as long as all that is sent is shorter than what a header
\* can say.
THEOREM NeverCut ==
    ASSUME SendsFit
    PROVE  Spec => []NeverCutAboveSecure
<1>1. FInv => NeverCutAboveSecure
    BY DEF FInv, WholeFrames, NeverCutAboveSecure
<1> QED BY <1>1, FramingInvariance, PTL
=============================================================================
