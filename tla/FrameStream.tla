----------------------------- MODULE FrameStream -----------------------------
(***************************************************************************)
(* One direction of a connection of tiny-kv-server: the Sink half of the   *)
(* StreamAdapter of one end, the stream below it, and the Stream half of   *)
(* the StreamAdapter of the other end, with the frame coder both use.      *)
(*                                                                         *)
(* The stream below is a TCP socket, which takes and gives any number of   *)
(* bytes, or a SecureStream, whose poll_write takes all it is offered and  *)
(* whose poll_read gives that plaintext out once the record is complete.   *)
(* A byte is a token that says what it was written as, so that what a      *)
(* reader makes of bytes that are not where it expects them is known.      *)
(***************************************************************************)
EXTENDS Integers, Sequences, SequencesExt

CONSTANTS Messages,           \* the messages that are sent
          BodyLen,            \* BodyLen[m]: Message::encoded_len
          ZipLen,             \* ZipLen[m]: length of the body once compressed
          HEADER_LEN,
          COMPRESSION_LIMIT,
          COMPRESSION_BIT,    \* also 2^31, the MAX_FRAME_SIZE, in the code
          MaxSends            \* bound: messages sent

ASSUME FrameAssumption ==
    /\ BodyLen \in [Messages -> 0..COMPRESSION_BIT]
    /\ ZipLen \in [Messages -> Nat]
    /\ HEADER_LEN \in Nat \ {0}
    /\ COMPRESSION_BIT \in Nat
    /\ COMPRESSION_LIMIT \in 0..COMPRESSION_BIT
    /\ MaxSends \in Nat

VARIABLES
    layer,     \* the stream below: "tcp" or "secure"
    sent,      \* the messages start_send has accepted
    wbuf,      \* StreamAdapter::wbuf of the sender
    wlen,      \* StreamAdapter::wlen of the sender
    sender,    \* "idle", or "flushing" inside send
    wire,      \* the records, or the stretch of bytes, not yet arrived
    avail,     \* the bytes the receiver can read without waiting
    rbuf,      \* StreamAdapter::rbuf of the receiver between two polls
    reader,    \* "polling", or "panicked" on the assertion in poll_next
    received,  \* what poll_next has yielded
    harm       \* history: what has happened that the code does not survive,
               \* "cut" a read dropped half way, "stuffed" a compressed frame
               \* put into a buffer that was not empty

vars == <<layer, sent, wbuf, wlen, sender, wire, avail, rbuf, reader, received, harm>>
senderVars == <<layer, sent, wbuf, wlen, sender>>
readerVars == <<rbuf, reader, received>>

-----------------------------------------------------------------------------
(* The frame coder *)

Zipped(m) == BodyLen[m] > COMPRESSION_LIMIT

\* put_u32(h)
HeaderBytes(h) == [i \in 1..HEADER_LEN |-> [part |-> "header", of |-> h, at |-> i]]

\* The encoded, or encoded and compressed, message
BodyBytes(m) == [i \in 1..(IF Zipped(m) THEN ZipLen[m] ELSE BodyLen[m]) |->
                    [part |-> "body", of |-> m, at |-> i]]

\* n | COMPRESSION_BIT, for n below twice the bit
WithBit(n) == IF n >= COMPRESSION_BIT THEN n ELSE n + COMPRESSION_BIT

\* decode_header
DecodeHeader(h) == [len |-> h % COMPRESSION_BIT, zipped |-> h >= COMPRESSION_BIT]

\* Mutant: the header of a compressed frame keeps the plain length
EncodedFramePlainLen(buf, m) ==
    LET plain == buf \o HeaderBytes(BodyLen[m])
        payload == SubSeq(plain, HEADER_LEN + 1, Len(plain)) \o BodyBytes(m)
    IN  IF Zipped(m) THEN HeaderBytes(WithBit(BodyLen[m])) \o payload
        ELSE plain \o BodyBytes(m)

\* encoded_frame appends a frame to buf.  A frame to compress first gets the
\* header of its plain length; all of buf behind the first HEADER_LEN bytes is
\* split off, the compressed body is appended to that, and the first bytes are
\* replaced by the header of what was split off.
EncodedFrame(buf, m) ==
    LET plain == buf \o HeaderBytes(BodyLen[m])
        payload == SubSeq(plain, HEADER_LEN + 1, Len(plain)) \o BodyBytes(m)
    IN  IF Zipped(m) THEN HeaderBytes(WithBit(Len(payload))) \o payload
        ELSE plain \o BodyBytes(m)

\* What four bytes mean as a header.  If they are not one header in full they
\* are some number.
Headers(bytes) ==
    LET whole == {h \in {b.of : b \in {x \in ToSet(bytes) : x.part = "header"}} :
                      bytes = HeaderBytes(h)}
    IN  IF whole # {} THEN whole ELSE 0..(2 * COMPRESSION_BIT - 1)

Error == "error"

\* decode_frame of a body: the message it is the body of; bytes that are not
\* the body of a message do not decode.
DecodeFrame(body, zipped) ==
    LET whole == {m \in Messages : Zipped(m) = zipped /\ body = BodyBytes(m)}
    IN  IF whole # {} THEN CHOOSE m \in whole : TRUE ELSE Error

\* What the coder relies on.  A body of 2^31 bytes is compressed; what it is
\* compressed to is not empty (deflate ends with a marker) and stays below 2^31,
\* which encoded_frame does not check; the encoding of a message determines it,
\* so that only one message, the default one, has an empty encoding.
ASSUME CodecAssumption ==
    /\ COMPRESSION_LIMIT < COMPRESSION_BIT
    /\ \A m \in Messages : ZipLen[m] \in 1..(COMPRESSION_BIT - 1)
    /\ \A m, n \in Messages : BodyLen[m] = 0 /\ BodyLen[n] = 0 => m = n
    /\ Error \notin Messages

-----------------------------------------------------------------------------
Init == /\ layer \in {"tcp", "secure"}
        /\ sent = <<>>
        /\ wbuf = <<>>
        /\ wlen = 0
        /\ sender = "idle"
        /\ wire = <<>>
        /\ avail = <<>>
        /\ rbuf = <<>>
        /\ reader = "polling"
        /\ received = <<>>
        /\ harm = {}

(* The sender: send(m).await is poll_ready, start_send, poll_flush *)

\* Mutant: the buffer is reset for every message, whatever is left in it
StartSendAfresh(m) ==
    /\ sender = "idle"
    /\ Len(sent) < MaxSends
    /\ wbuf' = EncodedFrame(<<>>, m)
    /\ wlen' = 0
    /\ sent' = Append(sent, m)
    /\ sender' = "flushing"
    /\ harm' = IF wbuf # <<>> /\ Zipped(m) THEN harm \cup {"stuffed"} ELSE harm
    /\ UNCHANGED <<layer, wire, avail, readerVars>>

\* start_send; encoded_frame refuses a message above MAX_FRAME_SIZE and FrameAssumption has none
StartSend(m) ==
    /\ sender = "idle"
    /\ Len(sent) < MaxSends
    /\ wbuf' = EncodedFrame(wbuf, m)
    /\ sent' = Append(sent, m)
    /\ sender' = "flushing"
    /\ harm' = IF wbuf # <<>> /\ Zipped(m) THEN harm \cup {"stuffed"} ELSE harm
    /\ UNCHANGED <<layer, wlen, wire, avail, readerVars>>

\* What is under way with these bytes behind it: a record of its own, or more
\* of a stream without boundaries
Written(bytes) ==
    IF layer = "secure" \/ wire = <<>> THEN Append(wire, bytes) ELSE <<wire[1] \o bytes>>

\* Mutant: poll_write is given wbuf from its start
WriteFromStart(n) ==
    /\ sender = "flushing"
    /\ n \in 1..(Len(wbuf) - wlen)
    /\ layer = "secure" => n = Len(wbuf) - wlen
    /\ wire' = Written(SubSeq(wbuf, 1, n))
    /\ wlen' = wlen + n
    /\ UNCHANGED <<layer, sent, wbuf, sender, avail, readerVars, harm>>

\* One turn of the loop of poll_flush: the stream below takes n bytes
Write(n) ==
    /\ sender = "flushing"
    /\ n \in 1..(Len(wbuf) - wlen)
    /\ layer = "secure" => n = Len(wbuf) - wlen
    /\ wire' = Written(SubSeq(wbuf, wlen + 1, wlen + n))
    /\ wlen' = wlen + n
    /\ UNCHANGED <<layer, sent, wbuf, sender, avail, readerVars, harm>>

\* Mutant: wbuf is cleared and wlen is not
FlushedKeepsWlen ==
    /\ sender = "flushing"
    /\ wlen = Len(wbuf)
    /\ wbuf' = <<>>
    /\ sender' = "idle"
    /\ UNCHANGED <<layer, sent, wlen, wire, avail, readerVars, harm>>

\* Mutant: poll_flush does not loop until everything is written
FlushedEarly ==
    /\ sender = "flushing"
    /\ wbuf' = <<>>
    /\ wlen' = 0
    /\ sender' = "idle"
    /\ UNCHANGED <<layer, sent, wire, avail, readerVars, harm>>

\* The loop is over: wbuf and wlen are reset
Flushed ==
    /\ sender = "flushing"
    /\ wlen = Len(wbuf)
    /\ wbuf' = <<>>
    /\ wlen' = 0
    /\ sender' = "idle"
    /\ UNCHANGED <<layer, sent, wire, avail, readerVars, harm>>

\* The caller drops the future of send, after a timeout for example.  It can do
\* so only between two polls, that is when poll_write was Pending in the loop.
Abandon ==
    /\ sender = "flushing"
    /\ wlen # Len(wbuf)
    /\ sender' = "idle"
    /\ UNCHANGED <<layer, sent, wbuf, wlen, wire, avail, readerVars, harm>>

(* The network *)

\* n bytes of the oldest chunk become readable; of a record, all or none do
Arrive(n) ==
    /\ wire # <<>>
    /\ n \in 1..Len(Head(wire))
    /\ layer = "secure" => n = Len(Head(wire))
    /\ avail' = avail \o SubSeq(Head(wire), 1, n)
    /\ wire' = IF n = Len(Head(wire)) THEN Tail(wire)
               ELSE [wire EXCEPT ![1] = SubSeq(@, n + 1, Len(@))]
    /\ UNCHANGED <<senderVars, readerVars, harm>>

(* The receiver: poll_next, and read_frame, which it starts afresh each time *)

HasHeader == Len(avail) >= HEADER_LEN

\* The values of the header read_frame has read, if it could read one
NextHeaders == Headers(SubSeq(avail, 1, HEADER_LEN))

HasFrame(h) == Len(avail) >= HEADER_LEN + DecodeHeader(h).len

\* read_u32 or read_exact waits for more.  poll_next returns Pending and drops
\* the future, and with it the bytes the future has read.
PollPartial ==
    /\ reader = "polling" /\ rbuf = <<>>
    /\ avail # <<>>
    /\ HasHeader => \E h \in NextHeaders : ~HasFrame(h)
    /\ avail' = <<>>
    /\ harm' = harm \cup {"cut"}
    /\ UNCHANGED <<senderVars, wire, readerVars>>

\* Mutant: all that can be read is read, and what follows the frame is dropped
PollReadyDropsRest ==
    /\ reader = "polling" /\ rbuf = <<>>
    /\ HasHeader
    /\ \E h \in NextHeaders :
          LET len == DecodeHeader(h).len
              body == SubSeq(avail, HEADER_LEN + 1, HEADER_LEN + len)
              item == DecodeFrame(body, DecodeHeader(h).zipped)
          IN  /\ HasFrame(h)
              /\ received' = Append(received, item)
              /\ rbuf' = IF item = Error THEN body ELSE <<>>
              /\ avail' = <<>>
    /\ UNCHANGED <<senderVars, wire, reader, harm>>

\* A frame is read and decoded.  decode_frame does not advance past a body it
\* cannot decode, which stays in rbuf.
PollReady ==
    /\ reader = "polling" /\ rbuf = <<>>
    /\ HasHeader
    /\ \E h \in NextHeaders :
          LET len == DecodeHeader(h).len
              body == SubSeq(avail, HEADER_LEN + 1, HEADER_LEN + len)
              item == DecodeFrame(body, DecodeHeader(h).zipped)
          IN  /\ HasFrame(h)
              /\ received' = Append(received, item)
              /\ rbuf' = IF item = Error THEN body ELSE <<>>
              /\ avail' = SubSeq(avail, HEADER_LEN + len + 1, Len(avail))
    /\ UNCHANGED <<senderVars, wire, reader, harm>>

\* assert!(self.rbuf.is_empty())
PollPanics ==
    /\ reader = "polling" /\ rbuf # <<>>
    /\ reader' = "panicked"
    /\ UNCHANGED <<senderVars, wire, avail, rbuf, received, harm>>

-----------------------------------------------------------------------------
Writes == \E n \in 1..Len(wbuf) : Write(n)

Arrives == wire # <<>> /\ \E n \in 1..Len(Head(wire)) : Arrive(n)

Polls == PollPartial \/ PollReady \/ PollPanics

\* Nothing is left to write, to arrive or to read
Quiet == sender = "idle" /\ wbuf = <<>> /\ wire = <<>> /\ avail = <<>> /\ rbuf = <<>>

\* The caller sends no more; an abandoned frame may stay unwritten for ever,
\* and what a reader that panicked left stays unread
Finished == /\ Len(sent) = MaxSends /\ sender = "idle" /\ wire = <<>>
            /\ Quiet \/ wbuf # <<>> \/ harm # {}
            /\ UNCHANGED vars

Next == \/ \E m \in Messages : StartSend(m)
        \/ Writes \/ Flushed \/ Abandon
        \/ Arrives
        \/ Polls
        \/ Finished

Spec == Init /\ [][Next]_vars

\* Tokio polls the task that flushes and the task that reads when the socket
\* is ready, and the network delivers what was written.  Nothing makes the
\* caller send, or abandon.
Fairness == WF_vars(Writes) /\ WF_vars(Flushed) /\ WF_vars(Arrives) /\ WF_vars(Polls)

FairSpec == Spec /\ Fairness

-----------------------------------------------------------------------------
(* Properties *)

\* The type of the state; wlen never passes the end of wbuf, which poll_flush
\* slices with it.
TypeOK ==
    /\ layer \in {"tcp", "secure"}
    /\ sent \in Seq(Messages)
    /\ wlen \in 0..Len(wbuf)
    /\ sender \in {"idle", "flushing"}
    /\ \A i \in 1..Len(wire) : wire[i] # <<>>
    /\ \A b \in ToSet(wbuf \o avail \o rbuf) : b.part \in {"header", "body"}
    /\ reader \in {"polling", "panicked"}
    /\ received \in Seq(Messages \cup {Error})
    /\ harm \subseteq {"cut", "stuffed"}

\* The frame of a message, on its own
Frame(m) == EncodedFrame(<<>>, m)

\* What the sender puts on the stream is frame after frame: the bytes still to
\* arrive and those still in wbuf from wlen on are always the end of the frames
\* of what was sent, however few bytes each poll_write takes and whichever
\* sends were abandoned, and whatever the reader has made of what came before.
WireIntact ==
    "stuffed" \notin harm =>
    LET frames == FlattenSeq([i \in 1..Len(sent) |-> Frame(sent[i])])
    IN  IsSuffix(FlattenSeq(wire) \o SubSeq(wbuf, wlen + 1, Len(wbuf)), frames)

\* A frame was neither cut by a read nor stuffed into another one
Unharmed == harm = {}

\* poll_next yields the messages that start_send took, in their order, each
\* once and unaltered, and nothing else, no garbled frame and no decode error:
\* with sends that are abandoned and resumed, and sockets that take and give
\* any number of bytes, as long as no frame comes to one of the two harms.
InOrder == Unharmed => IsPrefix(received, sent)

\* When there is nothing left to write, to arrive or to read, every message
\* that was sent has been received: no byte was lost on the way.
NothingLost == Unharmed /\ Quiet => received = sent

\* SecureStream gives frames out whole: above it no read is ever cut.
NeverCutAboveSecure == layer = "secure" => "cut" \notin harm

\* Every message that is sent is received in the end, if the caller does not
\* abandon the last of its sends.
AllReceived ==
    \A k \in 1..MaxSends :
        Len(sent) >= k ~>
            Len(received) >= k \/ ~Unharmed \/ (sender = "idle" /\ wbuf # <<>>)

\* stream.rs says that rbuf is there "to cache unfinished read": the order
\* holds however the bytes of a frame arrive.
UnfinishedReadIsCached == "stuffed" \notin harm => IsPrefix(received, sent)

\* stream.rs says that wbuf is there "to cache unfinished write": the order
\* holds whatever was in wbuf when a message was sent.
UnfinishedWriteIsCached == "cut" \notin harm => IsPrefix(received, sent)
=============================================================================
