---------------------------- MODULE SecureStream ----------------------------
(***************************************************************************)
(* One direction of a SecureStream: poll_write of one end, the TCP stream  *)
(* below, and poll_read of the other end with its ReadState and the        *)
(* capacity of the BytesMut that collects a record.                        *)
(*                                                                         *)
(* A record is a header with the length of nonce and ciphertext, then the  *)
(* nonce and the ciphertext.  A byte is a token that names its record and  *)
(* its place in it; decryption succeeds on exactly the bytes of a record.  *)
(***************************************************************************)
EXTENDS Integers, Sequences, SequencesExt

CONSTANTS HEADER_LEN,
          Plain,       \* the lengths of plaintext a caller writes
          NONCE_LEN,
          TagLen,      \* what encryption adds to the plaintext
          Chunk,       \* what BytesMut::chunk_mut reserves when there is no room
          MaxRecords   \* bound: records written

ASSUME SecureAssumption ==
    /\ HEADER_LEN \in Nat \ {0}
    /\ Plain \subseteq Nat \ {0}
    /\ NONCE_LEN \in Nat \ {0} /\ TagLen \in Nat
    /\ Chunk \in Nat \ {0}
    /\ MaxRecords \in Nat

VARIABLES
    written,  \* the plaintexts poll_write has taken, by their lengths
    closed,   \* the writer has shut its end down
    wire,     \* bytes taken by the socket and not yet arrived
    avail,    \* bytes the reader's socket holds
    state,    \* ReadState, or "failed" or "panicked"
    header,   \* ReadHeader::buf[..pos]
    total,    \* ReadEncrypted::total
    buf,      \* ReadEncrypted::buf, whose length is pos
    cap,      \* the capacity of that BytesMut
    plain,    \* OutputPlain::data, by the record it is the plaintext of
    pos,      \* OutputPlain::pos
    output,   \* the plaintext bytes the reader has given out
    harm      \* history: what the code does not survive, "torn" a record that
              \* the socket took a part of, "starved" a read that was Pending
              \* inside a record

vars == <<written, closed, wire, avail, state, header, total, buf, cap, plain, pos, output, harm>>
writerVars == <<written, closed>>
bodyVars == <<total, buf, cap>>
plainVars == <<plain, pos>>

-----------------------------------------------------------------------------
(* Records *)

\* Length of nonce and ciphertext of n bytes
total_len(n) == NONCE_LEN + n + TagLen

Header(r, len) == [i \in 1..HEADER_LEN |-> [part |-> "header", of |-> r, at |-> i, len |-> len]]

Body(r, len) == [i \in 1..len |-> [part |-> "body", of |-> r, at |-> i, len |-> len]]

\* put_u32(total_len), put_slice(nonce), put_slice(ciphertext)
Record(r, n) == Header(r, total_len(n)) \o Body(r, total_len(n))

\* u32::from_be_bytes: four bytes that are not one header are some number
Lengths(bytes) ==
    IF \E b \in ToSet(bytes) : b.part = "header" /\ bytes = Header(b.of, b.len)
    THEN {Head(bytes).len}
    ELSE 0..(HEADER_LEN + NONCE_LEN + TagLen)

\* The record whose nonce and ciphertext these bytes are, or 0
Decrypt(bytes) ==
    IF bytes # <<>> /\ bytes = Body(Head(bytes).of, Head(bytes).len) THEN Head(bytes).of ELSE 0

\* The plaintext of record r
Plaintext(r) == [i \in 1..written[r] |-> <<r, i>>]

-----------------------------------------------------------------------------
Init == /\ written = <<>>
        /\ closed = FALSE
        /\ wire = <<>>
        /\ avail = <<>>
        /\ state = "ReadHeader"
        /\ header = <<>>
        /\ total = 0
        /\ buf = <<>>
        /\ cap = 0
        /\ plain = 0
        /\ pos = 0
        /\ output = <<>>
        /\ harm = {}

\* poll_write: one write of the whole record to the stream below, whose count
\* is not looked at; what the socket does not take is never written.
PollWrite(n) ==
    /\ ~closed
    /\ Len(written) < MaxRecords
    /\ written' = Append(written, n)
    /\ LET record == Record(Len(written) + 1, n) IN
       \E k \in 1..Len(record) :
           /\ harm' = IF k < Len(record) THEN harm \cup {"torn"} ELSE harm
           /\ wire' = wire \o SubSeq(record, 1, k)
    /\ UNCHANGED <<closed, avail, state, header, bodyVars, plainVars, output>>

\* poll_shutdown
Shutdown ==
    /\ ~closed
    /\ closed' = TRUE
    /\ UNCHANGED <<written, wire, avail, state, header, bodyVars, plainVars, output, harm>>

Arrive(n) ==
    /\ n \in 1..Len(wire)
    /\ avail' = avail \o SubSeq(wire, 1, n)
    /\ wire' = SubSeq(wire, n + 1, Len(wire))
    /\ UNCHANGED <<writerVars, state, header, bodyVars, plainVars, output, harm>>

-----------------------------------------------------------------------------
(* poll_read: the loop over read_state *)

\* The inner poll_read gives n bytes
Take(n) ==
    /\ n \in 1..Len(avail)
    /\ avail' = SubSeq(avail, n + 1, Len(avail))

\* Mutant: end of file is taken from the close alone
AtEofOnClose == closed /\ wire = <<>>

\* The inner poll_read says end of file
AtEof == closed /\ wire = <<>> /\ avail = <<>>

\* Mutant: the header is read without regard to what is left of it
ReadHeaderWhole(n) ==
    /\ state = "ReadHeader"
    /\ Len(header) < HEADER_LEN
    /\ n <= HEADER_LEN
    /\ Take(n)
    /\ header' = header \o SubSeq(avail, 1, n)
    /\ UNCHANGED <<writerVars, wire, state, bodyVars, plainVars, output, harm>>

ReadHeader(n) ==
    /\ state = "ReadHeader"
    /\ Len(header) < HEADER_LEN
    /\ n <= HEADER_LEN - Len(header)
    /\ Take(n)
    /\ header' = header \o SubSeq(avail, 1, n)
    /\ UNCHANGED <<writerVars, wire, state, bodyVars, plainVars, output, harm>>

\* The header is complete: BytesMut::with_capacity(total)
HeaderDone ==
    /\ state = "ReadHeader"
    /\ Len(header) = HEADER_LEN
    /\ total' \in Lengths(header)
    /\ state' = "ReadEncrypted"
    /\ buf' = <<>>
    /\ cap' = total'
    /\ header' = <<>>
    /\ UNCHANGED <<writerVars, wire, avail, plainVars, output, harm>>

\* Room that tail.chunk_mut() offers behind buf: tail has the capacity behind
\* pos, and if that is none it gets an allocation of its own.
Contiguous == cap > Len(buf)

\* Mutant: tail is always an allocation of its own
RoomOfChunk == Chunk

Room == IF Contiguous THEN cap - Len(buf) ELSE Chunk

\* n bytes are read into tail, buf.unsplit(tail) and buf.advance_mut(n).  An
\* empty buf becomes tail.  A buf with data cannot take a tail from elsewhere
\* and has no room to advance into.
ReadEncrypted(n) ==
    /\ state = "ReadEncrypted"
    /\ Len(buf) < total
    /\ n <= Room
    /\ Take(n)
    /\ IF Contiguous \/ buf = <<>>
       THEN /\ buf' = buf \o SubSeq(avail, 1, n)
            /\ cap' = Len(buf) + Room
            /\ state' = state
       ELSE /\ state' = "panicked"
            /\ UNCHANGED <<buf, cap>>
    /\ UNCHANGED <<writerVars, wire, header, total, plainVars, output, harm>>

\* The inner poll_read is Pending: poll_read returns with tail, and all
\* capacity behind pos, dropped.
EncryptedPending ==
    /\ state = "ReadEncrypted"
    /\ Len(buf) < total
    /\ avail = <<>> /\ ~AtEof
    /\ Contiguous
    /\ cap' = Len(buf)
    /\ harm' = harm \cup {"starved"}
    /\ UNCHANGED <<writerVars, wire, avail, state, header, total, buf, plainVars, output>>

\* All of the record is read: split_at(NONCE_LEN), which panics on less, and
\* decrypt; an error is returned to the caller, who drops the stream.
EncryptedDone ==
    /\ state = "ReadEncrypted"
    /\ Len(buf) >= total
    /\ buf' = <<>>
    /\ plain' = Decrypt(buf)
    /\ pos' = 0
    /\ state' = IF Len(buf) < NONCE_LEN THEN "panicked"
                ELSE IF Decrypt(buf) = 0 THEN "failed"
                ELSE "OutputPlain"
    /\ UNCHANGED <<writerVars, wire, avail, header, total, cap, output, harm>>

\* Mutant: the rest of the plaintext is dropped when the buffer is smaller
OutputPlainOnce(n) ==
    /\ state = "OutputPlain"
    /\ n \in 1..(written[plain] - pos)
    /\ output' = output \o SubSeq(Plaintext(plain), pos + 1, pos + n)
    /\ state' = "ReadHeader" /\ pos' = 0 /\ plain' = 0
    /\ UNCHANGED <<writerVars, wire, avail, header, bodyVars, harm>>

\* Mutant: data[..can_copy] is copied, not data[pos..pos + can_copy]
OutputPlainFromStart(n) ==
    /\ state = "OutputPlain"
    /\ n \in 1..(written[plain] - pos)
    /\ output' = output \o SubSeq(Plaintext(plain), 1, n)
    /\ IF pos + n = written[plain]
       THEN state' = "ReadHeader" /\ pos' = 0 /\ plain' = 0
       ELSE pos' = pos + n /\ UNCHANGED <<state, plain>>
    /\ UNCHANGED <<writerVars, wire, avail, header, bodyVars, harm>>

\* The caller's buffer has room for n bytes; the last of them resets the state
OutputPlain(n) ==
    /\ state = "OutputPlain"
    /\ n \in 1..(written[plain] - pos)
    /\ output' = output \o SubSeq(Plaintext(plain), pos + 1, pos + n)
    /\ IF pos + n = written[plain]
       THEN state' = "ReadHeader" /\ pos' = 0 /\ plain' = 0
       ELSE pos' = pos + n /\ UNCHANGED <<state, plain>>
    /\ UNCHANGED <<writerVars, wire, avail, header, bodyVars, harm>>

\* n = 0: UnexpectedEof, whatever has been read
Eof ==
    /\ \/ state = "ReadHeader" /\ Len(header) < HEADER_LEN
       \/ state = "ReadEncrypted" /\ Len(buf) < total
    /\ AtEof
    /\ state' = "failed"
    /\ UNCHANGED <<writerVars, wire, avail, header, bodyVars, plainVars, output, harm>>

-----------------------------------------------------------------------------
Writer == Shutdown \/ \E n \in Plain : PollWrite(n)

Arrives == \E n \in 1..Len(wire) : Arrive(n)

ReadsHeader == \E n \in 1..Len(avail) : ReadHeader(n)

ReadsEncrypted == \E n \in 1..Len(avail) : ReadEncrypted(n)

Outputs == state = "OutputPlain" /\ \E n \in 1..(written[plain] - pos) : OutputPlain(n)

Reader == \/ ReadsHeader \/ HeaderDone
          \/ ReadsEncrypted \/ EncryptedPending \/ EncryptedDone
          \/ Outputs \/ Eof

\* The stream is closed and the reader has seen it, or has died before
Finished == /\ closed /\ wire = <<>>
            /\ state \in {"failed", "panicked"}
            /\ UNCHANGED vars

Next == Writer \/ Arrives \/ Reader \/ Finished

Spec == Init /\ [][Next]_vars

\* The network delivers what the socket took, and the reader is polled when
\* its socket is readable.  Nothing makes the writer write or close.
Fairness == WF_vars(Arrives) /\ WF_vars(Reader)

FairSpec == Spec /\ Fairness

-----------------------------------------------------------------------------
(* Properties *)

\* The type of the state.
TypeOK ==
    /\ written \in Seq(Plain)
    /\ closed \in BOOLEAN
    /\ state \in {"ReadHeader", "ReadEncrypted", "OutputPlain", "failed", "panicked"}
    /\ Len(header) <= HEADER_LEN
    /\ total \in Nat
    /\ cap \in Nat
    /\ plain \in 0..Len(written)
    /\ harm \subseteq {"torn", "starved"}
    /\ state = "OutputPlain" => plain # 0 /\ pos \in 0..(written[plain] - 1)

\* All plaintext that was written, in order
AllPlaintext == FlattenSeq([r \in 1..Len(written) |-> Plaintext(r)])

\* The reader gives out the plaintext that was written, in order, each byte
\* once, however the caller's buffers cut it.
InOrder == IsPrefix(output, AllPlaintext)

\* The reader fails only at the end of the stream, when it has given out
\* everything, unless a record was torn or a read starved.
FailsOnlyAtEof ==
    state \in {"failed", "panicked"} /\ harm = {} => closed /\ output = AllPlaintext

\* No more is read into buf than the record has left, and what belongs to the
\* next record stays in the socket, unless a record was torn or a read starved.
NoOverread == state = "ReadEncrypted" /\ harm = {} => Len(buf) <= total

\* Everything that poll_write reports as written is given out in the end,
\* unless a record was torn or a read starved.
AllOutput ==
    \A r \in 1..MaxRecords :
        Len(written) >= r ~>
            \/ Len(written) >= r /\ \E k \in 1..Len(output) : output[k] = <<r, written[r]>>
            \/ harm # {}

\* tls.rs says that the state of a read is kept between polls: a read that is
\* Pending inside a record does not make the reader fail.
PendingIsHarmless ==
    state \in {"failed", "panicked"} /\ "torn" \notin harm => closed /\ output = AllPlaintext
=============================================================================
