---------------------------- MODULE Yamux_proofs ----------------------------
(***************************************************************************)
(* Proofs about the multiplexed connection, for any number of streams and  *)
(* frames and any capacities: channels keep their bounds, no frame is lost *)
(* or answered twice, and answers come in order.  A frame goes from one    *)
(* queue of its way to another: what has to be shown of a step is which    *)
(* queue gives its head to which.                                          *)
(***************************************************************************)
EXTENDS Yamux, SequenceTheorems, TLAPS

-----------------------------------------------------------------------------
(* The type of the state *)

LEMMA HeadTailTyped ==
    ASSUME NEW S, NEW q \in Seq(S), q # <<>>
    PROVE  /\ Head(q) \in S /\ Tail(q) \in Seq(S) /\ Len(Tail(q)) = Len(q) - 1
           /\ Len(q) \in Nat \ {0}
           /\ Head(q) = q[1] /\ \A i \in 1..(Len(q) - 1) : Tail(q)[i] = q[i + 1]
OBVIOUS

LEMMA AppendTyped ==
    ASSUME NEW S, NEW q \in Seq(S), NEW e \in S
    PROVE  /\ Append(q, e) \in Seq(S) /\ Len(Append(q, e)) = Len(q) + 1 /\ Len(q) \in Nat
           /\ \A i \in 1..Len(q) : Append(q, e)[i] = q[i]
           /\ Append(q, e)[Len(q) + 1] = e
OBVIOUS

LEMMA Elements ==
    ASSUME NEW S, NEW q \in Seq(S)
    PROVE  DOMAIN q = 1..Len(q) /\ Len(q) \in Nat /\ \A i \in 1..Len(q) : q[i] \in S
OBVIOUS

LEMMA SingleTyped ==
    ASSUME NEW S, NEW e \in S
    PROVE  <<e>> \in Seq(S) /\ Len(<<e>>) = 1 /\ <<e>>[1] = e
OBVIOUS

LEMMA Bounds ==
    /\ MaxStreams \in Nat /\ MaxWrites \in Nat
    /\ ConnCap \in Nat \ {0} /\ StreamCap \in Nat \ {0} /\ NetCap \in Nat \ {0}
BY YamuxAssumption

\* Identifiers of the client are odd.
LEMMA NextIdentifier ==
    ASSUME NEW n \in {2 * i + 1 : i \in 0..MaxStreams}, n \in Streams
    PROVE  n + 2 \in {2 * i + 1 : i \in 0..MaxStreams}
<1>1. MaxStreams \in Nat
    BY YamuxAssumption
<1>2. PICK i \in 0..MaxStreams : n = 2 * i + 1
    OBVIOUS
<1>3. PICK j \in 1..MaxStreams : n = 2 * j - 1
    BY DEF Streams
<1>4. j \in 0..MaxStreams /\ n + 2 = 2 * j + 1
    BY <1>1, <1>3
<1> QED BY <1>4

\* A frame has the stream it belongs to and a number.
LEMMA FramePair ==
    ASSUME NEW f \in Frames
    PROVE  f[1] \in Streams /\ f[2] \in 1..MaxWrites /\ f = <<f[1], f[2]>>
BY DEF Frames

\* The types of the queues
Queued == /\ held \in Seq(Frames) /\ outbox \in Seq(Frames) /\ toServer \in Seq(Frames)
          /\ waiting \in Seq(Frames) /\ granted \in Seq(Frames) /\ replies \in Seq(Frames)
          /\ toClient \in Seq(Frames)
          /\ got \in [Streams -> Seq(1..MaxWrites)] /\ inbox \in [Streams -> Seq(1..MaxWrites)]

\* TypeOK, with a conjunct for each variable
Typed == /\ Queued
         /\ next_id \in {2 * i + 1 : i \in 0..MaxStreams}
         /\ tx_to_logic \subseteq Streams
         /\ reader \in {"opening", "reading", "ended", "panicked"}
         /\ user \in [Streams -> {"none", "idle", "reading", "gone"}]
         /\ written \in [Streams -> 0..MaxWrites]
         /\ Len(held) <= 1
         /\ Len(outbox) <= ConnCap
         /\ Len(replies) + Len(granted) <= ConnCap
         /\ \A s \in Streams : Len(inbox[s]) <= StreamCap
         /\ waited \in BOOLEAN /\ lost \in BOOLEAN

LEMMA TypedIsType == Typed => TypeOK
BY DEF TypeOK, Typed, Queued

LEMMA InitType == Init => Typed
<1> SUFFICES ASSUME Init PROVE Typed
    OBVIOUS
<1>1. 1 \in {2 * i + 1 : i \in 0..MaxStreams}
    <2>1. 0 \in 0..MaxStreams /\ 1 = 2 * 0 + 1
        BY Bounds
    <2> QED BY <2>1
<1>2. /\ written \in [Streams -> 0..MaxWrites]
      /\ got \in [Streams -> Seq(1..MaxWrites)] /\ inbox \in [Streams -> Seq(1..MaxWrites)]
    BY Bounds DEF Init
<1>3. \A s \in Streams : Len(inbox[s]) <= StreamCap
    BY Bounds DEF Init
<1>4. Queued
    <2>1. <<>> \in Seq(Frames)
        OBVIOUS
    <2> QED BY <1>2, <2>1 DEF Init, Queued
<1>5. /\ Len(held) <= 1 /\ Len(outbox) <= ConnCap
      /\ Len(replies) + Len(granted) <= ConnCap
    BY Bounds DEF Init
<1> QED BY <1>1, <1>2, <1>3, <1>4, <1>5 DEF Init, Typed

LEMMA StepType ==
    ASSUME Typed, [Next]_vars
    PROVE  Typed'
<1>0. Queued
    BY DEF Typed
<1>1. CASE OpenStream
    <2>1. next_id' \in {2 * i + 1 : i \in 0..MaxStreams}
        BY <1>1, NextIdentifier DEF OpenStream, Typed, Queued
    <2> QED BY <1>1, <2>1 DEF OpenStream, Typed, Queued, serverVars
<1>2. CASE StartReadLoop
    BY <1>2 DEF StartReadLoop, Typed, Queued, serverVars
<1>3. ASSUME NEW s \in Streams, Write(s)
      PROVE  Typed'
    <2>1. written[s] + 1 \in 1..MaxWrites
        <3>1. written[s] \in 0..MaxWrites /\ written[s] < MaxWrites
            BY <1>3 DEF Write, Typed
        <3> QED BY <3>1, Bounds
    <2>2. outbox' \in Seq(Frames) /\ Len(outbox') = Len(outbox) + 1 /\ Len(outbox) \in Nat
        <3>1. <<s, written[s] + 1>> \in Frames
            BY <2>1 DEF Frames
        <3> QED BY <1>0, <1>3, <3>1, AppendTyped DEF Write, Queued
    <2>3. written' \in [Streams -> 0..MaxWrites]
        <3>1. written \in [Streams -> 0..MaxWrites] /\ written' = [written EXCEPT ![s] = written[s] + 1]
            BY <1>3 DEF Write, Typed
        <3>2. written[s] + 1 \in 0..MaxWrites
            BY <2>1
        <3> QED BY <3>1, <3>2
    <2>4. Len(outbox') <= ConnCap
        <3>1. Len(outbox) < ConnCap
            BY <1>3 DEF Write
        <3> QED BY <2>2, <3>1, Bounds
    <2>5. UNCHANGED <<next_id, tx_to_logic, reader, held, user, got, inbox, toServer, toClient,
                      serverVars>>
        BY <1>3 DEF Write
    <2> QED BY <2>2, <2>3, <2>4, <2>5 DEF Typed, Queued, serverVars
<1>4. ASSUME NEW s \in Streams, StartRead(s)
      PROVE  Typed'
    BY <1>4 DEF StartRead, Typed, Queued, serverVars
<1>5. ASSUME NEW s \in Streams, Read(s)
      PROVE  Typed'
    <2>1. /\ Head(inbox[s]) \in 1..MaxWrites /\ Tail(inbox[s]) \in Seq(1..MaxWrites)
          /\ Len(Tail(inbox[s])) = Len(inbox[s]) - 1 /\ Len(inbox[s]) \in Nat
        BY <1>0, <1>5, HeadTailTyped DEF Read, Queued
    <2>2. Append(got[s], Head(inbox[s])) \in Seq(1..MaxWrites)
        BY <1>0, <2>1, AppendTyped DEF Queued
    <2>3. got' \in [Streams -> Seq(1..MaxWrites)] /\ inbox' \in [Streams -> Seq(1..MaxWrites)]
        BY <1>0, <1>5, <2>1, <2>2 DEF Read, Queued
    <2>4. ASSUME NEW r \in Streams PROVE Len(inbox'[r]) <= StreamCap
        <3>1. inbox'[r] = IF r = s THEN Tail(inbox[s]) ELSE inbox[r]
            BY <1>0, <1>5 DEF Read, Queued
        <3>2. Len(inbox[r]) <= StreamCap /\ Len(inbox[s]) <= StreamCap
            BY DEF Typed
        <3>3. Len(inbox[s]) - 1 <= StreamCap
            BY <2>1, <3>2, Bounds
        <3> QED BY <2>1, <3>1, <3>2, <3>3
    <2> QED BY <1>5, <2>3, <2>4 DEF Read, Typed, Queued, serverVars
<1>6. ASSUME NEW s \in Streams, Leave(s)
      PROVE  Typed'
    <2>1. inbox' \in [Streams -> Seq(1..MaxWrites)] /\ \A r \in Streams : Len(inbox'[r]) <= StreamCap
        <3>1. inbox' = [inbox EXCEPT ![s] = <<>>] /\ inbox \in [Streams -> Seq(1..MaxWrites)]
            BY <1>0, <1>6 DEF Leave, Queued
        <3>2. <<>> \in Seq(1..MaxWrites) /\ Len(<<>>) <= StreamCap
            BY Bounds
        <3>3. \A r \in Streams : Len(inbox[r]) <= StreamCap
            BY DEF Typed
        <3> QED BY <3>1, <3>2, <3>3
    <2> QED BY <1>6, <2>1 DEF Leave, Typed, Queued, serverVars
<1>7. CASE ClientWrites
    <2>1. /\ Head(outbox) \in Frames /\ outbox' \in Seq(Frames)
          /\ Len(outbox') = Len(outbox) - 1 /\ Len(outbox) \in Nat
        BY <1>0, <1>7, HeadTailTyped DEF ClientWrites, Queued
    <2>2. toServer' \in Seq(Frames)
        BY <1>0, <1>7, <2>1, AppendTyped DEF ClientWrites, Queued
    <2>3. Len(outbox') <= ConnCap
        <3>1. Len(outbox) <= ConnCap
            BY DEF Typed
        <3> QED BY <2>1, <3>1, Bounds
    <2>4. UNCHANGED <<clientVars, toClient, serverVars>>
        BY <1>7 DEF ClientWrites
    <2> QED BY <2>1, <2>2, <2>3, <2>4 DEF Typed, Queued, serverVars, clientVars
<1>8. CASE ReadFrame
    <2>1. Head(toClient) \in Frames /\ toClient' \in Seq(Frames)
        BY <1>0, <1>8, HeadTailTyped DEF ReadFrame, Queued
    <2>2. held' \in Seq(Frames) /\ Len(held') <= 1
        <3> DEFINE one == <<Head(toClient)>>
                   none == <<>>
        <3>1. one \in Seq(Frames) /\ Len(one) <= 1
            BY <2>1, SingleTyped
        <3>2. held' = one \/ held' = none
            BY <1>8 DEF ReadFrame
        <3>3. none \in Seq(Frames) /\ Len(none) <= 1
            OBVIOUS
        <3> HIDE DEF one, none
        <3> QED BY <3>1, <3>2, <3>3
    <2>3. reader' \in {"opening", "reading", "ended", "panicked"}
        BY <1>8 DEF ReadFrame, Typed, Queued
    <2> QED BY <1>8, <2>1, <2>2, <2>3 DEF ReadFrame, Typed, Queued, serverVars
<1>9. CASE Dispatch
    <2> DEFINE s == Head(held)[1]
    <2>1. Head(held) \in Frames
        BY <1>0, <1>9, HeadTailTyped DEF Dispatch, Queued
    <2>2. s \in Streams /\ Head(held)[2] \in 1..MaxWrites
        BY <2>1, FramePair
    <2> HIDE DEF s
    <2>3. \/ inbox' = inbox
          \/ Len(inbox[s]) < StreamCap /\ inbox' = [inbox EXCEPT ![s] = Append(inbox[s], Head(held)[2])]
        BY <1>9 DEF Dispatch, s
    <2>4. /\ Append(inbox[s], Head(held)[2]) \in Seq(1..MaxWrites)
          /\ Len(Append(inbox[s], Head(held)[2])) = Len(inbox[s]) + 1 /\ Len(inbox[s]) \in Nat
        BY <1>0, <2>2, AppendTyped DEF Queued
    <2>5. inbox' \in [Streams -> Seq(1..MaxWrites)] /\ \A r \in Streams : Len(inbox'[r]) <= StreamCap
        <3>1. inbox \in [Streams -> Seq(1..MaxWrites)] /\ \A r \in Streams : Len(inbox[r]) <= StreamCap
            BY DEF Typed, Queued
        <3> DEFINE q == Append(inbox[s], Head(held)[2])
        <3>2. Len(inbox[s]) < StreamCap => Len(q) <= StreamCap
            BY <2>4, Bounds
        <3>3. q \in Seq(1..MaxWrites)
            BY <2>4
        <3>4. inbox' = inbox \/ (Len(inbox[s]) < StreamCap /\ inbox' = [inbox EXCEPT ![s] = q])
            BY <2>3
        <3> HIDE DEF q
        <3> QED BY <2>2, <3>1, <3>2, <3>3, <3>4
    <2>6. held' \in Seq(Frames) /\ Len(held') <= 1
        BY <1>9 DEF Dispatch
    <2>7. UNCHANGED <<next_id, tx_to_logic, reader, user, written, got, outbox, toServer, toClient, serverVars>>
        BY <1>9 DEF Dispatch
    <2> QED BY <2>5, <2>6, <2>7 DEF Typed, Queued, serverVars
<1>10. CASE Accept
    <2>1. Head(toServer) \in Frames /\ toServer' \in Seq(Frames)
        BY <1>0, <1>10, HeadTailTyped DEF Accept, Queued
    <2>2. /\ Append(replies, Head(toServer)) \in Seq(Frames)
          /\ Len(Append(replies, Head(toServer))) = Len(replies) + 1
          /\ Append(waiting, Head(toServer)) \in Seq(Frames)
          /\ Len(replies) \in Nat /\ Len(granted) \in Nat
        BY <1>0, <2>1, AppendTyped DEF Queued
    <2>3. /\ replies' \in Seq(Frames) /\ waiting' \in Seq(Frames) /\ waited' \in BOOLEAN
          /\ Len(replies') + Len(granted) <= ConnCap
        <3>1. /\ Len(replies) + Len(granted) <= ConnCap /\ waited \in BOOLEAN
              /\ replies \in Seq(Frames) /\ waiting \in Seq(Frames)
            BY DEF Typed, Queued
        <3>2. CASE Free > 0
            <4>1. replies' = Append(replies, Head(toServer)) /\ UNCHANGED <<waiting, waited>>
                BY <1>10, <3>2 DEF Accept
            <4>2. Len(replies) + 1 + Len(granted) <= ConnCap
                BY <2>2, <3>1, <3>2, Bounds DEF Free
            <4> QED BY <2>2, <3>1, <4>1, <4>2
        <3>3. CASE ~(Free > 0)
            BY <1>10, <2>2, <3>1, <3>3 DEF Accept
        <3> QED BY <3>2, <3>3
    <2> QED BY <1>10, <2>1, <2>3 DEF Accept, Typed, Queued, clientVars
<1>11. CASE AcceptPart
    BY <1>11 DEF AcceptPart, Typed, Queued, clientVars
<1>12. CASE Reply
    <2>1. /\ Head(granted) \in Frames /\ granted' \in Seq(Frames)
          /\ Len(granted') = Len(granted) - 1 /\ Len(granted) \in Nat
        BY <1>0, <1>12, HeadTailTyped DEF Reply, Queued
    <2>2. replies' \in Seq(Frames) /\ Len(replies') = Len(replies) + 1 /\ Len(replies) \in Nat
        BY <1>0, <1>12, <2>1, AppendTyped DEF Reply, Queued
    <2> QED BY <1>12, <2>1, <2>2, SMTT(30) DEF Reply, Typed, Queued, clientVars
<1>13. CASE ServerWrites
    <2>1. /\ Head(replies) \in Frames /\ replies' \in Seq(Frames)
          /\ Len(replies') = Len(replies) - 1 /\ Len(replies) \in Nat
        BY <1>0, <1>13, HeadTailTyped DEF ServerWrites, Queued
    <2>2. toClient' \in Seq(Frames)
        BY <1>0, <1>13, <2>1, AppendTyped DEF ServerWrites, Queued
    <2>3. /\ granted' \in Seq(Frames) /\ waiting' \in Seq(Frames)
          /\ Len(granted') <= Len(granted) + 1 /\ Len(granted) \in Nat /\ Len(granted') \in Nat
        <3>1. CASE waiting = <<>>
            BY <1>0, <1>13, <3>1 DEF ServerWrites, Queued
        <3>2. CASE waiting # <<>>
            <4>1. Head(waiting) \in Frames /\ waiting' \in Seq(Frames)
                BY <1>0, <1>13, <3>2, HeadTailTyped DEF ServerWrites, Queued
            <4>2. granted' = Append(granted, Head(waiting))
                BY <1>13, <3>2 DEF ServerWrites
            <4>3. granted' \in Seq(Frames) /\ Len(granted') = Len(granted) + 1 /\ Len(granted) \in Nat
                BY <1>0, <4>1, <4>2, AppendTyped DEF Queued
            <4> QED BY <4>1, <4>3
        <3> QED BY <3>1, <3>2
    <2>4. Len(replies') + Len(granted') <= ConnCap
        BY <2>1, <2>3, Bounds DEF Typed
    <2>5. UNCHANGED <<next_id, tx_to_logic, reader, held, user, written, got, inbox, outbox, toServer, waited, lost>>
        BY <1>13 DEF ServerWrites, clientVars
    <2> QED BY <2>1, <2>2, <2>3, <2>4, <2>5 DEF Typed, Queued
<1>14. CASE Finished \/ UNCHANGED vars
    <2>1. UNCHANGED vars
        BY <1>14 DEF Finished
    <2> QED BY <2>1 DEF vars, Typed, Queued
<1> QED BY <1>1, <1>2, <1>3, <1>4, <1>5, <1>6, <1>7, <1>8, <1>9, <1>10, <1>11, <1>12, <1>13, <1>14
        DEF Next, User, ReadLoop, Inbound

\* The state always has its type, channels keep their capacity and the
\* identifiers of the client are odd, for any number of streams and frames.
THEOREM TypeCorrect == Spec => []TypeOK
BY InitType, StepType, TypedIsType, PTL DEF Spec

-----------------------------------------------------------------------------
(* Ways: nine queues, the nearest to the reader first *)

Ways == [1..9 -> Seq(Frames)]

\* The frame at place i of queue q is number n of stream s.
At(W, q, i, s, n) == q \in 1..9 /\ i \in 1..Len(W[q]) /\ W[q][i] = <<s, n>>

\* The frames of s on the way W have the numbers N, each at one place.
Exactly(W, s, N) ==
    /\ \A q, i \in Nat : \A n : At(W, q, i, s, n) => n \in N
    /\ \A n \in N : \E q, i \in Nat : At(W, q, i, s, n)
    /\ \A q, i, p, j \in Nat : \A n : At(W, q, i, s, n) /\ At(W, p, j, s, n) => q = p /\ i = j

\* They are in the order of their numbers.
Sorted(W, s) ==
    \A q, i, p, j \in Nat : \A m, n :
        At(W, q, i, s, m) /\ At(W, p, j, s, n) /\ (q < p \/ (q = p /\ i < j)) => m < n

\* The head of queue a leaves the way.
Drops(W, V, a) == W[a] # <<>> /\ V[a] = Tail(W[a]) /\ \A q \in (1..9) \ {a} : V[q] = W[q]

\* A frame enters queue b.
Adds(W, V, b, f) == V[b] = Append(W[b], f) /\ \A q \in (1..9) \ {b} : V[q] = W[q]

\* The head of queue a goes to the end of queue b.
Moves(W, V, a, b) == /\ W[a] # <<>> /\ a # b
                     /\ V[a] = Tail(W[a]) /\ V[b] = Append(W[b], Head(W[a]))
                     /\ \A q \in (1..9) \ {a, b} : V[q] = W[q]

LEMMA QueueOf ==
    ASSUME NEW W \in Ways, NEW q \in 1..9
    PROVE  W[q] \in Seq(Frames) /\ Len(W[q]) \in Nat
<1>1. W[q] \in Seq(Frames)
    BY DEF Ways
<1> QED BY <1>1, Elements

LEMMA AtNat ==
    ASSUME NEW W \in Ways, NEW q, NEW i, NEW s, NEW n, At(W, q, i, s, n)
    PROVE  q \in Nat /\ i \in Nat \ {0} /\ q \in 1..9 /\ i <= Len(W[q])
BY QueueOf DEF At

LEMMA PairParts ==
    ASSUME NEW f \in Frames, NEW s
    PROVE  \A n : f = <<s, n>> <=> f[1] = s /\ f[2] = n
BY DEF Frames

\* Where the frames of s are when f, the head of queue a, is gone
Dropped(W, V, a, s, f) ==
    /\ \A q, i \in Nat : \A n : q # a => (At(V, q, i, s, n) <=> At(W, q, i, s, n))
    /\ \A i \in Nat : \A n : At(V, a, i, s, n) <=> i # 0 /\ At(W, a, i + 1, s, n)
    /\ \A n : At(W, a, 1, s, n) <=> f[1] = s /\ f[2] = n
    /\ \A n : ~At(W, a, 0, s, n)

LEMMA DropPlaces ==
    ASSUME NEW W \in Ways, NEW V \in Ways, NEW a \in 1..9, NEW s, NEW f \in Frames,
           f = Head(W[a]), Drops(W, V, a)
    PROVE  Dropped(W, V, a, s, f)
<1>1. W[a] \in Seq(Frames) /\ W[a] # <<>> /\ V[a] = Tail(W[a])
    BY QueueOf DEF Drops
<1>2. /\ Len(V[a]) = Len(W[a]) - 1 /\ Len(W[a]) \in Nat \ {0} /\ Head(W[a]) = W[a][1]
      /\ \A i \in 1..(Len(W[a]) - 1) : V[a][i] = W[a][i + 1]
    BY <1>1, HeadTailTyped
<1> DEFINE x == W[a]
           y == V[a]
<1>3. /\ Len(y) = Len(x) - 1 /\ Len(x) \in Nat \ {0} /\ Head(x) = x[1]
      /\ \A i \in 1..(Len(x) - 1) : y[i] = x[i + 1]
    BY <1>2
<1>4. ASSUME NEW q \in Nat, NEW i \in Nat, NEW n, q # a
      PROVE  At(V, q, i, s, n) <=> At(W, q, i, s, n)
    <2>1. q \in 1..9 => V[q] = W[q]
        BY <1>4 DEF Drops
    <2> QED BY <2>1 DEF At
<1>5. \A i, n : At(V, a, i, s, n) <=> i \in 1..Len(y) /\ y[i] = <<s, n>>
    BY DEF At
<1>6. \A i, n : At(W, a, i, s, n) <=> i \in 1..Len(x) /\ x[i] = <<s, n>>
    BY DEF At
<1>7. Head(W[a]) = Head(x)
    OBVIOUS
<1> HIDE DEF x, y
<1>8. ASSUME NEW i \in Nat, NEW n
      PROVE  At(V, a, i, s, n) <=> i # 0 /\ At(W, a, i + 1, s, n)
    <2>1. i \in 1..Len(y) <=> i # 0 /\ i + 1 \in 1..Len(x)
        BY <1>3
    <2>2. i \in 1..Len(y) => y[i] = x[i + 1]
        BY <1>3
    <2> QED BY <1>5, <1>6, <2>1, <2>2
<1>9. 1 \in 1..Len(x) /\ 0 \notin 1..Len(x)
    BY <1>3
<1>10. \A n : At(W, a, 1, s, n) <=> f[1] = s /\ f[2] = n
    <2>1. x[1] = f
        BY <1>3, <1>7
    <2>2. \A n : At(W, a, 1, s, n) <=> f = <<s, n>>
        BY <1>6, <1>9, <2>1
    <2> QED BY <2>2, PairParts
<1>11. \A n : ~At(W, a, 0, s, n)
    BY <1>6, <1>9
<1> QED BY <1>4, <1>8, <1>10, <1>11 DEF Dropped

\* Where the frames of s are when f has entered queue b
Added(W, V, b, s, f) ==
    \E new \in Nat :
        /\ \A q, i \in Nat : \A n :
              At(V, q, i, s, n) <=> \/ At(W, q, i, s, n)
                                    \/ q = b /\ i = new /\ f[1] = s /\ f[2] = n
        /\ \A i \in Nat : \A n : At(W, b, i, s, n) => i < new

LEMMA AddPlaces ==
    ASSUME NEW W \in Ways, NEW V \in Ways, NEW b \in 1..9, NEW f \in Frames, NEW s,
           Adds(W, V, b, f)
    PROVE  Added(W, V, b, s, f)
<1>1. W[b] \in Seq(Frames) /\ V[b] = Append(W[b], f)
    BY QueueOf DEF Adds
<1> DEFINE x == W[b]
           y == V[b]
           new == Len(x) + 1
<1>2. /\ Len(y) = Len(x) + 1 /\ Len(x) \in Nat /\ y[Len(x) + 1] = f
      /\ \A i \in 1..Len(x) : y[i] = x[i]
    BY <1>1, AppendTyped
<1>3. ASSUME NEW q \in Nat, NEW i \in Nat, NEW n, q # b
      PROVE  At(V, q, i, s, n) <=> At(W, q, i, s, n)
    <2>1. q \in 1..9 => V[q] = W[q]
        BY <1>3 DEF Adds
    <2> QED BY <2>1 DEF At
<1>4. \A i, n : At(V, b, i, s, n) <=> i \in 1..Len(y) /\ y[i] = <<s, n>>
    BY DEF At
<1>5. \A i, n : At(W, b, i, s, n) <=> i \in 1..Len(x) /\ x[i] = <<s, n>>
    BY DEF At
<1> HIDE DEF x, y
<1>6. ASSUME NEW i \in Nat, NEW n
      PROVE  At(V, b, i, s, n) <=> At(W, b, i, s, n) \/ (i = new /\ f = <<s, n>>)
    <2>1. i \in 1..Len(y) <=> i \in 1..Len(x) \/ i = new
        BY <1>2
    <2>2. i \in 1..Len(x) => y[i] = x[i] /\ i # new
        BY <1>2
    <2>3. i = new => y[i] = f
        BY <1>2
    <2> QED BY <1>4, <1>5, <2>1, <2>2, <2>3
<1>7. \A i \in 1..Len(x) : i < new
    BY <1>2
<1>8. new \in Nat
    BY <1>2
<1> HIDE DEF new
<1>9. ASSUME NEW q \in Nat, NEW i \in Nat, NEW n
      PROVE  At(V, q, i, s, n) <=> \/ At(W, q, i, s, n)
                                   \/ q = b /\ i = new /\ f[1] = s /\ f[2] = n
    <2>1. f = <<s, n>> <=> f[1] = s /\ f[2] = n
        BY PairParts
    <2> QED BY <1>3, <1>6, <2>1
<1>10. \A i \in Nat : \A n : At(W, b, i, s, n) => i < new
    BY <1>5, <1>7
<1> QED BY <1>8, <1>9, <1>10 DEF Added

LEMMA DropExactly ==
    ASSUME NEW W \in Ways, NEW V \in Ways, NEW a \in 1..9, NEW s, NEW N, NEW f \in Frames,
           f = Head(W[a]), Drops(W, V, a), Exactly(W, s, N)
    PROVE  Exactly(V, s, IF f[1] = s THEN N \ {f[2]} ELSE N)
<1> DEFINE M == IF f[1] = s THEN N \ {f[2]} ELSE N
<1>p. Dropped(W, V, a, s, f)
    BY DropPlaces
<1>0. /\ \A q, i \in Nat : \A n : q # a => (At(V, q, i, s, n) <=> At(W, q, i, s, n))
      /\ \A i \in Nat : \A n : At(V, a, i, s, n) <=> i # 0 /\ At(W, a, i + 1, s, n)
      /\ \A n : At(W, a, 1, s, n) <=> f[1] = s /\ f[2] = n
      /\ \A n : ~At(W, a, 0, s, n)
    BY <1>p DEF Dropped
<1>1. /\ \A q, i \in Nat : \A n : At(W, q, i, s, n) => n \in N
      /\ \A n \in N : \E q, i \in Nat : At(W, q, i, s, n)
      /\ \A q, i, p, j \in Nat : \A n : At(W, q, i, s, n) /\ At(W, p, j, s, n) => q = p /\ i = j
    BY DEF Exactly
<1>2. a \in Nat /\ 1 \in Nat /\ \A i \in Nat : i + 1 \in Nat /\ i + 1 # 0
    OBVIOUS
<1>3. ASSUME NEW q \in Nat, NEW i \in Nat, NEW n, At(V, q, i, s, n)
      PROVE  n \in M
    <2>1. n \in N
        BY <1>0, <1>1, <1>2, <1>3
    <2>2. ~(f[1] = s /\ f[2] = n)
        <3>1. SUFFICES ASSUME At(W, a, 1, s, n) PROVE FALSE
            BY <1>0
        <3>2. CASE q = a
            <4>1. At(W, a, i + 1, s, n) /\ i # 0 /\ i + 1 \in Nat
                BY <1>0, <1>2, <1>3, <3>2
            <4>2. i + 1 = 1
                BY <1>1, <1>2, <3>1, <4>1
            <4> QED BY <4>1, <4>2
        <3>3. CASE q # a
            BY <1>0, <1>1, <1>2, <1>3, <3>1, <3>3
        <3> QED BY <3>2, <3>3
    <2> QED BY <2>1, <2>2
<1>4. ASSUME NEW n \in M
      PROVE  \E q, i \in Nat : At(V, q, i, s, n)
    <2>1. PICK q \in Nat, j \in Nat : At(W, q, j, s, n)
        BY <1>1
    <2>2. CASE q = a
        <3>1. j # 0 /\ j # 1
            BY <1>0, <2>1, <2>2
        <3>2. PICK i \in Nat : i # 0 /\ j = i + 1
            <4>1. j - 1 \in Nat /\ j - 1 # 0 /\ j = (j - 1) + 1
                BY <3>1
            <4> QED BY <4>1
        <3>3. At(V, a, i, s, n)
            BY <1>0, <2>1, <2>2, <3>2
        <3> QED BY <1>2, <3>3
    <2>3. CASE q # a
        BY <1>0, <2>1, <2>3
    <2> QED BY <2>2, <2>3
<1>5. ASSUME NEW q \in Nat, NEW i \in Nat, NEW p \in Nat, NEW j \in Nat, NEW n,
             At(V, q, i, s, n), At(V, p, j, s, n)
      PROVE  q = p /\ i = j
    <2>1. PICK k \in Nat : At(W, q, k, s, n) /\ k = IF q = a THEN i + 1 ELSE i
        BY <1>0, <1>2, <1>5
    <2>2. PICK l \in Nat : At(W, p, l, s, n) /\ l = IF p = a THEN j + 1 ELSE j
        BY <1>0, <1>2, <1>5
    <2>3. q = p /\ k = l
        BY <1>1, <2>1, <2>2
    <2> QED BY <2>1, <2>2, <2>3
<1> HIDE DEF M
<1>6. Exactly(V, s, M)
    BY <1>3, <1>4, <1>5 DEF Exactly
<1> QED BY <1>6 DEF M

LEMMA AddExactly ==
    ASSUME NEW W \in Ways, NEW V \in Ways, NEW b \in 1..9, NEW f \in Frames, NEW s, NEW N,
           Adds(W, V, b, f), Exactly(W, s, N), f[1] = s => f[2] \notin N
    PROVE  Exactly(V, s, IF f[1] = s THEN N \cup {f[2]} ELSE N)
<1> DEFINE M == IF f[1] = s THEN N \cup {f[2]} ELSE N
<1>p. Added(W, V, b, s, f)
    BY AddPlaces
<1>0. PICK new \in Nat :
          \A q, i \in Nat : \A n :
              At(V, q, i, s, n) <=> \/ At(W, q, i, s, n)
                                    \/ q = b /\ i = new /\ f[1] = s /\ f[2] = n
    BY <1>p DEF Added
<1>1. /\ \A q, i \in Nat : \A n : At(W, q, i, s, n) => n \in N
      /\ \A n \in N : \E q, i \in Nat : At(W, q, i, s, n)
      /\ \A q, i, p, j \in Nat : \A n : At(W, q, i, s, n) /\ At(W, p, j, s, n) => q = p /\ i = j
    BY DEF Exactly
<1>2. b \in Nat
    OBVIOUS
<1>3. ASSUME NEW q \in Nat, NEW i \in Nat, NEW n, At(V, q, i, s, n)
      PROVE  n \in M
    BY <1>0, <1>1, <1>3
<1>4. ASSUME NEW n \in M
      PROVE  \E q, i \in Nat : At(V, q, i, s, n)
    <2>1. CASE n \in N
        BY <1>0, <1>1, <2>1
    <2>2. CASE n \notin N
        <3>1. f[1] = s /\ f[2] = n
            BY <2>2
        <3>2. At(V, b, new, s, n)
            BY <1>0, <1>2, <3>1
        <3> QED BY <1>2, <3>2
    <2> QED BY <2>1, <2>2
<1>5. ASSUME NEW q \in Nat, NEW i \in Nat, NEW p \in Nat, NEW j \in Nat, NEW n,
             At(V, q, i, s, n), At(V, p, j, s, n)
      PROVE  q = p /\ i = j
    BY <1>0, <1>1, <1>5
<1> HIDE DEF M
<1>6. Exactly(V, s, M)
    BY <1>3, <1>4, <1>5 DEF Exactly
<1> QED BY <1>6 DEF M

LEMMA MoveSplits ==
    ASSUME NEW W \in Ways, NEW V \in Ways, NEW a \in 1..9, NEW b \in 1..9, Moves(W, V, a, b)
    PROVE  \E U \in Ways : Drops(W, U, a) /\ Adds(U, V, b, Head(W[a])) /\ Head(W[a]) \in Frames
<1> DEFINE U == [W EXCEPT ![a] = Tail(W[a])]
<1>1. W[a] \in Seq(Frames) /\ W[a] # <<>>
    BY DEF Ways, Moves
<1>2. Tail(W[a]) \in Seq(Frames) /\ Head(W[a]) \in Frames
    BY <1>1, HeadTailTyped
<1>3. U \in Ways /\ U[a] = Tail(W[a]) /\ \A q \in (1..9) \ {a} : U[q] = W[q]
    BY <1>2 DEF Ways
<1>4. Drops(W, U, a)
    BY <1>1, <1>3 DEF Drops
<1>5. Adds(U, V, b, Head(W[a]))
    BY <1>3 DEF Adds, Moves
<1> QED BY <1>2, <1>3, <1>4, <1>5

\* A frame that goes from queue to queue is neither lost nor doubled.
LEMMA MoveExactly ==
    ASSUME NEW W \in Ways, NEW V \in Ways, NEW a \in 1..9, NEW b \in 1..9, NEW s, NEW N,
           Moves(W, V, a, b), Exactly(W, s, N)
    PROVE  Exactly(V, s, N)
<1>1. PICK U \in Ways : Drops(W, U, a) /\ Adds(U, V, b, Head(W[a])) /\ Head(W[a]) \in Frames
    BY MoveSplits
<1>2. PICK f \in Frames : f = Head(W[a])
    BY <1>1
<1> DEFINE M == IF f[1] = s THEN N \ {f[2]} ELSE N
<1>3. Exactly(U, s, M)
    BY <1>1, <1>2, DropExactly
<1>4. f[1] = s => f[2] \in N
    <2>1. a \in Nat /\ 1 \in Nat
        OBVIOUS
    <2>2. Dropped(W, U, a, s, f)
        BY <1>1, <1>2, DropPlaces
    <2>3. f[1] = s => At(W, a, 1, s, f[2])
        BY <2>2 DEF Dropped
    <2> QED BY <2>1, <2>3 DEF Exactly
<1>5. f[1] = s => f[2] \notin M
    OBVIOUS
<1>6. (IF f[1] = s THEN M \cup {f[2]} ELSE M) = N
    BY <1>4
<1> HIDE DEF M
<1>7. Exactly(V, s, IF f[1] = s THEN M \cup {f[2]} ELSE M)
    BY <1>1, <1>2, <1>3, <1>5, AddExactly
<1> QED BY <1>6, <1>7

LEMMA DropSorted ==
    ASSUME NEW W \in Ways, NEW V \in Ways, NEW a \in 1..9, NEW s, NEW f \in Frames,
           f = Head(W[a]), Drops(W, V, a), Sorted(W, s)
    PROVE  Sorted(V, s)
<1>p. Dropped(W, V, a, s, f)
    BY DropPlaces
<1>0. /\ \A q, i \in Nat : \A n : q # a => (At(V, q, i, s, n) <=> At(W, q, i, s, n))
      /\ \A i \in Nat : \A n : At(V, a, i, s, n) <=> i # 0 /\ At(W, a, i + 1, s, n)
    BY <1>p DEF Dropped
<1>1. \A q, i, p, j \in Nat : \A m, n :
          At(W, q, i, s, m) /\ At(W, p, j, s, n) /\ (q < p \/ (q = p /\ i < j)) => m < n
    BY DEF Sorted
<1>2. ASSUME NEW q \in Nat, NEW i \in Nat, NEW p \in Nat, NEW j \in Nat, NEW m, NEW n,
             At(V, q, i, s, m), At(V, p, j, s, n), q < p \/ (q = p /\ i < j)
      PROVE  m < n
    <2>0. \A k \in Nat : k + 1 \in Nat
        OBVIOUS
    <2>1. PICK k \in Nat : At(W, q, k, s, m) /\ k = IF q = a THEN i + 1 ELSE i
        BY <1>0, <1>2, <2>0
    <2>2. PICK l \in Nat : At(W, p, l, s, n) /\ l = IF p = a THEN j + 1 ELSE j
        BY <1>0, <1>2, <2>0
    <2>3. q < p \/ (q = p /\ k < l)
        BY <1>2, <2>1, <2>2
    <2> QED BY <1>1, <2>1, <2>2, <2>3
<1> QED BY <1>2 DEF Sorted

\* A frame of s enters behind those in its queue and nearer to the reader, and
\* before those farther away.
LEMMA AddSorted ==
    ASSUME NEW W \in Ways, NEW V \in Ways, NEW b \in 1..9, NEW f \in Frames, NEW s,
           Adds(W, V, b, f), Sorted(W, s),
           f[1] = s => \A q, i \in Nat : \A n : At(W, q, i, s, n) =>
               IF q <= b THEN n < f[2] ELSE f[2] < n
    PROVE  Sorted(V, s)
<1>p. Added(W, V, b, s, f)
    BY AddPlaces
<1>0. PICK new \in Nat :
          /\ \A q, i \in Nat : \A n :
                At(V, q, i, s, n) <=> \/ At(W, q, i, s, n)
                                      \/ q = b /\ i = new /\ f[1] = s /\ f[2] = n
          /\ \A i \in Nat : \A n : At(W, b, i, s, n) => i < new
    BY <1>p DEF Added
<1>1. \A q, i, p, j \in Nat : \A m, n :
          At(W, q, i, s, m) /\ At(W, p, j, s, n) /\ (q < p \/ (q = p /\ i < j)) => m < n
    BY DEF Sorted
<1>2. ASSUME NEW q \in Nat, NEW i \in Nat, NEW p \in Nat, NEW j \in Nat, NEW m, NEW n,
             At(V, q, i, s, m), At(V, p, j, s, n), q < p \/ (q = p /\ i < j)
      PROVE  m < n
    <2>1. CASE At(W, q, i, s, m) /\ At(W, p, j, s, n)
        BY <1>1, <1>2, <2>1
    <2>2. CASE At(W, q, i, s, m) /\ p = b /\ f[1] = s /\ f[2] = n
        <3>1. q <= b
            BY <1>2, <2>2
        <3> QED BY <2>2, <3>1
    <2>3. CASE q = b /\ i = new /\ f[1] = s /\ f[2] = m /\ At(W, p, j, s, n)
        <3>1. ~(p <= b)
            BY <1>0, <1>2, <2>3
        <3> QED BY <2>3, <3>1
    <2>4. CASE q = b /\ i = new /\ p = b /\ j = new
        BY <1>2, <2>4
    <2> QED BY <1>0, <1>2, <2>1, <2>2, <2>3, <2>4
<1> QED BY <1>2 DEF Sorted

\* A frame keeps its place among those of its stream when it goes forward and
\* none waits between.
LEMMA MoveSorted ==
    ASSUME NEW W \in Ways, NEW V \in Ways, NEW a \in 1..9, NEW b \in 1..9, NEW s,
           Moves(W, V, a, b), Sorted(W, s), b < a,
           \A q \in 1..9 : b < q /\ q < a => W[q] = <<>>
    PROVE  Sorted(V, s)
<1>1. PICK U \in Ways : Drops(W, U, a) /\ Adds(U, V, b, Head(W[a])) /\ Head(W[a]) \in Frames
    BY MoveSplits
<1>2. PICK f \in Frames : f = Head(W[a])
    BY <1>1
<1>3. Sorted(U, s)
    BY <1>1, <1>2, DropSorted
<1>p. Dropped(W, U, a, s, f)
    BY <1>1, <1>2, DropPlaces
<1>4. /\ \A q, i \in Nat : \A n : q # a => (At(U, q, i, s, n) <=> At(W, q, i, s, n))
      /\ \A i \in Nat : \A n : At(U, a, i, s, n) <=> i # 0 /\ At(W, a, i + 1, s, n)
      /\ \A n : At(W, a, 1, s, n) <=> f[1] = s /\ f[2] = n
    BY <1>p DEF Dropped
<1>5. \A q, i, p, j \in Nat : \A m, n :
          At(W, q, i, s, m) /\ At(W, p, j, s, n) /\ (q < p \/ (q = p /\ i < j)) => m < n
    BY DEF Sorted
<1>6. a \in Nat /\ b \in Nat /\ 1 \in Nat /\ \A i \in Nat : i + 1 \in Nat
    OBVIOUS
<1>7. ASSUME f[1] = s, NEW q \in Nat, NEW i \in Nat, NEW n, At(U, q, i, s, n)
      PROVE  IF q <= b THEN n < f[2] ELSE f[2] < n
    <2>0. At(W, a, 1, s, f[2])
        BY <1>4, <1>7
    <2>1. CASE q = a
        <3>1. At(W, a, i + 1, s, n) /\ 1 < i + 1 /\ ~(a <= b)
            BY <1>4, <1>7, <2>1
        <3> QED BY <1>5, <1>6, <2>0, <2>1, <3>1
    <2>2. CASE q # a
        <3>1. At(W, q, i, s, n)
            BY <1>4, <1>7, <2>2
        <3>2. CASE q <= b
            <4>1. q < a
                BY <3>2
            <4> QED BY <1>5, <1>6, <2>0, <3>1, <3>2, <4>1
        <3>3. CASE ~(q <= b)
            <4>1. a < q
                <5>1. q \in 1..9 /\ i \in 1..Len(W[q])
                    BY <3>1 DEF At
                <5>2. W[q] # <<>>
                    BY <5>1
                <5> QED BY <2>2, <3>3, <5>1, <5>2
            <4> QED BY <1>5, <1>6, <2>0, <3>1, <3>3, <4>1
        <3> QED BY <3>2, <3>3
    <2> QED BY <2>1, <2>2
<1> QED BY <1>1, <1>2, <1>3, <1>7, AddSorted

-----------------------------------------------------------------------------
(* The way of the frames of a stream *)

LEMMA FramesOfTyped ==
    ASSUME NEW s \in Streams, NEW q \in Seq(1..MaxWrites)
    PROVE  /\ FramesOf(s, q) \in Seq(Frames) /\ Len(FramesOf(s, q)) = Len(q) /\ Len(q) \in Nat
           /\ \A i \in 1..Len(q) : FramesOf(s, q)[i] = <<s, q[i]>>
<1>1. DOMAIN q = 1..Len(q) /\ Len(q) \in Nat /\ \A i \in 1..Len(q) : q[i] \in 1..MaxWrites
    BY Elements, Zenon
<1>2. \A i \in 1..Len(q) : <<s, q[i]>> \in Frames
    BY <1>1 DEF Frames
<1>3. FramesOf(s, q) = [i \in 1..Len(q) |-> <<s, q[i]>>]
    BY <1>1 DEF FramesOf
<1> QED BY <1>1, <1>2, <1>3

LEMMA FramesOfTail ==
    ASSUME NEW s \in Streams, NEW q \in Seq(1..MaxWrites), q # <<>>
    PROVE  /\ FramesOf(s, Tail(q)) = Tail(FramesOf(s, q))
           /\ FramesOf(s, q) # <<>> /\ Head(FramesOf(s, q)) = <<s, Head(q)>>
<1> DEFINE f == FramesOf(s, q)
           t == Tail(q)
           g == FramesOf(s, t)
<1>1. /\ t \in Seq(1..MaxWrites) /\ Len(t) = Len(q) - 1 /\ Len(q) \in Nat \ {0} /\ Head(q) = q[1]
      /\ \A i \in 1..(Len(q) - 1) : t[i] = q[i + 1]
    BY HeadTailTyped
<1>2. /\ f \in Seq(Frames) /\ Len(f) = Len(q) /\ \A i \in 1..Len(q) : f[i] = <<s, q[i]>>
    BY FramesOfTyped, Zenon
<1>3. /\ g \in Seq(Frames) /\ Len(g) = Len(t) /\ \A i \in 1..Len(t) : g[i] = <<s, t[i]>>
    BY <1>1, FramesOfTyped, Zenon
<1> HIDE DEF f, g, t
<1>4. f # <<>>
    BY <1>1, <1>2
<1>5. /\ Tail(f) \in Seq(Frames) /\ Len(Tail(f)) = Len(f) - 1 /\ Head(f) = f[1]
      /\ \A i \in 1..(Len(f) - 1) : Tail(f)[i] = f[i + 1]
    BY <1>2, <1>4, HeadTailTyped
<1> DEFINE h == Tail(f)
<1>6. /\ h \in Seq(Frames) /\ Len(h) = Len(g) /\ \A i \in 1..Len(g) : h[i] = f[i + 1]
    BY <1>1, <1>2, <1>3, <1>5
<1> HIDE DEF h
<1>7. \A i \in 1..Len(g) : g[i] = h[i]
    <2> TAKE i \in 1..Len(g)
    <2>1. i \in 1..Len(t) /\ i \in 1..(Len(q) - 1) /\ i + 1 \in 1..Len(q)
        BY <1>1, <1>3
    <2>2. g[i] = <<s, q[i + 1]>>
        BY <1>1, <1>3, <2>1
    <2>3. h[i] = <<s, q[i + 1]>>
        BY <1>2, <1>6, <2>1
    <2> QED BY <2>2, <2>3
<1>8. g = h
    BY <1>3, <1>6, <1>7, SeqEqual
<1>9. Head(f) = <<s, Head(q)>>
    BY <1>1, <1>2, <1>5
<1> QED BY <1>4, <1>8, <1>9 DEF f, g, h, t

LEMMA FramesOfAppend ==
    ASSUME NEW s \in Streams, NEW q \in Seq(1..MaxWrites), NEW n \in 1..MaxWrites
    PROVE  FramesOf(s, Append(q, n)) = Append(FramesOf(s, q), <<s, n>>)
<1> DEFINE f == FramesOf(s, q)
           e == <<s, n>>
           t == Append(q, n)
           g == FramesOf(s, t)
           h == Append(f, e)
<1>1. /\ t \in Seq(1..MaxWrites) /\ Len(t) = Len(q) + 1 /\ Len(q) \in Nat
      /\ \A i \in 1..Len(q) : t[i] = q[i]
      /\ t[Len(q) + 1] = n
    BY AppendTyped
<1>2. /\ f \in Seq(Frames) /\ Len(f) = Len(q) /\ \A i \in 1..Len(q) : f[i] = <<s, q[i]>>
    BY FramesOfTyped, Zenon
<1>3. /\ g \in Seq(Frames) /\ Len(g) = Len(t) /\ \A i \in 1..Len(t) : g[i] = <<s, t[i]>>
    BY <1>1, FramesOfTyped, Zenon
<1>4. e \in Frames /\ e = <<s, n>>
    BY DEF Frames
<1> HIDE DEF f, g, t, e
<1>5. /\ h \in Seq(Frames) /\ Len(h) = Len(f) + 1
      /\ \A i \in 1..Len(f) : h[i] = f[i]
      /\ h[Len(f) + 1] = e
    BY <1>2, <1>4, AppendTyped
<1> HIDE DEF h
<1>6. Len(h) = Len(g)
    BY <1>1, <1>2, <1>3, <1>5
<1>7. \A i \in 1..Len(g) : g[i] = h[i]
    <2> TAKE i \in 1..Len(g)
    <2>1. CASE i \in 1..Len(q)
        <3>1. i \in 1..Len(t)
            BY <1>1, <2>1
        <3> QED BY <1>1, <1>2, <1>3, <1>5, <2>1, <3>1
    <2>2. CASE i \notin 1..Len(q)
        <3>1. i = Len(q) + 1 /\ i \in 1..Len(t) /\ i = Len(f) + 1
            BY <1>1, <1>2, <1>3, <2>2
        <3> QED BY <1>1, <1>3, <1>4, <1>5, <3>1
    <2> QED BY <2>1, <2>2
<1>8. g = h
    BY <1>3, <1>5, <1>6, <1>7, SeqEqual
<1> QED BY <1>8 DEF f, g, h, t, e

LEMMA NineQueues ==
    ASSUME NEW q1 \in Seq(Frames), NEW q2 \in Seq(Frames), NEW q3 \in Seq(Frames),
           NEW q4 \in Seq(Frames), NEW q5 \in Seq(Frames), NEW q6 \in Seq(Frames),
           NEW q7 \in Seq(Frames), NEW q8 \in Seq(Frames), NEW q9 \in Seq(Frames)
    PROVE  <<q1, q2, q3, q4, q5, q6, q7, q8, q9>> \in Ways
<1> DEFINE W == <<q1, q2, q3, q4, q5, q6, q7, q8, q9>>
<1>1. /\ W[1] = q1 /\ W[2] = q2 /\ W[3] = q3 /\ W[4] = q4 /\ W[5] = q5
      /\ W[6] = q6 /\ W[7] = q7 /\ W[8] = q8 /\ W[9] = q9
    OBVIOUS
<1>2. W = [q \in 1..9 |-> W[q]]
    OBVIOUS
<1>3. \A q \in 1..9 : q = 1 \/ q = 2 \/ q = 3 \/ q = 4 \/ q = 5 \/ q = 6 \/ q = 7 \/ q = 8 \/ q = 9
    OBVIOUS
<1> HIDE DEF W
<1>4. \A q \in 1..9 : W[q] \in Seq(Frames)
    BY <1>1, <1>3
<1>5. W \in Ways
    BY <1>2, <1>4 DEF Ways
<1> QED BY <1>5 DEF W

LEMMA WayIn ==
    ASSUME NEW s \in Streams, Queued
    PROVE  /\ Way(s) \in Ways
           /\ Way(s)[1] = FramesOf(s, got[s]) /\ Way(s)[2] = FramesOf(s, inbox[s])
           /\ Way(s)[3] = held /\ Way(s)[4] = toClient /\ Way(s)[5] = replies
           /\ Way(s)[6] = granted /\ Way(s)[7] = waiting /\ Way(s)[8] = toServer
           /\ Way(s)[9] = outbox
<1>1. got[s] \in Seq(1..MaxWrites) /\ inbox[s] \in Seq(1..MaxWrites)
    BY DEF Queued
<1>2. FramesOf(s, got[s]) \in Seq(Frames) /\ FramesOf(s, inbox[s]) \in Seq(Frames)
    BY <1>1, FramesOfTyped
<1>3. Way(s) \in Ways
    BY <1>2, NineQueues DEF Queued, Way
<1> QED BY <1>3 DEF Way

-----------------------------------------------------------------------------
(* What the client knows *)

\* Sequences of frames of streams read_loop has a sender for
KnownFrames == Seq(tx_to_logic \X (1..MaxWrites))

\* Frames on their way are of streams that were opened, and those are all the
\* streams with a user; handlers wait only when waited says so.
Known == /\ held \in KnownFrames /\ outbox \in KnownFrames /\ toServer \in KnownFrames
         /\ waiting \in KnownFrames /\ granted \in KnownFrames /\ replies \in KnownFrames
         /\ toClient \in KnownFrames
         /\ \A s \in Streams : user[s] # "none" => s \in tx_to_logic /\ s < next_id
         /\ reader # "panicked"
         /\ ~waited => waiting = <<>> /\ granted = <<>>

LEMMA SeqWider ==
    ASSUME NEW S, NEW T, S \subseteq T, NEW q \in Seq(S)
    PROVE  q \in Seq(T)
BY Elements

LEMMA InitKnown == Init => Known
<1> SUFFICES ASSUME Init PROVE Known
    OBVIOUS
<1>1. <<>> \in KnownFrames
    BY DEF KnownFrames
<1>2. \A s \in Streams : user[s] = "none"
    BY DEF Init
<1> QED BY <1>1, <1>2 DEF Init, Known

LEMMA KnownHead ==
    ASSUME NEW q \in KnownFrames, q # <<>>
    PROVE  /\ Head(q) \in tx_to_logic \X (1..MaxWrites) /\ Head(q)[1] \in tx_to_logic
           /\ Tail(q) \in KnownFrames
<1>1. Head(q) \in tx_to_logic \X (1..MaxWrites)
    BY HeadTailTyped DEF KnownFrames
<1>2. Tail(q) \in KnownFrames
    BY HeadTailTyped DEF KnownFrames
<1> QED BY <1>1, <1>2

LEMMA KnownAppend ==
    ASSUME NEW q \in KnownFrames, NEW f \in tx_to_logic \X (1..MaxWrites)
    PROVE  Append(q, f) \in KnownFrames
BY AppendTyped DEF KnownFrames

LEMMA StepKnown ==
    ASSUME Typed, Known, Next
    PROVE  Known'
<1>0. /\ held \in KnownFrames /\ outbox \in KnownFrames /\ toServer \in KnownFrames
      /\ waiting \in KnownFrames /\ granted \in KnownFrames /\ replies \in KnownFrames
      /\ toClient \in KnownFrames
      /\ \A s \in Streams : user[s] # "none" => s \in tx_to_logic /\ s < next_id
      /\ reader # "panicked"
      /\ ~waited => waiting = <<>> /\ granted = <<>>
    BY DEF Known
<1>t. user \in [Streams -> {"none", "idle", "reading", "gone"}]
    BY DEF Typed
<1>k. tx_to_logic' = tx_to_logic => KnownFrames' = KnownFrames
    BY DEF KnownFrames
<1>e. <<>> \in KnownFrames
    BY DEF KnownFrames
<1>1. CASE OpenStream
    <2>1. tx_to_logic \subseteq tx_to_logic'
        BY <1>1 DEF OpenStream
    <2>2. (tx_to_logic \X (1..MaxWrites)) \subseteq (tx_to_logic' \X (1..MaxWrites))
        BY <2>1
    <2>3. \A q \in KnownFrames : q \in KnownFrames'
        BY <2>2, SeqWider DEF KnownFrames
    <2>4. \A s \in Streams : user'[s] # "none" => s \in tx_to_logic' /\ s < next_id'
        <3> TAKE s \in Streams
        <3>1. next_id \in Nat /\ s \in Nat /\ next_id < next_id + 2
            <4>1. next_id \in Nat
                BY Bounds DEF Typed
            <4>2. s \in Nat
                BY Bounds DEF Streams
            <4> QED BY <4>1, <4>2
        <3>2. /\ next_id' = next_id + 2 /\ tx_to_logic' = tx_to_logic \cup {next_id}
              /\ user' = [user EXCEPT ![next_id] = "idle"] /\ next_id \in Streams
            BY <1>1 DEF OpenStream
        <3>3. CASE s = next_id
            BY <3>1, <3>2, <3>3
        <3>4. CASE s # next_id
            <4>1. user'[s] = user[s]
                BY <1>t, <3>2, <3>4
            <4>2. s < next_id => s < next_id + 2
                BY <3>1
            <4> QED BY <1>0, <3>2, <4>1, <4>2
        <3> QED BY <3>3, <3>4
    <2>5. UNCHANGED <<held, outbox, toServer, waiting, granted, replies, toClient, reader, waited>>
        BY <1>1 DEF OpenStream, serverVars
    <2> QED BY <1>0, <2>3, <2>4, <2>5 DEF Known
<1>2. CASE StartReadLoop
    BY <1>0, <1>2, <1>k DEF StartReadLoop, Known, serverVars
<1>3. ASSUME NEW s \in Streams, Write(s)
      PROVE  Known'
    <2>1. written[s] + 1 \in 1..MaxWrites
        <3>1. written[s] \in 0..MaxWrites /\ written[s] < MaxWrites
            BY <1>3 DEF Write, Typed
        <3> QED BY <3>1, Bounds
    <2>2. s \in tx_to_logic
        BY <1>0, <1>3 DEF Write
    <2>3. outbox' \in KnownFrames
        BY <1>0, <1>3, <2>1, <2>2, KnownAppend DEF Write
    <2>4. UNCHANGED <<next_id, tx_to_logic, reader, held, user, toServer, toClient, serverVars>>
        BY <1>3 DEF Write
    <2> QED BY <1>0, <1>k, <2>3, <2>4 DEF Known, serverVars
<1>4. ASSUME NEW s \in Streams, StartRead(s) \/ Read(s) \/ Leave(s)
      PROVE  Known'
    <2>1. \A r \in Streams : user'[r] # "none" => user[r] # "none"
        <3>1. user[s] # "none" /\ \E u : user' = [user EXCEPT ![s] = u]
            BY <1>4 DEF StartRead, Read, Leave
        <3> QED BY <1>t, <3>1
    <2>2. UNCHANGED <<next_id, tx_to_logic, reader, held, outbox, toServer, toClient, serverVars>>
        BY <1>4 DEF StartRead, Read, Leave
    <2>3. \A r \in Streams : user'[r] # "none" => r \in tx_to_logic' /\ r < next_id'
        BY <1>0, <2>1, <2>2
    <2> QED BY <1>0, <1>k, <2>2, <2>3 DEF Known, serverVars
<1>5. CASE ClientWrites
    <2>1. outbox' \in KnownFrames /\ toServer' \in KnownFrames
        BY <1>0, <1>5, KnownHead, KnownAppend DEF ClientWrites
    <2>2. UNCHANGED <<clientVars, toClient, serverVars>>
        BY <1>5 DEF ClientWrites
    <2> QED BY <1>0, <1>k, <2>1, <2>2 DEF Known, clientVars, serverVars
<1>6. CASE ReadFrame
    <2>1. toClient' \in KnownFrames /\ Head(toClient)[1] \in tx_to_logic
        BY <1>0, <1>6, KnownHead DEF ReadFrame
    <2>2. held' = <<Head(toClient)>> /\ reader' = reader
        BY <1>6, <2>1 DEF ReadFrame
    <2>3. held' \in KnownFrames
        BY <1>0, <1>6, <2>2, KnownHead, SingleTyped DEF KnownFrames, ReadFrame
    <2>4. UNCHANGED <<next_id, tx_to_logic, user, outbox, toServer, serverVars>>
        BY <1>6 DEF ReadFrame
    <2> QED BY <1>0, <1>k, <2>1, <2>2, <2>3, <2>4 DEF Known, serverVars
<1>7. CASE Dispatch
    <2>1. held' \in KnownFrames
        BY <1>7, <1>e DEF Dispatch
    <2>2. UNCHANGED <<next_id, tx_to_logic, reader, user, outbox, toServer, toClient, serverVars>>
        BY <1>7 DEF Dispatch
    <2> QED BY <1>0, <1>k, <2>1, <2>2 DEF Known, serverVars
<1>8. CASE Accept
    <2>1. toServer' \in KnownFrames /\ Head(toServer) \in tx_to_logic \X (1..MaxWrites)
        BY <1>0, <1>8, KnownHead DEF Accept
    <2>2. Append(replies, Head(toServer)) \in KnownFrames /\ Append(waiting, Head(toServer)) \in KnownFrames
        BY <1>0, <2>1, KnownAppend
    <2>3. replies' \in KnownFrames /\ waiting' \in KnownFrames
        BY <1>0, <1>8, <2>2 DEF Accept
    <2>4. ~waited' => ~waited /\ waiting' = waiting
        BY <1>8 DEF Accept
    <2>5. UNCHANGED <<granted, outbox, toClient, clientVars>>
        BY <1>8 DEF Accept
    <2> QED BY <1>0, <1>k, <2>1, <2>3, <2>4, <2>5 DEF Known, clientVars
<1>9. CASE AcceptPart
    BY <1>0, <1>9, <1>k DEF AcceptPart, Known, clientVars
<1>10. CASE Reply
    <2>1. granted' \in KnownFrames /\ replies' \in KnownFrames
        BY <1>0, <1>10, KnownHead, KnownAppend DEF Reply
    <2>2. waited
        BY <1>0, <1>10 DEF Reply
    <2>3. UNCHANGED <<waiting, waited, outbox, toServer, toClient, clientVars>>
        BY <1>10 DEF Reply
    <2> QED BY <1>0, <1>k, <2>1, <2>2, <2>3 DEF Known, clientVars
<1>11. CASE ServerWrites
    <2>1. replies' \in KnownFrames /\ toClient' \in KnownFrames
        BY <1>0, <1>11, KnownHead, KnownAppend DEF ServerWrites
    <2>2. /\ granted' \in KnownFrames /\ waiting' \in KnownFrames
          /\ ~waited => waiting' = <<>> /\ granted' = <<>>
        <3>1. CASE waiting = <<>>
            BY <1>0, <1>11, <3>1 DEF ServerWrites
        <3>2. CASE waiting # <<>>
            BY <1>0, <1>11, <3>2, KnownHead, KnownAppend DEF ServerWrites
        <3> QED BY <3>1, <3>2
    <2>3. UNCHANGED <<waited, outbox, toServer, clientVars>>
        BY <1>11 DEF ServerWrites
    <2> QED BY <1>0, <1>k, <2>1, <2>2, <2>3 DEF Known, clientVars
<1>12. CASE Finished
    BY <1>0, <1>12, <1>k DEF Finished, Known, vars
<1> QED BY <1>1, <1>2, <1>3, <1>4, <1>5, <1>6, <1>7, <1>8, <1>9, <1>10, <1>11, <1>12
        DEF Next, User, ReadLoop, Inbound

-----------------------------------------------------------------------------
(* What a step does to the way of a stream *)

\* The head of queue a goes forward to queue b, none waits between.
Passes(W, V, a, b) == Moves(W, V, a, b) /\ b < a /\ \A q \in 1..9 : b < q /\ q < a => W[q] = <<>>

\* The way of s after a step that keeps what the server has read: nothing has
\* changed; a frame has gone from one queue to another, without overtaking as
\* long as no handler has waited; a frame of another stream has gone or was
\* written; the user of s has written a frame; or two frames have gone on, when
\* a handler had waited.
Progress(s, W, V, m, n, late) ==
    \/ V = W /\ n = m
    \/ n = m /\ \E a, b \in 1..9 : Moves(W, V, a, b) /\ (late \/ Passes(W, V, a, b))
    \/ n = m /\ Head(W[3]) \in Frames /\ Head(W[3])[1] # s /\ Drops(W, V, 3)
    \/ n = m /\ \E f \in Frames : f[1] # s /\ Adds(W, V, 9, f)
    \/ n = m + 1 /\ <<s, n>> \in Frames /\ Adds(W, V, 9, <<s, n>>)
    \/ n = m /\ late /\ \E U \in Ways : Moves(W, U, 5, 4) /\ Moves(U, V, 7, 6)

LEMMA NumbersGrow ==
    ASSUME NEW m \in Nat
    PROVE  (1..m) \cup {m + 1} = 1..(m + 1) /\ m + 1 \notin 1..m
OBVIOUS

\* No step of any kind loses or doubles a frame of s.
LEMMA ProgressExactly ==
    ASSUME NEW s \in Streams, NEW W \in Ways, NEW V \in Ways, NEW m \in Nat, NEW n, NEW late,
           Progress(s, W, V, m, n, late), Exactly(W, s, 1..m)
    PROVE  Exactly(V, s, 1..n)
<1> DEFINE N == 1..m
<1>0. Exactly(W, s, N)
    OBVIOUS
<1>1. CASE V = W /\ n = m
    BY <1>1
<1>2. ASSUME NEW a \in 1..9, NEW b \in 1..9, Moves(W, V, a, b), n = m
      PROVE  Exactly(V, s, 1..n)
    BY <1>2, MoveExactly
<1>3. CASE n = m /\ Head(W[3]) \in Frames /\ Head(W[3])[1] # s /\ Drops(W, V, 3)
    <2>1. PICK f \in Frames : f = Head(W[3]) /\ f[1] # s
        BY <1>3
    <2>2. PICK a \in 1..9 : a = 3
        OBVIOUS
    <2> HIDE DEF N
    <2>3. f = Head(W[a]) /\ Drops(W, V, a)
        BY <1>3, <2>1, <2>2
    <2>5. Exactly(V, s, IF f[1] = s THEN N \ {f[2]} ELSE N)
        BY <1>0, <2>3, DropExactly
    <2>4. Exactly(V, s, N)
        BY <2>1, <2>5
    <2> QED BY <1>3, <2>4 DEF N
<1>4. ASSUME NEW f \in Frames, f[1] # s, Adds(W, V, 9, f), n = m
      PROVE  Exactly(V, s, 1..n)
    <2>1. 9 \in 1..9
        OBVIOUS
    <2> HIDE DEF N
    <2>2. Exactly(V, s, IF f[1] = s THEN N \cup {f[2]} ELSE N)
        BY <1>0, <1>4, <2>1, AddExactly
    <2>3. Exactly(V, s, N)
        BY <1>4, <2>2
    <2> QED BY <1>4, <2>3 DEF N
<1>5. CASE n = m + 1 /\ <<s, n>> \in Frames /\ Adds(W, V, 9, <<s, n>>)
    <2>1. PICK f \in Frames : f = <<s, n>> /\ f[1] = s /\ f[2] = n
        BY <1>5
    <2>2. 9 \in 1..9 /\ f[2] \notin N
        BY <1>5, <2>1, NumbersGrow
    <2> HIDE DEF N
    <2>3. Exactly(V, s, IF f[1] = s THEN N \cup {f[2]} ELSE N)
        BY <1>0, <1>5, <2>1, <2>2, AddExactly
    <2>4. Exactly(V, s, N \cup {n})
        BY <2>1, <2>3
    <2>5. N \cup {n} = 1..n
        BY <1>5, NumbersGrow DEF N
    <2> QED BY <2>4, <2>5
<1>6. ASSUME NEW U \in Ways, Moves(W, U, 5, 4), Moves(U, V, 7, 6), n = m
      PROVE  Exactly(V, s, 1..n)
    <2>1. 4 \in 1..9 /\ 5 \in 1..9 /\ 6 \in 1..9 /\ 7 \in 1..9
        OBVIOUS
    <2> HIDE DEF N
    <2>2. Exactly(U, s, N)
        BY <1>0, <1>6, <2>1, MoveExactly
    <2>3. Exactly(V, s, N)
        BY <1>6, <2>1, <2>2, MoveExactly
    <2> QED BY <1>6, <2>3 DEF N
<1> QED BY <1>1, <1>2, <1>3, <1>4, <1>5, <1>6 DEF Progress

\* As long as no handler has waited, the frames of s stay in their order.
LEMMA ProgressSorted ==
    ASSUME NEW s \in Streams, NEW W \in Ways, NEW V \in Ways, NEW m \in Nat, NEW n,
           Progress(s, W, V, m, n, FALSE), Exactly(W, s, 1..m), Sorted(W, s)
    PROVE  Sorted(V, s)
<1>1. CASE V = W
    BY <1>1
<1>2. ASSUME NEW a \in 1..9, NEW b \in 1..9, Passes(W, V, a, b)
      PROVE  Sorted(V, s)
    BY <1>2, MoveSorted DEF Passes
<1>3. CASE Head(W[3]) \in Frames /\ Drops(W, V, 3)
    <2>1. PICK f \in Frames : f = Head(W[3])
        BY <1>3
    <2>2. 3 \in 1..9
        OBVIOUS
    <2> QED BY <1>3, <2>1, <2>2, DropSorted
<1>4. ASSUME NEW f \in Frames, f[1] # s, Adds(W, V, 9, f)
      PROVE  Sorted(V, s)
    <2>1. 9 \in 1..9
        OBVIOUS
    <2> QED BY <1>4, <2>1, AddSorted
<1>5. CASE n = m + 1 /\ <<s, n>> \in Frames /\ Adds(W, V, 9, <<s, n>>)
    <2>1. PICK f \in Frames : f = <<s, n>> /\ f[2] = n
        BY <1>5
    <2>2. 9 \in 1..9
        OBVIOUS
    <2>3. ASSUME NEW q \in Nat, NEW i \in Nat, NEW k, At(W, q, i, s, k)
          PROVE  IF q <= 9 THEN k < f[2] ELSE f[2] < k
        <3>1. k \in 1..m
            BY <2>3 DEF Exactly
        <3>2. k < m + 1
            BY <3>1
        <3>3. q <= 9
            BY <2>3, AtNat
        <3> QED BY <1>5, <2>1, <3>2, <3>3
    <2> QED BY <1>5, <2>1, <2>2, <2>3, AddSorted
<1> QED BY <1>1, <1>2, <1>3, <1>4, <1>5 DEF Progress

LEMMA OneToNine ==
    \A q \in 1..9 : q = 1 \/ q = 2 \/ q = 3 \/ q = 4 \/ q = 5 \/ q = 6 \/ q = 7 \/ q = 8 \/ q = 9
OBVIOUS

LEMMA Stays ==
    ASSUME NEW s, NEW W, NEW m, NEW late
    PROVE  Progress(s, W, W, m, m, late)
BY DEF Progress

LEMMA Forward ==
    ASSUME NEW s, NEW W, NEW V, NEW m, NEW late, NEW a \in 1..9, NEW b \in 1..9,
           Moves(W, V, a, b), a = b + 1
    PROVE  Progress(s, W, V, m, m, late)
<1>1. b < a /\ \A q \in 1..9 : ~(b < q /\ q < a)
    OBVIOUS
<1>2. Passes(W, V, a, b)
    BY <1>1 DEF Passes
<1> QED BY <1>2 DEF Progress

LEMMA WayThen ==
    ASSUME NEW s \in Streams, Queued'
    PROVE  /\ Way(s)' \in Ways
           /\ Way(s)'[1] = FramesOf(s, got'[s]) /\ Way(s)'[2] = FramesOf(s, inbox'[s])
           /\ Way(s)'[3] = held' /\ Way(s)'[4] = toClient' /\ Way(s)'[5] = replies'
           /\ Way(s)'[6] = granted' /\ Way(s)'[7] = waiting' /\ Way(s)'[8] = toServer'
           /\ Way(s)'[9] = outbox'
<1>1. got'[s] \in Seq(1..MaxWrites) /\ inbox'[s] \in Seq(1..MaxWrites)
    BY DEF Queued
<1>2. FramesOf(s, got'[s]) \in Seq(Frames) /\ FramesOf(s, inbox'[s]) \in Seq(Frames)
    BY <1>1, FramesOfTyped
<1>3. Way(s)' \in Ways
    BY <1>2, NineQueues DEF Queued, Way
<1> QED BY <1>3 DEF Way

LEMMA NoneLeft ==
    ASSUME NEW S, NEW q \in Seq(S), Len(q) = 0
    PROVE  q = <<>>
OBVIOUS

LEMMA TwoMoves ==
    ASSUME NEW W \in Ways, NEW V \in Ways,
           V[1] = W[1], V[2] = W[2], V[3] = W[3], V[8] = W[8], V[9] = W[9],
           W[5] # <<>>, V[5] = Tail(W[5]), V[4] = Append(W[4], Head(W[5])),
           W[7] # <<>>, V[7] = Tail(W[7]), V[6] = Append(W[6], Head(W[7]))
    PROVE  \E U \in Ways : Moves(W, U, 5, 4) /\ Moves(U, V, 7, 6)
<1> DEFINE U == [q \in 1..9 |-> IF q \in {6, 7} THEN W[q] ELSE V[q]]
<1>1. \A q \in 1..9 : W[q] \in Seq(Frames) /\ V[q] \in Seq(Frames)
    BY DEF Ways
<1>2. U \in Ways
    BY <1>1 DEF Ways
<1>3. /\ U[1] = V[1] /\ U[2] = V[2] /\ U[3] = V[3] /\ U[4] = V[4] /\ U[5] = V[5]
      /\ U[6] = W[6] /\ U[7] = W[7] /\ U[8] = V[8] /\ U[9] = V[9]
    OBVIOUS
<1> HIDE DEF U
<1>4. Moves(W, U, 5, 4)
    BY <1>3, OneToNine DEF Moves
<1>5. U[7] # <<>> /\ V[7] = Tail(U[7]) /\ V[6] = Append(U[6], Head(U[7]))
    BY <1>3
<1>6. \A q \in (1..9) \ {7, 6} : V[q] = U[q]
    BY <1>3, OneToNine
<1>7. Moves(U, V, 7, 6)
    <2>1. 7 # 6
        OBVIOUS
    <2> QED BY <1>5, <1>6, <2>1, Zenon DEF Moves
<1> QED BY <1>2, <1>4, <1>7

LEMMA StepProgress ==
    ASSUME Typed, Typed', Known, Next, ~lost', NEW s \in Streams, user'[s] # "gone"
    PROVE  /\ user[s] # "gone" /\ ~lost
           /\ Progress(s, Way(s), Way(s)', written[s], written'[s], waited')
<1> DEFINE W == Way(s)
           V == Way(s)'
           Goal == /\ user[s] # "gone" /\ ~lost
                   /\ Progress(s, W, V, written[s], written'[s], waited')
<1>q. Queued /\ Queued'
    BY DEF Typed
<1>w. /\ W \in Ways /\ W[1] = FramesOf(s, got[s]) /\ W[2] = FramesOf(s, inbox[s])
      /\ W[3] = held /\ W[4] = toClient /\ W[5] = replies /\ W[6] = granted /\ W[7] = waiting
      /\ W[8] = toServer /\ W[9] = outbox
    BY <1>q, WayIn
<1>v. /\ V \in Ways /\ V[1] = FramesOf(s, got'[s]) /\ V[2] = FramesOf(s, inbox'[s])
      /\ V[3] = held' /\ V[4] = toClient' /\ V[5] = replies' /\ V[6] = granted'
      /\ V[7] = waiting' /\ V[8] = toServer' /\ V[9] = outbox'
    BY <1>q, WayThen
<1>n. written[s] \in 0..MaxWrites /\ written[s] \in Nat
    BY Bounds DEF Typed
<1>t. user \in [Streams -> {"none", "idle", "reading", "gone"}]
    BY DEF Typed
<1>same. ASSUME UNCHANGED <<held, got, inbox, outbox, toServer, toClient, waiting, granted, replies>>
         PROVE  V = W
    BY <1>same DEF Way
<1> HIDE DEF W, V
<1>1. ASSUME OpenStream PROVE Goal
    <2>1. UNCHANGED <<held, got, inbox, outbox, toServer, toClient, waiting, granted, replies, written, lost>>
        BY <1>1 DEF OpenStream, serverVars
    <2>2. user[s] # "gone"
        <3>1. next_id \in Streams /\ user' = [user EXCEPT ![next_id] = "idle"] /\ next_id \in Nat
            BY <1>1, Bounds DEF OpenStream, Typed
        <3>2. ~(next_id < next_id)
            BY <3>1
        <3>3. user[next_id] = "none"
            BY <3>1, <3>2 DEF Known
        <3> QED BY <1>t, <3>1, <3>3
    <2>3. V = W /\ ~lost /\ written'[s] = written[s]
        BY <2>1, <1>same
    <2> QED BY <2>2, <2>3, Stays
<1>2. ASSUME StartReadLoop PROVE Goal
    <2>1. UNCHANGED <<held, got, inbox, outbox, toServer, toClient, waiting, granted, replies, written, lost, user>>
        BY <1>2 DEF StartReadLoop, serverVars
    <2>2. V = W /\ ~lost /\ written'[s] = written[s] /\ user[s] # "gone"
        BY <2>1, <1>same
    <2> QED BY <2>2, Stays
<1>3. ASSUME NEW r \in Streams, Write(r)
      PROVE  Goal
    <2>1. /\ UNCHANGED <<held, got, inbox, toServer, toClient, waiting, granted, replies, lost, user>>
          /\ outbox' = Append(outbox, <<r, written[r] + 1>>)
          /\ written' = [written EXCEPT ![r] = written[r] + 1]
        BY <1>3 DEF Write, serverVars
    <2>2. written[r] + 1 \in 1..MaxWrites
        <3>1. written[r] \in 0..MaxWrites /\ written[r] < MaxWrites
            BY <1>3 DEF Write, Typed
        <3> QED BY <3>1, Bounds
    <2> DEFINE f == <<r, written[r] + 1>>
    <2>3. f \in Frames /\ f[1] = r
        BY <2>2 DEF Frames
    <2>4. outbox' = Append(outbox, f)
        BY <2>1
    <2> HIDE DEF f
    <2>5. /\ V[1] = W[1] /\ V[2] = W[2] /\ V[3] = W[3] /\ V[4] = W[4] /\ V[5] = W[5]
          /\ V[6] = W[6] /\ V[7] = W[7] /\ V[8] = W[8] /\ V[9] = Append(W[9], f)
        BY <1>w, <1>v, <2>1, <2>4
    <2>6. Adds(W, V, 9, f)
        BY <2>5, OneToNine DEF Adds
    <2>7. CASE r = s
        <3>1. written'[s] = written[s] + 1
            BY <2>1, <2>7 DEF Typed
        <3>2. f = <<s, written'[s]>>
            BY <2>7, <3>1 DEF f
        <3> QED BY <2>1, <2>3, <2>6, <3>1, <3>2 DEF Progress
    <2>8. CASE r # s
        <3>1. written'[s] = written[s]
            BY <2>1, <2>8 DEF Typed
        <3> QED BY <2>1, <2>3, <2>6, <2>8, <3>1 DEF Progress
    <2> QED BY <2>7, <2>8
<1>4. ASSUME NEW r \in Streams, StartRead(r)
      PROVE  Goal
    <2>1. UNCHANGED <<held, got, inbox, outbox, toServer, toClient, waiting, granted, replies, written, lost>>
        BY <1>4 DEF StartRead, serverVars
    <2>2. user[s] # "gone"
        BY <1>4, <1>t DEF StartRead
    <2>3. V = W /\ ~lost /\ written'[s] = written[s]
        BY <2>1, <1>same
    <2> QED BY <2>2, <2>3, Stays
<1>5. ASSUME NEW r \in Streams, Read(r)
      PROVE  Goal
    <2>1. /\ UNCHANGED <<held, outbox, toServer, toClient, waiting, granted, replies, lost, written>>
          /\ inbox[r] # <<>>
          /\ got' = [got EXCEPT ![r] = Append(got[r], Head(inbox[r]))]
          /\ inbox' = [inbox EXCEPT ![r] = Tail(inbox[r])]
        BY <1>5 DEF Read, serverVars
    <2>2. user[s] # "gone"
        BY <1>5, <1>t DEF Read
    <2>t. /\ got \in [Streams -> Seq(1..MaxWrites)] /\ inbox \in [Streams -> Seq(1..MaxWrites)]
        BY <1>q DEF Queued
    <2>3. CASE r = s
        <3>1. got'[s] = Append(got[s], Head(inbox[s])) /\ inbox'[s] = Tail(inbox[s]) /\ inbox[s] # <<>>
            BY <2>1, <2>3, <2>t
        <3>2. got[s] \in Seq(1..MaxWrites) /\ inbox[s] \in Seq(1..MaxWrites)
            BY <2>t
        <3>3. Head(inbox[s]) \in 1..MaxWrites
            BY <3>1, <3>2, HeadTailTyped
        <3>4. V[1] = Append(W[1], <<s, Head(inbox[s])>>)
            BY <1>w, <1>v, <3>1, <3>2, <3>3, FramesOfAppend
        <3>5. V[2] = Tail(W[2]) /\ W[2] # <<>> /\ Head(W[2]) = <<s, Head(inbox[s])>>
            BY <1>w, <1>v, <3>1, <3>2, FramesOfTail
        <3>6. V[1] = Append(W[1], Head(W[2]))
            BY <3>4, <3>5
        <3>7. /\ V[3] = W[3] /\ V[4] = W[4] /\ V[5] = W[5]
              /\ V[6] = W[6] /\ V[7] = W[7] /\ V[8] = W[8] /\ V[9] = W[9]
            BY <1>w, <1>v, <2>1
        <3>8. Moves(W, V, 2, 1)
            BY <3>5, <3>6, <3>7, OneToNine DEF Moves
        <3>9. written'[s] = written[s] /\ ~lost
            BY <2>1
        <3> QED BY <2>2, <3>8, <3>9, Forward
    <2>4. CASE r # s
        <3>1. got'[s] = got[s] /\ inbox'[s] = inbox[s]
            BY <2>1, <2>4, <2>t
        <3>2. V = W
            BY <2>1, <3>1 DEF Way, V, W
        <3>3. written'[s] = written[s] /\ ~lost
            BY <2>1
        <3> QED BY <2>2, <3>2, <3>3, Stays
    <2> QED BY <2>3, <2>4
<1>6. ASSUME NEW r \in Streams, Leave(r)
      PROVE  Goal
    <2>1. /\ UNCHANGED <<held, got, outbox, toServer, toClient, waiting, granted, replies, written, lost>>
          /\ user' = [user EXCEPT ![r] = "gone"]
          /\ inbox' = [inbox EXCEPT ![r] = <<>>]
        BY <1>6 DEF Leave, serverVars
    <2>2. r # s /\ user[s] # "gone"
        BY <1>t, <2>1
    <2>3. inbox'[s] = inbox[s]
        BY <1>q, <2>1, <2>2 DEF Queued
    <2>4. V = W
        BY <2>1, <2>3 DEF Way, V, W
    <2>5. written'[s] = written[s] /\ ~lost
        BY <2>1
    <2> QED BY <2>2, <2>4, <2>5, Stays
<1>7. ASSUME ClientWrites PROVE Goal
    <2>1. /\ UNCHANGED <<held, got, inbox, toClient, waiting, granted, replies, written, lost, user>>
          /\ outbox # <<>> /\ outbox' = Tail(outbox) /\ toServer' = Append(toServer, Head(outbox))
        BY <1>7 DEF ClientWrites, clientVars, serverVars
    <2>2. /\ V[1] = W[1] /\ V[2] = W[2] /\ V[3] = W[3] /\ V[4] = W[4] /\ V[5] = W[5]
          /\ V[6] = W[6] /\ V[7] = W[7]
        BY <1>w, <1>v, <2>1
    <2>3. W[9] # <<>> /\ V[9] = Tail(W[9]) /\ V[8] = Append(W[8], Head(W[9]))
        BY <1>w, <1>v, <2>1
    <2>4. Moves(W, V, 9, 8)
        BY <2>2, <2>3, OneToNine DEF Moves
    <2>5. ~lost /\ written'[s] = written[s] /\ user[s] # "gone"
        BY <2>1
    <2> QED BY <2>4, <2>5, Forward
<1>8. ASSUME ReadFrame PROVE Goal
    <2>1. /\ UNCHANGED <<got, inbox, outbox, toServer, waiting, granted, replies, written, lost, user>>
          /\ held = <<>> /\ toClient # <<>> /\ toClient' = Tail(toClient)
        BY <1>8 DEF ReadFrame, serverVars
    <2>2. held' = <<Head(toClient)>>
        <3>1. Head(toClient)[1] \in tx_to_logic
            BY <2>1, KnownHead DEF Known
        <3> QED BY <1>8, <3>1 DEF ReadFrame
    <2>3. held' = Append(held, Head(toClient))
        BY <2>1, <2>2
    <2>4. /\ V[1] = W[1] /\ V[2] = W[2] /\ V[5] = W[5]
          /\ V[6] = W[6] /\ V[7] = W[7] /\ V[8] = W[8] /\ V[9] = W[9]
        BY <1>w, <1>v, <2>1
    <2>5. W[4] # <<>> /\ V[4] = Tail(W[4]) /\ V[3] = Append(W[3], Head(W[4]))
        BY <1>w, <1>v, <2>1, <2>3
    <2>6. Moves(W, V, 4, 3)
        BY <2>4, <2>5, OneToNine DEF Moves
    <2>7. ~lost /\ written'[s] = written[s] /\ user[s] # "gone"
        BY <2>1
    <2> QED BY <2>6, <2>7, Forward
<1>9. ASSUME Dispatch PROVE Goal
    <2> DEFINE r == Head(held)[1]
               k == Head(held)[2]
    <2>1. /\ UNCHANGED <<got, outbox, toServer, toClient, waiting, granted, replies, written, lost, user>>
          /\ held # <<>> /\ held' = <<>>
        BY <1>9 DEF Dispatch, serverVars
    <2>2. user[s] # "gone" /\ ~lost /\ written'[s] = written[s]
        BY <2>1
    <2>3. held \in Seq(Frames) /\ Len(held) <= 1
        BY <1>q DEF Typed, Queued
    <2>4. held' = Tail(held)
        <3>1. Tail(held) \in Seq(Frames) /\ Len(Tail(held)) = Len(held) - 1 /\ Len(held) \in Nat \ {0}
            BY <2>1, <2>3, HeadTailTyped
        <3>2. Len(Tail(held)) = 0
            BY <2>3, <3>1
        <3>3. Tail(held) = <<>>
            BY <3>1, <3>2, NoneLeft
        <3> QED BY <2>1, <3>3
    <2>5. Head(held) \in Frames
        BY <2>1, <2>3, HeadTailTyped
    <2>6. Head(held) = <<r, k>> /\ r \in Streams /\ k \in 1..MaxWrites
        BY <2>5, FramePair
    <2>7. user[r] # "gone" => inbox' = [inbox EXCEPT ![r] = Append(inbox[r], k)]
        BY <1>9 DEF Dispatch
    <2>8. user[r] = "gone" => inbox' = inbox
        BY <1>9 DEF Dispatch
    <2>r. r = Head(held)[1]
        OBVIOUS
    <2> HIDE DEF r, k
    <2>t. got \in [Streams -> Seq(1..MaxWrites)] /\ inbox \in [Streams -> Seq(1..MaxWrites)]
        BY <1>q DEF Queued
    <2>9. CASE r = s
        <3>1. inbox'[s] = Append(inbox[s], k) /\ inbox[s] \in Seq(1..MaxWrites)
            BY <2>2, <2>6, <2>7, <2>9, <2>t
        <3>2. V[2] = Append(W[2], <<s, k>>)
            BY <1>w, <1>v, <2>6, <3>1, FramesOfAppend
        <3>3. V[2] = Append(W[2], Head(W[3]))
            BY <1>w, <2>6, <2>9, <3>2
        <3>4. W[3] # <<>> /\ V[3] = Tail(W[3])
            BY <1>w, <1>v, <2>1, <2>4
        <3>5. /\ V[1] = W[1] /\ V[4] = W[4] /\ V[5] = W[5]
              /\ V[6] = W[6] /\ V[7] = W[7] /\ V[8] = W[8] /\ V[9] = W[9]
            BY <1>w, <1>v, <2>1
        <3>6. Moves(W, V, 3, 2)
            BY <3>3, <3>4, <3>5, OneToNine DEF Moves
        <3> QED BY <2>2, <3>6, Forward
    <2>10. CASE r # s
        <3>1. inbox'[s] = inbox[s]
            BY <2>6, <2>7, <2>8, <2>10, <2>t
        <3>2. W[3] # <<>> /\ V[3] = Tail(W[3])
            BY <1>w, <1>v, <2>1, <2>4
        <3>3. /\ V[1] = W[1] /\ V[2] = W[2] /\ V[4] = W[4] /\ V[5] = W[5]
              /\ V[6] = W[6] /\ V[7] = W[7] /\ V[8] = W[8] /\ V[9] = W[9]
            BY <1>w, <1>v, <2>1, <3>1
        <3>4. Drops(W, V, 3)
            BY <3>2, <3>3, OneToNine DEF Drops
        <3>5. Head(W[3]) \in Frames /\ Head(W[3])[1] # s
            BY <1>w, <2>5, <2>10, <2>r
        <3> QED BY <2>2, <3>4, <3>5 DEF Progress
    <2> QED BY <2>9, <2>10
<1>10. ASSUME Accept PROVE Goal
    <2>1. /\ UNCHANGED <<held, got, inbox, outbox, toClient, granted, written, lost, user>>
          /\ toServer # <<>> /\ toServer' = Tail(toServer)
        BY <1>10 DEF Accept, clientVars
    <2>2. user[s] # "gone" /\ ~lost /\ written'[s] = written[s]
        BY <2>1
    <2>3. /\ V[1] = W[1] /\ V[2] = W[2] /\ V[3] = W[3] /\ V[4] = W[4]
          /\ V[6] = W[6] /\ V[9] = W[9]
          /\ W[8] # <<>> /\ V[8] = Tail(W[8])
        BY <1>w, <1>v, <2>1
    <2>4. CASE Free > 0
        <3>1. replies' = Append(replies, Head(toServer)) /\ waiting' = waiting /\ waited' = waited
            BY <1>10, <2>4 DEF Accept
        <3>2. V[7] = W[7] /\ V[5] = Append(W[5], Head(W[8]))
            BY <1>w, <1>v, <3>1
        <3>3. Moves(W, V, 8, 5)
            BY <2>3, <3>2, OneToNine DEF Moves
        <3>4. waited' \/ Passes(W, V, 8, 5)
            <4>1. ~waited' => W[6] = <<>> /\ W[7] = <<>>
                BY <1>w, <3>1 DEF Known
            <4>2. \A q \in 1..9 : 5 < q /\ q < 8 => q = 6 \/ q = 7
                OBVIOUS
            <4> QED BY <3>3, <4>1, <4>2 DEF Passes
        <3> QED BY <2>2, <3>3, <3>4 DEF Progress
    <2>5. CASE ~(Free > 0)
        <3>1. replies' = replies /\ waiting' = Append(waiting, Head(toServer))
            BY <1>10, <2>5 DEF Accept
        <3>2. V[5] = W[5] /\ V[7] = Append(W[7], Head(W[8]))
            BY <1>w, <1>v, <3>1
        <3>3. Moves(W, V, 8, 7)
            BY <2>3, <3>2, OneToNine DEF Moves
        <3> QED BY <2>2, <3>3, Forward
    <2> QED BY <2>4, <2>5
<1>11. ASSUME AcceptPart PROVE Goal
    BY <1>11 DEF AcceptPart
<1>12. ASSUME Reply PROVE Goal
    <2>1. /\ UNCHANGED <<held, got, inbox, outbox, toServer, toClient, waiting, written, lost, user>>
          /\ granted # <<>> /\ granted' = Tail(granted) /\ replies' = Append(replies, Head(granted))
        BY <1>12 DEF Reply, clientVars
    <2>2. user[s] # "gone" /\ ~lost /\ written'[s] = written[s]
        BY <2>1
    <2>3. /\ V[1] = W[1] /\ V[2] = W[2] /\ V[3] = W[3] /\ V[4] = W[4]
          /\ V[7] = W[7] /\ V[8] = W[8] /\ V[9] = W[9]
          /\ W[6] # <<>> /\ V[6] = Tail(W[6]) /\ V[5] = Append(W[5], Head(W[6]))
        BY <1>w, <1>v, <2>1
    <2>4. Moves(W, V, 6, 5)
        BY <2>3, OneToNine DEF Moves
    <2> QED BY <2>2, <2>4, Forward
<1>13. ASSUME ServerWrites PROVE Goal
    <2>1. /\ UNCHANGED <<held, got, inbox, outbox, toServer, written, waited, lost, user>>
          /\ replies # <<>> /\ replies' = Tail(replies) /\ toClient' = Append(toClient, Head(replies))
        BY <1>13 DEF ServerWrites, clientVars
    <2>2. user[s] # "gone" /\ ~lost /\ written'[s] = written[s]
        BY <2>1
    <2>3. /\ V[1] = W[1] /\ V[2] = W[2] /\ V[3] = W[3] /\ V[8] = W[8] /\ V[9] = W[9]
          /\ W[5] # <<>> /\ V[5] = Tail(W[5]) /\ V[4] = Append(W[4], Head(W[5]))
        BY <1>w, <1>v, <2>1
    <2>4. CASE waiting = <<>>
        <3>1. waiting' = waiting /\ granted' = granted
            BY <1>13, <2>4 DEF ServerWrites
        <3>2. V[6] = W[6] /\ V[7] = W[7]
            BY <1>w, <1>v, <3>1
        <3>3. Moves(W, V, 5, 4)
            BY <2>3, <3>2, OneToNine DEF Moves
        <3> QED BY <2>2, <3>3, Forward
    <2>5. CASE waiting # <<>>
        <3>1. granted' = Append(granted, Head(waiting)) /\ waiting' = Tail(waiting)
            BY <1>13, <2>5 DEF ServerWrites
        <3>2. V[6] = Append(W[6], Head(W[7])) /\ V[7] = Tail(W[7]) /\ W[7] # <<>>
            BY <1>w, <1>v, <2>5, <3>1
        <3>3. waited'
            BY <2>1, <2>5 DEF Known
        <3>4. \E U \in Ways : Moves(W, U, 5, 4) /\ Moves(U, V, 7, 6)
            BY <1>w, <1>v, <2>3, <3>2, TwoMoves
        <3> QED BY <2>2, <3>3, <3>4 DEF Progress
    <2> QED BY <2>4, <2>5
<1>14. ASSUME Finished PROVE Goal
    <2>1. UNCHANGED <<held, got, inbox, outbox, toServer, toClient, waiting, granted, replies, written, lost, user>>
        BY <1>14 DEF Finished, vars
    <2>2. V = W /\ ~lost /\ written'[s] = written[s] /\ user[s] # "gone"
        BY <2>1, <1>same
    <2> QED BY <2>2, Stays
<1>15. Goal
    BY <1>1, <1>2, <1>3, <1>4, <1>5, <1>6, <1>7, <1>8, <1>9, <1>10, <1>11, <1>12, <1>13, <1>14
        DEF Next, User, ReadLoop, Inbound
<1> QED BY <1>15 DEF W, V

-----------------------------------------------------------------------------
(* No frame is lost or doubled *)

\* The inductive invariant
Kept == /\ Typed
        /\ Known
        /\ ~lost => \A s \in Here : Exactly(Way(s), s, 1..written[s])

LEMMA SpotIsAt ==
    ASSUME Queued, NEW s \in Streams, NEW x \in Spots(s)
    PROVE  \E q, i \in Nat : \E n : x = <<q, i>> /\ At(Way(s), q, i, s, n) /\ Number(s, x) = n
<1> DEFINE W == Way(s)
<1>1. W \in Ways /\ DOMAIN W = 1..9
    BY WayIn DEF Ways
<1>2. PICK q \in DOMAIN W : x \in {q} \X {i \in DOMAIN W[q] : W[q][i][1] = s}
    BY DEF Spots
<1>3. PICK i \in DOMAIN W[q] : x = <<q, i>> /\ W[q][i][1] = s
    BY <1>2
<1>4. Number(s, x) = W[q][i][2]
    BY <1>3 DEF Number
<1> HIDE DEF W
<1>5. q \in 1..9 /\ W[q] \in Seq(Frames)
    BY <1>1, QueueOf
<1>6. i \in 1..Len(W[q]) /\ Len(W[q]) \in Nat /\ W[q][i] \in Frames
    BY <1>5, Elements
<1>7. W[q][i] = <<s, W[q][i][2]>>
    BY <1>3, <1>6, FramePair
<1>8. At(W, q, i, s, W[q][i][2])
    BY <1>5, <1>6, <1>7 DEF At
<1>9. q \in Nat /\ i \in Nat
    BY <1>5, <1>6
<1> QED BY <1>3, <1>4, <1>8, <1>9 DEF W

LEMMA AtIsSpot ==
    ASSUME Queued, NEW s \in Streams, NEW q, NEW i, NEW n, At(Way(s), q, i, s, n)
    PROVE  <<q, i>> \in Spots(s) /\ Number(s, <<q, i>>) = n
<1> DEFINE W == Way(s)
<1>1. W \in Ways /\ DOMAIN W = 1..9
    BY WayIn DEF Ways
<1>2. q \in 1..9 /\ i \in 1..Len(W[q]) /\ W[q][i] = <<s, n>>
    BY DEF At
<1>3. DOMAIN W[q] = 1..Len(W[q])
    <2> HIDE DEF W
    <2> QED BY <1>1, <1>2, QueueOf, Elements
<1>4. W[q][i][1] = s /\ W[q][i][2] = n
    BY <1>2
<1>5. <<q, i>> \in {q} \X {j \in DOMAIN W[q] : W[q][j][1] = s}
    BY <1>2, <1>3, <1>4
<1>6. <<q, i>> \in Spots(s)
    BY <1>1, <1>2, <1>5 DEF Spots
<1> QED BY <1>4, <1>6 DEF Number

LEMMA InitKept == Init => Kept
<1> SUFFICES ASSUME Init PROVE Kept
    OBVIOUS
<1>1. Typed /\ Known
    BY InitType, InitKnown
<1>2. ASSUME NEW s \in Streams
      PROVE  Exactly(Way(s), s, 1..written[s])
    <2> DEFINE W == Way(s)
    <2>1. W \in Ways
        BY <1>1, WayIn DEF Typed
    <2>2. \A q \in 1..9 : W[q] = <<>>
        <3>1. FramesOf(s, <<>>) = <<>>
            BY DEF FramesOf
        <3>2. /\ W[1] = <<>> /\ W[2] = <<>> /\ W[3] = <<>> /\ W[4] = <<>> /\ W[5] = <<>>
              /\ W[6] = <<>> /\ W[7] = <<>> /\ W[8] = <<>> /\ W[9] = <<>>
            BY <1>1, <3>1, WayIn DEF Init, Typed
        <3> HIDE DEF W
        <3> QED BY <3>2, OneToNine
    <2>3. written[s] = 0
        BY DEF Init
    <2> HIDE DEF W
    <2>4. \A q, i, n : ~At(W, q, i, s, n)
        BY <2>2 DEF At
    <2>5. 1..written[s] = {}
        BY <2>3
    <2>6. Exactly(W, s, {})
        BY <2>4 DEF Exactly
    <2> QED BY <2>5, <2>6 DEF W
<1> QED BY <1>1, <1>2 DEF Kept, Here

LEMMA StepKept ==
    ASSUME Kept, [Next]_vars
    PROVE  Kept'
<1>1. Typed /\ Known /\ Typed'
    BY StepType DEF Kept
<1>2. CASE Next
    <2>1. Known'
        BY <1>1, <1>2, StepKnown
    <2>2. ASSUME ~lost', NEW s \in Streams, user'[s] # "gone"
          PROVE  Exactly(Way(s)', s, 1..written'[s])
        <3>1. user[s] # "gone" /\ ~lost /\ Progress(s, Way(s), Way(s)', written[s], written'[s], waited')
            BY <1>1, <1>2, <2>2, StepProgress
        <3>2. Exactly(Way(s), s, 1..written[s])
            BY <3>1 DEF Kept, Here
        <3>3. Way(s) \in Ways /\ Way(s)' \in Ways
            BY <1>1, WayIn, WayThen DEF Typed
        <3>4. written[s] \in Nat
            BY <1>1, Bounds DEF Typed
        <3> QED BY <3>1, <3>2, <3>3, <3>4, ProgressExactly
    <2> QED BY <1>1, <2>1, <2>2 DEF Kept, Here
<1>3. CASE UNCHANGED vars
    <2>1. Known'
        BY <1>1, <1>3 DEF vars, Known, KnownFrames
    <2>2. \A s \in Streams : Way(s)' = Way(s)
        BY <1>3 DEF vars, Way
    <2>3. UNCHANGED <<lost, user, written>>
        BY <1>3 DEF vars
    <2> QED BY <1>1, <2>1, <2>2, <2>3 DEF Kept, Here
<1> QED BY <1>2, <1>3

LEMMA KeptConserves == Kept => Conserved
<1> SUFFICES ASSUME Kept, ~lost PROVE Conserved
    BY DEF Conserved
<1>1. Queued /\ reader # "panicked"
    BY DEF Kept, Typed, Known
<1>2. ASSUME NEW s \in Here
      PROVE  /\ {Number(s, x) : x \in Spots(s)} = 1..written[s]
             /\ \A x, y \in Spots(s) : Number(s, x) = Number(s, y) => x = y
    <2>1. s \in Streams
        BY DEF Here
    <2> DEFINE W == Way(s)
               N == 1..written[s]
    <2>2. /\ \A q, i \in Nat : \A n : At(W, q, i, s, n) => n \in N
          /\ \A n \in N : \E q, i \in Nat : At(W, q, i, s, n)
          /\ \A q, i, p, j \in Nat : \A n : At(W, q, i, s, n) /\ At(W, p, j, s, n) => q = p /\ i = j
        BY DEF Kept, Exactly
    <2>3. \A x \in Spots(s) : \E q, i \in Nat : \E n :
              x = <<q, i>> /\ At(W, q, i, s, n) /\ Number(s, x) = n
        BY <1>1, <2>1, SpotIsAt
    <2>4. \A q, i, n : At(W, q, i, s, n) => <<q, i>> \in Spots(s) /\ Number(s, <<q, i>>) = n
        BY <1>1, <2>1, AtIsSpot
    <2> HIDE DEF W, N
    <2>5. \A x \in Spots(s) : Number(s, x) \in N
        BY <2>2, <2>3
    <2>6. ASSUME NEW n \in N
          PROVE  \E x \in Spots(s) : Number(s, x) = n
        <3>1. PICK q \in Nat, i \in Nat : At(W, q, i, s, n)
            BY <2>2
        <3>2. PICK x : x = <<q, i>>
            OBVIOUS
        <3>3. x \in Spots(s) /\ Number(s, x) = n
            BY <2>4, <3>1, <3>2
        <3> QED BY <3>3
    <2>7. {Number(s, x) : x \in Spots(s)} = N
        BY <2>5, <2>6
    <2>8. ASSUME NEW x \in Spots(s), NEW y \in Spots(s), Number(s, x) = Number(s, y)
          PROVE  x = y
        <3>1. PICK q \in Nat, i \in Nat : \E n : x = <<q, i>> /\ At(W, q, i, s, n) /\ Number(s, x) = n
            BY <2>3
        <3>2. PICK p \in Nat, j \in Nat : \E n : y = <<p, j>> /\ At(W, p, j, s, n) /\ Number(s, y) = n
            BY <2>3
        <3>3. PICK n : x = <<q, i>> /\ At(W, q, i, s, n) /\ Number(s, x) = n
            BY <3>1
        <3>4. y = <<p, j>> /\ At(W, p, j, s, n)
            BY <2>8, <3>2, <3>3
        <3>5. q = p /\ i = j
            BY <2>2, <3>3, <3>4
        <3> QED BY <3>3, <3>4, <3>5
    <2> QED BY <2>7, <2>8 DEF N
<1> QED BY <1>1, <1>2 DEF Conserved

\* Every frame of a user who has not left is in one place only, and none comes
\* back under an identifier read_loop does not know, for any number of streams
\* and frames and any capacities, however channels fill up: unless the server
\* was polled within a frame.
THEOREM FramesConserved == Spec => []Conserved
BY InitKept, StepKept, KeptConserves, PTL DEF Spec

-----------------------------------------------------------------------------
(* Answers come in order *)

\* What the user of s has read, and what waits in its channel, are its first
\* frames.
Counts(s) == /\ \A i \in 1..Len(got[s]) : got[s][i] = i
             /\ \A i \in 1..Len(inbox[s]) : inbox[s][i] = Len(got[s]) + i

\* The inductive invariant
Ordered == /\ Kept
           /\ ~lost /\ ~waited => \A s \in Here : Sorted(Way(s), s) /\ Counts(s)

\* Queue 1 holds the numbers 1..g of s, queue 2 the b after those.
Front(W, s, g, b) ==
    /\ \A i \in Nat : \A n : At(W, 1, i, s, n) <=> i \in 1..g /\ n = i
    /\ \A i \in Nat : \A n : At(W, 2, i, s, n) <=> i \in 1..b /\ n = g + i

\* In order and without gaps, the frame behind the first ones is the next one.
LEMMA NextNumber ==
    ASSUME NEW W, NEW s, NEW m \in Nat, NEW g \in Nat, NEW b \in Nat, NEW k,
           Exactly(W, s, 1..m), Sorted(W, s), Front(W, s, g, b), At(W, 3, 1, s, k)
    PROVE  k = g + b + 1
<1>0. /\ \A i \in Nat : \A n : At(W, 1, i, s, n) <=> i \in 1..g /\ n = i
      /\ \A i \in Nat : \A n : At(W, 2, i, s, n) <=> i \in 1..b /\ n = g + i
    BY DEF Front
<1>1. k \in 1..m
    BY DEF Exactly
<1>2. ASSUME NEW j \in 1..(g + b)
      PROVE  j < k
    <2>1. CASE j <= g
        <3>1. At(W, 1, j, s, j) /\ j \in Nat
            BY <1>0, <2>1
        <3> QED BY <3>1 DEF Sorted
    <2>2. CASE ~(j <= g)
        <3>1. j - g \in 1..b /\ j = g + (j - g) /\ j - g \in Nat
            BY <2>2
        <3>2. At(W, 2, j - g, s, j)
            BY <1>0, <3>1
        <3> QED BY <3>1, <3>2 DEF Sorted
    <2> QED BY <2>1, <2>2
<1>3. g + b < k
    <2>1. CASE g + b = 0
        BY <1>1, <2>1
    <2>2. CASE g + b # 0
        <3>1. g + b \in 1..(g + b)
            BY <2>2
        <3> QED BY <1>2, <3>1
    <2> QED BY <2>1, <2>2
<1> DEFINE n == g + b + 1
<1>4. n \in 1..m /\ n <= k
    BY <1>1, <1>3
<1>5. PICK q \in Nat, i \in Nat : At(W, q, i, s, n)
    BY <1>4 DEF Exactly
<1>6. q # 1
    <2> SUFFICES ASSUME q = 1 PROVE FALSE
        OBVIOUS
    <2>1. i \in 1..g /\ n = i
        BY <1>0, <1>5
    <2> QED BY <2>1
<1>7. q # 2
    <2> SUFFICES ASSUME q = 2 PROVE FALSE
        OBVIOUS
    <2>1. i \in 1..b /\ n = g + i
        BY <1>0, <1>5
    <2> QED BY <2>1
<1>8. q # 0 /\ i # 0
    BY <1>5 DEF At
<1>9. CASE q = 3 /\ i = 1
    <2>1. W[3][1] = <<s, n>> /\ W[3][1] = <<s, k>>
        BY <1>5, <1>9 DEF At
    <2>2. <<s, n>>[2] = <<s, k>>[2]
        BY <2>1
    <2> QED BY <2>2
<1>10. CASE 3 < q \/ (q = 3 /\ 1 < i)
    <2>1. k < n
        BY <1>5, <1>10 DEF Sorted
    <2> QED BY <1>1, <1>4, <2>1
<1>11. (q = 3 /\ i = 1) \/ 3 < q \/ (q = 3 /\ 1 < i)
    BY <1>6, <1>7, <1>8
<1> QED BY <1>9, <1>10, <1>11

LEMMA InitOrdered == Init => Ordered
<1> SUFFICES ASSUME Init PROVE Ordered
    OBVIOUS
<1>1. Kept
    BY InitKept
<1>2. ASSUME NEW s \in Here
      PROVE  Sorted(Way(s), s) /\ Counts(s)
    <2>1. s \in Streams
        BY DEF Here
    <2>2. Exactly(Way(s), s, 1..written[s]) /\ written[s] = 0
        BY <1>1, <2>1 DEF Kept, Init
    <2>3. \A q, i \in Nat : \A n : ~At(Way(s), q, i, s, n)
        <3>1. 1..written[s] = {}
            BY <2>2
        <3> QED BY <2>2, <3>1 DEF Exactly
    <2>4. Sorted(Way(s), s)
        BY <2>3 DEF Sorted
    <2>5. Counts(s)
        BY <2>1 DEF Init, Counts
    <2> QED BY <2>4, <2>5
<1> QED BY <1>1, <1>2 DEF Ordered

\* The queues of a user's own, counted
LEMMA CountsAt ==
    ASSUME Queued, NEW s \in Streams, Counts(s)
    PROVE  /\ Len(got[s]) \in Nat /\ Len(inbox[s]) \in Nat
           /\ Front(Way(s), s, Len(got[s]), Len(inbox[s]))
<1>1. got[s] \in Seq(1..MaxWrites) /\ inbox[s] \in Seq(1..MaxWrites)
    BY DEF Queued
<1> DEFINE W == Way(s)
           x == FramesOf(s, got[s])
           y == FramesOf(s, inbox[s])
<1>2. W[1] = x /\ W[2] = y
    BY WayIn
<1>3. /\ Len(x) = Len(got[s]) /\ Len(got[s]) \in Nat
      /\ \A i \in 1..Len(got[s]) : x[i] = <<s, got[s][i]>>
    BY <1>1, FramesOfTyped
<1>4. /\ Len(y) = Len(inbox[s]) /\ Len(inbox[s]) \in Nat
      /\ \A i \in 1..Len(inbox[s]) : y[i] = <<s, inbox[s][i]>>
    BY <1>1, FramesOfTyped
<1>5. 1 \in 1..9 /\ 2 \in 1..9
    OBVIOUS
<1> HIDE DEF W, x, y
<1>6. \A i \in 1..Len(got[s]) : x[i] = <<s, i>>
    BY <1>3 DEF Counts
<1>7. \A i \in 1..Len(inbox[s]) : y[i] = <<s, Len(got[s]) + i>>
    BY <1>4 DEF Counts
<1>8. \A a, b : <<s, a>> = <<s, b>> <=> a = b
    OBVIOUS
<1>9. \A i \in Nat : \A n : At(W, 1, i, s, n) <=> i \in 1..Len(got[s]) /\ n = i
    BY <1>2, <1>3, <1>5, <1>6, <1>8 DEF At
<1>10. \A i \in Nat : \A n : At(W, 2, i, s, n) <=> i \in 1..Len(inbox[s]) /\ n = Len(got[s]) + i
    BY <1>2, <1>4, <1>5, <1>7, <1>8 DEF At
<1> QED BY <1>3, <1>4, <1>9, <1>10 DEF W, Front

\* A user reads on where it stopped.
LEMMA CountsRead ==
    ASSUME NEW g \in Seq(1..MaxWrites), NEW q \in Seq(1..MaxWrites), q # <<>>,
           \A i \in 1..Len(g) : g[i] = i, \A i \in 1..Len(q) : q[i] = Len(g) + i
    PROVE  /\ \A i \in 1..Len(Append(g, Head(q))) : Append(g, Head(q))[i] = i
           /\ \A i \in 1..Len(Tail(q)) : Tail(q)[i] = Len(Append(g, Head(q))) + i
<1> DEFINE n == Head(q)
           t == Tail(q)
           h == Append(g, n)
<1>1. /\ n \in 1..MaxWrites /\ Len(t) = Len(q) - 1 /\ Len(q) \in Nat \ {0} /\ n = q[1]
      /\ \A i \in 1..(Len(q) - 1) : t[i] = q[i + 1]
    BY HeadTailTyped
<1>2. /\ Len(h) = Len(g) + 1 /\ Len(g) \in Nat
      /\ \A i \in 1..Len(g) : h[i] = g[i]
      /\ h[Len(g) + 1] = n
    BY <1>1, AppendTyped
<1> HIDE DEF n, t, h
<1>3. n = Len(g) + 1
    BY <1>1
<1>4. ASSUME NEW i \in 1..Len(h)
      PROVE  h[i] = i
    <2>1. CASE i \in 1..Len(g)
        BY <1>2, <2>1
    <2>2. CASE i \notin 1..Len(g)
        <3>1. i = Len(g) + 1
            BY <1>2, <2>2
        <3> QED BY <1>2, <1>3, <3>1
    <2> QED BY <2>1, <2>2
<1>5. ASSUME NEW i \in 1..Len(t)
      PROVE  t[i] = Len(h) + i
    <2>1. i + 1 \in 1..Len(q) /\ i \in 1..(Len(q) - 1)
        BY <1>1
    <2>2. t[i] = Len(g) + (i + 1)
        BY <1>1, <2>1
    <2> QED BY <1>2, <2>2
<1> QED BY <1>4, <1>5 DEF n, t, h

LEMMA StepCounts ==
    ASSUME Ordered, Next, ~lost, ~waited, NEW s \in Here, user'[s] # "gone"
    PROVE  Counts(s)'
<1>0. s \in Streams /\ Typed /\ Queued /\ Known /\ Counts(s) /\ Sorted(Way(s), s)
      /\ Exactly(Way(s), s, 1..written[s])
    BY DEF Ordered, Kept, Here, Typed
<1>t. got \in [Streams -> Seq(1..MaxWrites)] /\ inbox \in [Streams -> Seq(1..MaxWrites)]
    BY <1>0 DEF Queued
<1>same. got'[s] = got[s] /\ inbox'[s] = inbox[s] => Counts(s)'
    BY <1>0 DEF Counts
<1>1. CASE Dispatch
    <2> DEFINE r == Head(held)[1]
               k == Head(held)[2]
    <2>1. held # <<>> /\ got' = got /\ held \in Seq(Frames)
        BY <1>0, <1>1 DEF Dispatch, Queued
    <2>2. Head(held) \in Frames /\ Head(held) = held[1] /\ Len(held) \in Nat \ {0}
        BY <2>1, HeadTailTyped
    <2>3. Head(held) = <<r, k>> /\ r \in Streams /\ k \in 1..MaxWrites
        BY <2>2, FramePair
    <2>4. user[r] # "gone" => inbox' = [inbox EXCEPT ![r] = Append(inbox[r], k)]
        BY <1>1 DEF Dispatch
    <2>5. user[r] = "gone" => inbox' = inbox
        BY <1>1 DEF Dispatch
    <2> HIDE DEF r, k
    <2>6. CASE r # s
        <3>1. inbox'[s] = inbox[s]
            BY <1>0, <1>t, <2>3, <2>4, <2>5, <2>6
        <3> QED BY <1>same, <2>1, <3>1
    <2>7. CASE r = s
        <3>1. inbox'[s] = Append(inbox[s], k) /\ inbox[s] \in Seq(1..MaxWrites)
            <4>1. user[r] # "gone"
                BY <2>7 DEF Here
            <4> QED BY <1>t, <2>3, <2>4, <2>7, <4>1
        <3>2. At(Way(s), 3, 1, s, k)
            <4>1. Way(s)[3] = held
                BY <1>0, WayIn
            <4>2. 3 \in 1..9 /\ 1 \in 1..Len(held) /\ held[1] = <<s, k>>
                BY <2>2, <2>3, <2>7
            <4> QED BY <4>1, <4>2 DEF At
        <3>3. written[s] \in Nat
            BY <1>0, Bounds DEF Typed
        <3>4. /\ Len(got[s]) \in Nat /\ Len(inbox[s]) \in Nat
              /\ Front(Way(s), s, Len(got[s]), Len(inbox[s]))
            BY <1>0, CountsAt
        <3>5. k = Len(got[s]) + Len(inbox[s]) + 1
            BY <1>0, <3>2, <3>3, <3>4, NextNumber
        <3> DEFINE q == inbox[s]
                   p == Append(q, k)
                   g == Len(got[s])
        <3>6. /\ Len(p) = Len(q) + 1 /\ Len(q) \in Nat /\ p[Len(q) + 1] = k
              /\ \A i \in 1..Len(q) : p[i] = q[i]
            BY <2>3, <3>1, AppendTyped
        <3>7. inbox'[s] = p /\ got'[s] = got[s]
            BY <2>1, <3>1
        <3>8. \A i \in 1..Len(q) : q[i] = g + i
            BY <1>0 DEF Counts
        <3>9. g \in Nat /\ k = g + Len(q) + 1
            BY <3>4, <3>5
        <3> HIDE DEF p, q, g
        <3>10. ASSUME NEW i \in 1..Len(p)
               PROVE  p[i] = g + i
            <4>1. CASE i \in 1..Len(q)
                BY <3>6, <3>8, <4>1
            <4>2. CASE i \notin 1..Len(q)
                <5>1. i = Len(q) + 1
                    BY <3>6, <4>2
                <5>2. p[i] = k
                    BY <3>6, <5>1
                <5> QED BY <3>6, <3>9, <5>1, <5>2
            <4> QED BY <4>1, <4>2
        <3>11. \A i \in 1..Len(p) : p[i] = Len(got[s]) + i
            BY <3>10 DEF g
        <3>12. \A i \in 1..Len(got[s]) : got[s][i] = i
            BY <1>0 DEF Counts
        <3> QED BY <3>7, <3>11, <3>12 DEF Counts
    <2> QED BY <2>6, <2>7
<1>2. ASSUME NEW r \in Streams, Read(r)
      PROVE  Counts(s)'
    <2>1. /\ inbox[r] # <<>>
          /\ got' = [got EXCEPT ![r] = Append(got[r], Head(inbox[r]))]
          /\ inbox' = [inbox EXCEPT ![r] = Tail(inbox[r])]
        BY <1>2 DEF Read
    <2>2. CASE r # s
        <3>1. got'[s] = got[s] /\ inbox'[s] = inbox[s]
            BY <1>0, <1>t, <2>1, <2>2
        <3> QED BY <1>same, <3>1
    <2>3. CASE r = s
        <3>1. got'[s] = Append(got[s], Head(inbox[s])) /\ inbox'[s] = Tail(inbox[s]) /\ inbox[s] # <<>>
            BY <1>t, <2>1, <2>3
        <3>2. got[s] \in Seq(1..MaxWrites) /\ inbox[s] \in Seq(1..MaxWrites)
            BY <1>0, <1>t
        <3>3. /\ \A i \in 1..Len(Append(got[s], Head(inbox[s]))) : Append(got[s], Head(inbox[s]))[i] = i
              /\ \A i \in 1..Len(Tail(inbox[s])) :
                    Tail(inbox[s])[i] = Len(Append(got[s], Head(inbox[s]))) + i
            BY <1>0, <3>1, <3>2, CountsRead DEF Counts
        <3> QED BY <3>1, <3>3 DEF Counts
    <2> QED BY <2>2, <2>3
<1>3. ASSUME NEW r \in Streams, Leave(r)
      PROVE  Counts(s)'
    <2>1. /\ got' = got /\ inbox' = [inbox EXCEPT ![r] = <<>>]
          /\ user' = [user EXCEPT ![r] = "gone"]
        BY <1>3 DEF Leave
    <2>2. r # s
        BY <1>0, <2>1 DEF Typed
    <2>3. inbox'[s] = inbox[s]
        BY <1>0, <1>t, <2>1, <2>2
    <2> QED BY <1>same, <2>1, <2>3
<1>4. ASSUME \/ OpenStream \/ StartReadLoop \/ ClientWrites \/ ReadFrame \/ Inbound \/ Reply
             \/ ServerWrites \/ Finished \/ \E r \in Streams : Write(r) \/ StartRead(r)
      PROVE  Counts(s)'
    <2>1. UNCHANGED <<got, inbox>>
        BY <1>4 DEF OpenStream, StartReadLoop, ClientWrites, ReadFrame, Inbound, Accept, AcceptPart,
                    Reply, ServerWrites, Finished, Write, StartRead, vars, clientVars
    <2> QED BY <1>same, <2>1
<1> QED BY <1>1, <1>2, <1>3, <1>4 DEF Next, User, ReadLoop

LEMMA StepOrdered ==
    ASSUME Ordered, [Next]_vars
    PROVE  Ordered'
<1>1. Kept /\ Kept' /\ Typed /\ Typed' /\ Known
    BY StepKept DEF Ordered, Kept
<1>2. CASE Next
    <2>1. ASSUME ~lost', ~waited', NEW s \in Streams, user'[s] # "gone"
          PROVE  Sorted(Way(s)', s) /\ Counts(s)'
        <3>1. user[s] # "gone" /\ ~lost /\ Progress(s, Way(s), Way(s)', written[s], written'[s], waited')
            BY <1>1, <1>2, <2>1, StepProgress, Zenon
        <3>2. ~waited
            BY <1>2, <2>1, Zenon DEF Next, OpenStream, StartReadLoop, User, Write, StartRead, Read, Leave,
                ClientWrites, ReadLoop, ReadFrame, Dispatch, Inbound, Accept, AcceptPart, Reply,
                ServerWrites, Finished, vars, serverVars
        <3>3. s \in Here
            BY <3>1 DEF Here
        <3>4. Exactly(Way(s), s, 1..written[s]) /\ Sorted(Way(s), s)
            BY <1>1, <3>1, <3>2, <3>3 DEF Kept, Ordered
        <3>5. Way(s) \in Ways /\ Way(s)' \in Ways
            BY <1>1, WayIn, WayThen DEF Typed
        <3>6. written[s] \in Nat
            BY <1>1, Bounds DEF Typed
        <3>7. Progress(s, Way(s), Way(s)', written[s], written'[s], FALSE)
            BY <2>1, <3>1 DEF Progress
        <3>8. Sorted(Way(s)', s)
            BY <3>4, <3>5, <3>6, <3>7, ProgressSorted
        <3>9. Counts(s)'
            BY <1>2, <2>1, <3>1, <3>2, <3>3, StepCounts
        <3> QED BY <3>8, <3>9
    <2> QED BY <1>1, <2>1 DEF Ordered, Here
<1>3. CASE UNCHANGED vars
    <2>1. \A s \in Streams : Way(s)' = Way(s)
        BY <1>3 DEF vars, Way
    <2>2. UNCHANGED <<lost, waited, user, got, inbox>>
        BY <1>3 DEF vars
    <2>3. \A s : Counts(s)' <=> Counts(s)
        BY <2>2 DEF Counts
    <2> QED BY <1>1, <2>1, <2>2, <2>3 DEF Ordered, Here
<1> QED BY <1>2, <1>3

LEMMA OrderedInOrder == Ordered => InOrder
<1> SUFFICES ASSUME Ordered, ~lost, ~waited, NEW s \in Here
             PROVE  /\ \A i \in DOMAIN got[s] : got[s][i] = i
                    /\ \A x, y \in Spots(s) : Ahead(x, y) => Number(s, x) < Number(s, y)
    BY DEF InOrder
<1>1. Queued /\ s \in Streams /\ Counts(s) /\ Sorted(Way(s), s)
    BY DEF Ordered, Kept, Typed, Here
<1>2. \A i \in DOMAIN got[s] : got[s][i] = i
    <2>1. got[s] \in Seq(1..MaxWrites)
        BY <1>1 DEF Queued
    <2> QED BY <1>1, <2>1, Elements DEF Counts
<1>3. ASSUME NEW x \in Spots(s), NEW y \in Spots(s), Ahead(x, y)
      PROVE  Number(s, x) < Number(s, y)
    <2>1. PICK q \in Nat, i \in Nat : \E n : x = <<q, i>> /\ At(Way(s), q, i, s, n) /\ Number(s, x) = n
        BY <1>1, SpotIsAt
    <2>2. PICK p \in Nat, j \in Nat : \E n : y = <<p, j>> /\ At(Way(s), p, j, s, n) /\ Number(s, y) = n
        BY <1>1, SpotIsAt
    <2>3. PICK m : x = <<q, i>> /\ At(Way(s), q, i, s, m) /\ Number(s, x) = m
        BY <2>1
    <2>4. PICK n : y = <<p, j>> /\ At(Way(s), p, j, s, n) /\ Number(s, y) = n
        BY <2>2
    <2>5. q < p \/ (q = p /\ i < j)
        BY <1>3, <2>3, <2>4 DEF Ahead
    <2> QED BY <1>1, <2>3, <2>4, <2>5 DEF Sorted
<1> QED BY <1>2, <1>3

\* As long as no handler had to wait for a permit, the answers of a stream come
\* in the order of its writes, for any number of streams and frames and any
\* capacities, although each frame has a handler of its own.
THEOREM AnswersInOrder == Spec => []InOrder
BY InitOrdered, StepOrdered, OrderedInOrder, PTL DEF Spec
=============================================================================
