------------------------------- MODULE Yamux -------------------------------
(***************************************************************************)
(* networking/yamux.rs: logical streams multiplexed over one connection.   *)
(* A client opens streams and hands its connection to read_loop; the       *)
(* server is echo_server, which answers every frame with one of the same   *)
(* stream.  Each side has a writer task fed by a bounded channel.  A frame *)
(* is <<stream, number>>, numbered in the order the stream's user wrote,   *)
(* and so is its answer.                                                   *)
(*                                                                         *)
(* poll_next_inbound finds no stream in streams, where nothing is ever     *)
(* inserted: each frame makes a LogicStream and a handler of its own.      *)
(* The handler it replaces finds its channel closed after its answer, and  *)
(* ends.  So a handler is the one frame it answers.                        *)
(***************************************************************************)
EXTENDS Naturals, Sequences, FiniteSets

CONSTANTS MaxStreams, \* bound: streams the client opens
          MaxWrites,  \* bound: frames a user writes
          ConnCap,    \* frames in the channel to a writer task, 100 in the code
          StreamCap,  \* frames in the channel of a stream, 100 in the code
          NetCap      \* frames in one direction of the socket, with the one
                      \* the writer task has in hand

ASSUME YamuxAssumption ==
    /\ {MaxStreams, MaxWrites} \subseteq Nat
    /\ {ConnCap, StreamCap, NetCap} \subseteq Nat \ {0}

\* The identifiers of the client's streams
Streams == {2 * i - 1 : i \in 1..MaxStreams}

VARIABLES
    next_id,     \* the identifier of the next stream
    tx_to_logic, \* the streams read_loop has a sender for
    reader,      \* "opening", "reading", "ended" or "panicked": read_loop
    held,        \* the frame read_loop has read and not yet sent on
    user,        \* "none", "idle", "reading", "gone": who has LogicStream s
    written,     \* how many frames the user of s has written
    got,         \* the answers the user of s has read
    inbox,       \* the channel of s
    outbox,      \* the client's channel to its writer task
    toServer,    \* the socket
    waiting,     \* handlers that wait for a permit of the server's channel
    granted,     \* handlers that were given one and have not run since
    replies,     \* the server's channel to its writer task
    toClient,    \* the socket
    waited,      \* history: a handler had to wait for a permit
    lost         \* history: the server has dropped what it had read of a frame

vars == <<next_id, tx_to_logic, reader, held, user, written, got, inbox, outbox,
          toServer, waiting, granted, replies, toClient, waited, lost>>
clientVars == <<next_id, tx_to_logic, reader, held, user, written, got, inbox>>
serverVars == <<waiting, granted, replies, waited, lost>>

Init == /\ next_id = 1
        /\ tx_to_logic = {}
        /\ reader = "opening"
        /\ user = [s \in Streams |-> "none"]
        /\ written = [s \in Streams |-> 0]
        /\ got = [s \in Streams |-> <<>>]
        /\ inbox = [s \in Streams |-> <<>>]
        /\ held = <<>>
        /\ outbox = <<>>
        /\ toServer = <<>>
        /\ waiting = <<>>
        /\ granted = <<>>
        /\ replies = <<>>
        /\ toClient = <<>>
        /\ waited = FALSE
        /\ lost = FALSE

-----------------------------------------------------------------------------
(* The streams of the client *)

\* Mutant: identifiers are consecutive, as if the server opened none
OpenStreamNext ==
    /\ reader = "opening"
    /\ next_id \in Streams
    /\ tx_to_logic' = tx_to_logic \cup {next_id}
    /\ user' = [user EXCEPT ![next_id] = "idle"]
    /\ next_id' = next_id + 1
    /\ UNCHANGED <<reader, held, written, got, inbox, outbox, toServer, toClient,
                   serverVars>>

OpenStream ==
    /\ reader = "opening"
    /\ next_id \in Streams
    /\ tx_to_logic' = tx_to_logic \cup {next_id}
    /\ user' = [user EXCEPT ![next_id] = "idle"]
    /\ next_id' = next_id + 2
    /\ UNCHANGED <<reader, held, written, got, inbox, outbox, toServer, toClient,
                   serverVars>>

\* The channel is never closed, since the connection has a sender of its own
Write(s) ==
    /\ user[s] = "idle"
    /\ written[s] < MaxWrites
    /\ Len(outbox) < ConnCap
    /\ written' = [written EXCEPT ![s] = @ + 1]
    /\ outbox' = Append(outbox, <<s, written[s] + 1>>)
    /\ UNCHANGED <<next_id, tx_to_logic, reader, held, user, got, inbox, toServer,
                   toClient, serverVars>>

StartRead(s) ==
    /\ user[s] = "idle"
    /\ user' = [user EXCEPT ![s] = "reading"]
    /\ UNCHANGED <<next_id, tx_to_logic, reader, held, written, got, inbox, outbox,
                   toServer, toClient, serverVars>>

Read(s) ==
    /\ user[s] = "reading"
    /\ inbox[s] # <<>>
    /\ got' = [got EXCEPT ![s] = Append(@, Head(inbox[s]))]
    /\ inbox' = [inbox EXCEPT ![s] = Tail(@)]
    /\ user' = [user EXCEPT ![s] = "idle"]
    /\ UNCHANGED <<next_id, tx_to_logic, reader, held, written, outbox, toServer,
                   toClient, serverVars>>

\* The LogicStream is dropped, and its receiver with it; read() may be pending
Leave(s) ==
    /\ user[s] \in {"idle", "reading"}
    /\ user' = [user EXCEPT ![s] = "gone"]
    /\ inbox' = [inbox EXCEPT ![s] = <<>>]
    /\ UNCHANGED <<next_id, tx_to_logic, reader, held, written, got, outbox, toServer,
                   toClient, serverVars>>

ClientWrites ==
    /\ outbox # <<>>
    /\ Len(toServer) < NetCap
    /\ outbox' = Tail(outbox)
    /\ toServer' = Append(toServer, Head(outbox))
    /\ UNCHANGED <<clientVars, toClient, serverVars>>

-----------------------------------------------------------------------------
(* read_loop *)

StartReadLoop ==
    /\ reader = "opening"
    /\ reader' = IF tx_to_logic = {} THEN "ended" ELSE "reading"
    /\ UNCHANGED <<next_id, tx_to_logic, held, user, written, got, inbox, outbox,
                   toServer, toClient, serverVars>>

\* A frame is read to its end, however its bytes arrive
ReadFrame ==
    /\ reader = "reading"
    /\ held = <<>>
    /\ toClient # <<>>
    /\ toClient' = Tail(toClient)
    /\ IF Head(toClient)[1] \in tx_to_logic
       THEN held' = <<Head(toClient)>> /\ reader' = reader
       ELSE held' = <<>> /\ reader' = "panicked"
    /\ UNCHANGED <<next_id, tx_to_logic, user, written, got, inbox, outbox, toServer,
                   serverVars>>

\* Mutant: the result of send is unwrapped
DispatchUnwraps ==
    /\ held # <<>>
    /\ LET s == Head(held)[1] IN
       \/ /\ user[s] # "gone"
          /\ Len(inbox[s]) < StreamCap
          /\ inbox' = [inbox EXCEPT ![s] = Append(@, Head(held)[2])]
          /\ reader' = reader
       \/ /\ user[s] = "gone"
          /\ inbox' = inbox
          /\ reader' = "ended"
    /\ held' = <<>>
    /\ UNCHANGED <<next_id, tx_to_logic, user, written, got, outbox, toServer,
                   toClient, serverVars>>

\* Mutant: try_send, whose error is ignored
DispatchTries ==
    /\ held # <<>>
    /\ LET s == Head(held)[1] IN
       IF user[s] # "gone" /\ Len(inbox[s]) < StreamCap
       THEN inbox' = [inbox EXCEPT ![s] = Append(@, Head(held)[2])]
       ELSE inbox' = inbox
    /\ held' = <<>>
    /\ UNCHANGED <<next_id, tx_to_logic, reader, user, written, got, outbox, toServer,
                   toClient, serverVars>>

\* Mutant: a frame that does not fit is tried again after the next one
DispatchLater ==
    /\ held # <<>>
    /\ LET s == Head(held)[1] IN
       \/ /\ user[s] = "gone"
          /\ held' = <<>>
          /\ UNCHANGED <<inbox, toClient>>
       \/ /\ user[s] # "gone"
          /\ Len(inbox[s]) < StreamCap
          /\ inbox' = [inbox EXCEPT ![s] = Append(@, Head(held)[2])]
          /\ held' = <<>>
          /\ toClient' = toClient
       \/ /\ user[s] # "gone"
          /\ Len(inbox[s]) = StreamCap
          /\ toClient # <<>>
          /\ held' = <<Head(toClient)>>
          /\ toClient' = Append(Tail(toClient), Head(held))
          /\ inbox' = inbox
    /\ UNCHANGED <<next_id, tx_to_logic, reader, user, written, got, outbox, toServer,
                   serverVars>>

\* tx.send(frame): waits while the channel of the stream is full, and with it
\* the whole loop; fails, which is ignored, when the stream was dropped
Dispatch ==
    /\ held # <<>>
    /\ LET s == Head(held)[1] IN
       \/ /\ user[s] # "gone"
          /\ Len(inbox[s]) < StreamCap
          /\ inbox' = [inbox EXCEPT ![s] = Append(@, Head(held)[2])]
       \/ /\ user[s] = "gone"
          /\ inbox' = inbox
    /\ held' = <<>>
    /\ UNCHANGED <<next_id, tx_to_logic, reader, user, written, got, outbox, toServer,
                   toClient, serverVars>>

-----------------------------------------------------------------------------
(* The server *)

\* Permits of the channel to the writer task nobody has
Free == ConnCap - Len(replies) - Len(granted)

\* poll_next_inbound finds a whole frame.  The handler of the new stream is
\* polled at once: it reads the frame and sends the answer, or waits.
Accept ==
    /\ ~lost
    /\ toServer # <<>>
    /\ toServer' = Tail(toServer)
    /\ IF Free > 0
       THEN /\ replies' = Append(replies, Head(toServer))
            /\ UNCHANGED <<waiting, waited>>
       ELSE /\ waiting' = Append(waiting, Head(toServer))
            /\ waited' = TRUE
            /\ UNCHANGED replies
    /\ UNCHANGED <<granted, lost, outbox, toClient, clientVars>>

\* It finds only a part, and returns Pending: what it had read is gone and the
\* next poll takes the middle of the frame for a length.  What the server does
\* from there on is not modelled.
AcceptPart ==
    /\ ~lost
    /\ toServer # <<>>
    /\ lost' = TRUE
    /\ UNCHANGED <<waiting, granted, replies, waited, outbox, toServer, toClient,
                   clientVars>>

\* A handler that was given a permit runs and sends
Reply ==
    /\ ~lost
    /\ granted # <<>>
    /\ granted' = Tail(granted)
    /\ replies' = Append(replies, Head(granted))
    /\ UNCHANGED <<waiting, waited, lost, outbox, toServer, toClient, clientVars>>

\* The permit of the frame that leaves the channel goes to the first who waits
ServerWrites ==
    /\ replies # <<>>
    /\ Len(toClient) < NetCap
    /\ replies' = Tail(replies)
    /\ toClient' = Append(toClient, Head(replies))
    /\ IF waiting = <<>>
       THEN UNCHANGED <<waiting, granted>>
       ELSE /\ granted' = Append(granted, Head(waiting))
            /\ waiting' = Tail(waiting)
    /\ UNCHANGED <<waited, lost, outbox, toServer, clientVars>>

-----------------------------------------------------------------------------
User(s) == Write(s) \/ StartRead(s) \/ Read(s) \/ Leave(s)

ReadLoop == ReadFrame \/ Dispatch

Inbound == Accept \/ AcceptPart

\* The users are through; read_loop and the server wait for ever
Finished == /\ \A s \in Streams : user[s] \in {"none", "gone"}
            /\ reader # "opening"
            /\ UNCHANGED vars

Next == \/ OpenStream \/ StartReadLoop
        \/ \E s \in Streams : User(s)
        \/ ClientWrites \/ ReadLoop
        \/ Inbound \/ Reply \/ ServerWrites
        \/ Finished

Spec == Init /\ [][Next]_vars

\* The tasks are scheduled and the socket delivers; a pending read is served.
\* Nothing makes a user write, read or leave.
Fairness == /\ WF_vars(ClientWrites)
            /\ WF_vars(ReadLoop)
            /\ WF_vars(Inbound)
            /\ WF_vars(Reply)
            /\ WF_vars(ServerWrites)
            /\ \A s \in Streams : WF_vars(Read(s))

FairSpec == Spec /\ Fairness

-----------------------------------------------------------------------------
(* Properties *)

Frames == Streams \X (1..MaxWrites)

\* The type of the state, the capacity of the channels and the parity that
\* keeps the identifiers of the client apart from those of the server.
TypeOK ==
    /\ next_id \in {2 * i + 1 : i \in 0..MaxStreams}
    /\ tx_to_logic \subseteq Streams
    /\ reader \in {"opening", "reading", "ended", "panicked"}
    /\ user \in [Streams -> {"none", "idle", "reading", "gone"}]
    /\ written \in [Streams -> 0..MaxWrites]
    /\ got \in [Streams -> Seq(1..MaxWrites)]
    /\ inbox \in [Streams -> Seq(1..MaxWrites)]
    /\ {held, outbox, toServer, waiting, granted, replies, toClient} \subseteq Seq(Frames)
    /\ Len(held) <= 1
    /\ Len(outbox) <= ConnCap
    /\ Len(replies) + Len(granted) <= ConnCap
    /\ \A s \in Streams : Len(inbox[s]) <= StreamCap
    /\ {waited, lost} \subseteq BOOLEAN

\* Of the user of s, the frames with these numbers
FramesOf(s, numbers) == [i \in DOMAIN numbers |-> <<s, numbers[i]>>]

\* Where a frame of s can be, from the answers its user has read back to what
\* the client has not written to the socket yet
Way(s) == <<FramesOf(s, got[s]), FramesOf(s, inbox[s]), held, toClient, replies,
            granted, waiting, toServer, outbox>>

\* The places on this way with a frame of s
Spots(s) == UNION {{q} \X {i \in DOMAIN Way(s)[q] : Way(s)[q][i][1] = s} : q \in DOMAIN Way(s)}

Number(s, spot) == Way(s)[spot[1]][spot[2]][2]

Ahead(x, y) == x[1] < y[1] \/ (x[1] = y[1] /\ x[2] < y[2])

Here == {s \in Streams : user[s] # "gone"}

\* Every frame written by a user who has not left is in one place only, on its
\* way to the server, with its handler, or on its way back, or was read by that
\* user: none is lost or answered twice however channels fill up, and none
\* comes back under an identifier read_loop does not know.  Unless the server
\* was polled when only a part of a frame had arrived.
Conserved ==
    ~lost => /\ reader # "panicked"
             /\ \A s \in Here :
                   /\ {Number(s, x) : x \in Spots(s)} = 1..written[s]
                   /\ \A x, y \in Spots(s) : Number(s, x) = Number(s, y) => x = y

\* Answers come in the order of the writes, although each has a handler of its
\* own, as long as the server's channel never filled up: a handler that waited
\* for a permit may be overtaken by one that finds a free permit.
InOrder ==
    ~lost /\ ~waited =>
        \A s \in Here :
            /\ \A i \in DOMAIN got[s] : got[s][i] = i
            /\ \A x, y \in Spots(s) : Ahead(x, y) => Number(s, x) < Number(s, y)

\* read_loop waits for a user who does not read
Stalled == /\ held # <<>>
           /\ user[Head(held)[1]] = "idle"
           /\ Len(inbox[Head(held)[1]]) = StreamCap

\* A read() for which an answer is due returns, whatever the users of other
\* streams write or drop; unless one of them lets its channel fill up, which
\* stops read_loop for all, or the server was polled within a frame.
ReadsReturn ==
    \A s \in Streams :
        (user[s] = "reading" /\ reader = "reading" /\ Len(got[s]) < written[s])
            ~> (user[s] # "reading" \/ Stalled \/ lost)
=============================================================================
