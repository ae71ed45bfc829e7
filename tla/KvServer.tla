------------------------------ MODULE KvServer ------------------------------
(***************************************************************************)
(* tiny-kv-server: clients that call ClientService::execute over a         *)
(* connection each, one ServerService::process task per connection, and    *)
(* the MemStore they share, with the lock of the DashMap shard that every  *)
(* storage call takes.  A connection is a pair of FIFO queues of decoded   *)
(* frames: what the framing and the encryption below it do to that         *)
(* abstraction is the matter of modules FrameStream and SecureStream.    *)
(***************************************************************************)
EXTENDS KvCommands, FiniteSets

CONSTANTS Clients,      \* the connections that are ever made
          Requests,     \* the commands the clients send
          Shards,       \* shards of the outer DashMap
          ShardOf,      \* the shard a table name hashes to
          NoWriter,     \* no task holds the write lock
          NoTable,      \* the outer map has no such table
          MaxCalls,     \* bound: calls a client makes
          BeforeSend(_) \* the on_before_send hooks, composed

Table == [Keys -> OptVal]

ASSUME ServerAssumption ==
    /\ NoTable \notin Table
    /\ Requests \subseteq Command /\ Requests # {}
    /\ ShardOf \in [Tables -> Shards]
    /\ NoWriter \notin Clients
    /\ MaxCalls \in Nat

\* The hooks of bins/server.rs only rewrite the message
ASSUME HooksAssumption ==
    \A r \in Response : BeforeSend(r) \in Response /\ Answer(BeforeSend(r)) = Answer(r)

VARIABLES
    tables,  \* MemStore::tables: NoTable, or the inner map of the table
    writer,  \* writer[s]: the task that write-locks outer shard s
    readers, \* readers[s]: the tasks with a Ref into outer shard s
    pc,      \* where the process task of a connection is
    cmd,     \* the command that task executes
    resp,    \* the response it has built
    client,  \* where the client is
    calls,   \* how many commands it has sent
    c2s,     \* requests in flight to the server
    s2c      \* responses in flight to the client

vars == <<tables, writer, readers, pc, cmd, resp, client, calls, c2s, s2c>>
storeVars == <<tables, writer, readers>>
taskVars == <<pc, cmd, resp>>
clientVars == <<client, calls>>

\* DashMap::default(), the table or_default creates
EmptyTable == [k \in Keys |-> NoValue]

\* A task is over when process() has returned or its thread of control
\* panicked; either way its stream, and the connection with it, is dropped.
Over(c) == pc[c] \in {"ended", "panicked"}

Init ==
    /\ tables = [t \in Tables |-> NoTable]
    /\ writer = [s \in Shards |-> NoWriter]
    /\ readers = [s \in Shards |-> {}]
    /\ pc = [c \in Clients |-> "none"]
    /\ cmd = [c \in Clients |-> CHOOSE r \in Requests : TRUE]  \* not read before Receive
    /\ resp = [c \in Clients |-> DefaultResponse]
    /\ client = [c \in Clients |-> "new"]
    /\ calls = [c \in Clients |-> 0]
    /\ c2s = [c \in Clients |-> <<>>]
    /\ s2c = [c \in Clients |-> <<>>]

-----------------------------------------------------------------------------
(* The client: bins/client.rs and ClientService::execute *)

Connect(c) ==
    /\ client[c] = "new"
    /\ client' = [client EXCEPT ![c] = "idle"]
    /\ UNCHANGED <<storeVars, taskVars, calls, c2s, s2c>>

\* s.send(cmd).await, then s.next().await
Call(c) ==
    /\ client[c] = "idle"
    /\ calls[c] < MaxCalls
    /\ \E r \in Requests : c2s' = [c2s EXCEPT ![c] = Append(@, r)]
    /\ client' = [client EXCEPT ![c] = "waiting"]
    /\ calls' = [calls EXCEPT ![c] = @ + 1]
    /\ UNCHANGED <<storeVars, taskVars, s2c>>

\* Mutant: execute() gives up waiting and lets the caller go on
ReturnOrTimeout(c) ==
    /\ client[c] = "waiting"
    /\ s2c' = [s2c EXCEPT ![c] = IF @ = <<>> THEN @ ELSE Tail(@)]
    /\ client' = [client EXCEPT ![c] = "idle"]
    /\ UNCHANGED <<storeVars, taskVars, calls, c2s>>

\* next() yields the first response
Return(c) ==
    /\ client[c] = "waiting"
    /\ s2c[c] # <<>>
    /\ s2c' = [s2c EXCEPT ![c] = Tail(@)]
    /\ client' = [client EXCEPT ![c] = "idle"]
    /\ UNCHANGED <<storeVars, taskVars, calls, c2s>>

\* next() yields UnexpectedEof: the server has dropped the connection.  The
\* caller unwraps the error and panics.
Fail(c) ==
    /\ client[c] = "waiting"
    /\ s2c[c] = <<>>
    /\ Over(c)
    /\ client' = [client EXCEPT ![c] = "gone"]
    /\ UNCHANGED <<storeVars, taskVars, calls, c2s, s2c>>

\* The client finishes, or dies in the middle of a call
Leave(c) ==
    /\ client[c] \in {"idle", "waiting"}
    /\ client' = [client EXCEPT ![c] = "gone"]
    /\ UNCHANGED <<storeVars, taskVars, calls, c2s, s2c>>

-----------------------------------------------------------------------------
(* The server: the accept loop of bins/server.rs, process() and dispatch() *)

\* listener.accept() and tokio::spawn(server.process())
Accept(c) ==
    /\ pc[c] = "none"
    /\ client[c] # "new"
    /\ pc' = [pc EXCEPT ![c] = "next"]
    /\ UNCHANGED <<storeVars, cmd, resp, clientVars, c2s, s2c>>

Receive(c) ==
    /\ pc[c] = "next"
    /\ c2s[c] # <<>>
    /\ cmd' = [cmd EXCEPT ![c] = Head(c2s[c])]
    /\ c2s' = [c2s EXCEPT ![c] = Tail(@)]

\* on_req hooks, then dispatch finds a command that goes to the storage
ReceiveStorage(c) ==
    /\ Receive(c)
    /\ cmd'[c].op \in {"hget", "hset"}
    /\ pc' = [pc EXCEPT ![c] = "entry"]
    /\ UNCHANGED <<storeVars, resp, clientVars, s2c>>

\* Mutant: a command that cannot be executed is skipped
ReceiveOtherSkips(c) ==
    /\ Receive(c)
    /\ cmd'[c].op \in {"hset_nopair", "unsupported"}
    /\ UNCHANGED <<storeVars, pc, resp, clientVars, s2c>>

\* ... or one that is answered without it
ReceiveOther(c) ==
    /\ Receive(c)
    /\ cmd'[c].op \in {"hset_nopair", "unsupported"}
    /\ resp' = [resp EXCEPT ![c] = IF cmd'[c].op = "hset_nopair"
                                   THEN ErrResponse("invalid command")
                                   ELSE DefaultResponse]
    /\ pc' = [pc EXCEPT ![c] = "send"]
    /\ UNCHANGED <<storeVars, clientVars, s2c>>

\* ... or request_data is None and unwrap panics
ReceiveEmpty(c) ==
    /\ Receive(c)
    /\ cmd'[c].op = "empty"
    /\ pc' = [pc EXCEPT ![c] = "panicked"]
    /\ UNCHANGED <<storeVars, resp, clientVars, s2c>>

\* Mutant: process() polls again after an error
EndPollsAgain(c) ==
    /\ pc[c] = "next"
    /\ c2s[c] = <<>>
    /\ client[c] = "gone"
    /\ UNCHANGED vars

\* next() yields an error once the client is gone and all it sent is read
End(c) ==
    /\ pc[c] = "next"
    /\ c2s[c] = <<>>
    /\ client[c] = "gone"
    /\ pc' = [pc EXCEPT ![c] = "ended"]
    /\ UNCHANGED <<storeVars, cmd, resp, clientVars, c2s, s2c>>

-----------------------------------------------------------------------------
(* MemStore: get_or_create_table, then the call on the inner map *)

\* Mutant: entry() does not wait for the readers of the shard
EntryBarges(c) ==
    LET t == cmd[c].table
        s == ShardOf[t]
    IN  /\ pc[c] = "entry"
        /\ writer[s] = NoWriter
        /\ writer' = [writer EXCEPT ![s] = c]
        /\ tables' = [tables EXCEPT ![t] = IF @ = NoTable THEN EmptyTable ELSE @]
        /\ pc' = [pc EXCEPT ![c] = "downgrade"]
        /\ UNCHANGED <<readers, cmd, resp, clientVars, c2s, s2c>>

\* Mutant: insert() of a new table, whether or not there is one by now
EntryInserts(c) ==
    LET t == cmd[c].table
        s == ShardOf[t]
    IN  /\ pc[c] = "entry"
        /\ writer[s] = NoWriter
        /\ readers[s] = {}
        /\ writer' = [writer EXCEPT ![s] = c]
        /\ tables' = [tables EXCEPT ![t] = EmptyTable]
        /\ pc' = [pc EXCEPT ![c] = "downgrade"]
        /\ UNCHANGED <<readers, cmd, resp, clientVars, c2s, s2c>>

\* self.tables.entry(table): the write lock of the shard; or_default
Entry(c) ==
    LET t == cmd[c].table
        s == ShardOf[t]
    IN  /\ pc[c] = "entry"
        /\ writer[s] = NoWriter
        /\ readers[s] = {}
        /\ writer' = [writer EXCEPT ![s] = c]
        /\ tables' = [tables EXCEPT ![t] = IF @ = NoTable THEN EmptyTable ELSE @]
        /\ pc' = [pc EXCEPT ![c] = "downgrade"]
        /\ UNCHANGED <<readers, cmd, resp, clientVars, c2s, s2c>>

\* RefMut::downgrade: the write lock becomes a read lock
Downgrade(c) ==
    LET s == ShardOf[cmd[c].table]
    IN  /\ pc[c] = "downgrade"
        /\ writer' = [writer EXCEPT ![s] = NoWriter]
        /\ readers' = [readers EXCEPT ![s] = @ \cup {c}]
        /\ pc' = [pc EXCEPT ![c] = "access"]
        /\ UNCHANGED <<tables, cmd, resp, clientVars, c2s, s2c>>

\* table.get(key), under the lock of the inner map, and Hget::execute
Get(c) ==
    /\ pc[c] = "access"
    /\ cmd[c].op = "hget"
    /\ resp' = [resp EXCEPT ![c] = HgetResponse(tables[cmd[c].table][cmd[c].key])]
    /\ pc' = [pc EXCEPT ![c] = "release"]
    /\ UNCHANGED <<storeVars, cmd, clientVars, c2s, s2c>>

\* Mutant: the response is read back after the insert
SetReadsBack(c) ==
    /\ pc[c] = "access"
    /\ cmd[c].op = "hset"
    /\ resp' = [resp EXCEPT ![c] = HsetResponse(Stored(cmd[c]))]
    /\ tables' = [tables EXCEPT ![cmd[c].table][cmd[c].key] = Stored(cmd[c])]
    /\ pc' = [pc EXCEPT ![c] = "release"]
    /\ UNCHANGED <<writer, readers, cmd, clientVars, c2s, s2c>>

\* table.insert(key, val), under the lock of the inner map, and Hset::execute
Set(c) ==
    /\ pc[c] = "access"
    /\ cmd[c].op = "hset"
    /\ resp' = [resp EXCEPT ![c] = HsetResponse(tables[cmd[c].table][cmd[c].key])]
    /\ tables' = [tables EXCEPT ![cmd[c].table][cmd[c].key] = Stored(cmd[c])]
    /\ pc' = [pc EXCEPT ![c] = "release"]
    /\ UNCHANGED <<writer, readers, cmd, clientVars, c2s, s2c>>

\* Mutant: the Ref is leaked
ReleaseLeaks(c) ==
    /\ pc[c] = "release"
    /\ pc' = [pc EXCEPT ![c] = "send"]
    /\ UNCHANGED <<storeVars, cmd, resp, clientVars, c2s, s2c>>

\* The Ref is dropped
Release(c) ==
    LET s == ShardOf[cmd[c].table]
    IN  /\ pc[c] = "release"
        /\ readers' = [readers EXCEPT ![s] = @ \ {c}]
        /\ pc' = [pc EXCEPT ![c] = "send"]
        /\ UNCHANGED <<tables, writer, cmd, resp, clientVars, c2s, s2c>>

\* on_exe and on_before_send hooks, then send(resp).await
Send(c) ==
    /\ pc[c] = "send"
    /\ s2c' = [s2c EXCEPT ![c] = Append(@, BeforeSend(resp[c]))]
    /\ pc' = [pc EXCEPT ![c] = "next"]
    /\ UNCHANGED <<storeVars, cmd, resp, clientVars, c2s>>

\* The write fails, which it may only once the client is gone
SendFails(c) ==
    /\ pc[c] = "send"
    /\ client[c] = "gone"
    /\ pc' = [pc EXCEPT ![c] = "ended"]
    /\ UNCHANGED <<storeVars, cmd, resp, clientVars, c2s, s2c>>

-----------------------------------------------------------------------------
Receives(c) == ReceiveStorage(c) \/ ReceiveOther(c) \/ ReceiveEmpty(c)

Store(c) == Entry(c) \/ Downgrade(c) \/ Get(c) \/ Set(c) \/ Release(c)

Sends(c) == Send(c) \/ SendFails(c)

Server(c) == Accept(c) \/ Receives(c) \/ Store(c) \/ Sends(c) \/ End(c)

Client(c) == Connect(c) \/ Call(c) \/ Return(c) \/ Fail(c) \/ Leave(c)

\* Every client has left and every task is over
Finished == /\ \A c \in Clients : client[c] = "gone" /\ Over(c)
            /\ UNCHANGED vars

Next == \/ \E c \in Clients : Client(c) \/ Server(c)
        \/ Finished

Spec == Init /\ [][Next]_vars

\* Tokio polls every task that was woken, a shard lock is granted in the end
\* (calls are bounded, so its holders run out) and a client takes the answer
\* it waits for.  Nothing makes a client connect, call or leave.
Fairness == \A c \in Clients : WF_vars(Server(c)) /\ WF_vars(Return(c) \/ Fail(c))

FairSpec == Spec /\ Fairness

-----------------------------------------------------------------------------
(* Properties *)

TaskPcs == {"none", "next", "entry", "downgrade", "access", "release", "send",
            "ended", "panicked"}

ClientPcs == {"new", "idle", "waiting", "gone"}

\* The type of the state.
TypeOK ==
    /\ tables \in [Tables -> Table \cup {NoTable}]
    /\ writer \in [Shards -> Clients \cup {NoWriter}]
    /\ readers \in [Shards -> SUBSET Clients]
    /\ pc \in [Clients -> TaskPcs]
    /\ cmd \in [Clients -> Command]
    /\ resp \in [Clients -> Response]
    /\ client \in [Clients -> ClientPcs]
    /\ calls \in [Clients -> 0..MaxCalls]
    /\ c2s \in [Clients -> Seq(Command)]
    /\ s2c \in [Clients -> Seq(Response)]

\* Tasks inside the storage call hold the lock of their shard
InStorage(c) == pc[c] \in {"downgrade", "access", "release"}

\* At most one task is between entry() and the drop of the Ref in a shard of
\* the outer map: entry() write-locks it even for Hget, and the downgraded
\* guard keeps the next entry() out.
ShardExclusion ==
    \A c, d \in Clients :
        InStorage(c) /\ InStorage(d) /\ ShardOf[cmd[c].table] = ShardOf[cmd[d].table]
            => c = d

\* A shard lock has a holder only while that task is inside the storage call:
\* no panic, error or lost connection leaves it locked for the others.
NoOrphanLock ==
    \A s \in Shards, c \in Clients :
        writer[s] = c \/ c \in readers[s] => InStorage(c) /\ ShardOf[cmd[c].table] = s

\* The command of c the server has not answered yet
Unanswered(c) == (IF pc[c] \in {"entry", "downgrade", "access", "release", "send", "panicked"}
                  THEN 1 ELSE 0) + Len(c2s[c])

\* Requests carry no identifier, so execute() pairs the next response with the
\* command it sent: a client that waits has exactly one command on its way or
\* one answer coming, an idle one has neither.
OneInFlight ==
    \A c \in Clients :
        /\ client[c] = "waiting" => Unanswered(c) + Len(s2c[c]) = 1
        /\ client[c] \in {"new", "idle"} => Unanswered(c) + Len(s2c[c]) = 0

KeepsTablesAndKeys ==
    \A t \in Tables : tables[t] # NoTable =>
        /\ tables'[t] # NoTable
        /\ \A k \in Keys : tables[t][k] # NoValue => tables'[t][k] # NoValue

\* A table that get_or_create_table has created keeps every key ever set in
\* it, however many tasks find it missing at the same time.
NothingLost == [][KeepsTablesAndKeys]_vars

\* Every call of execute() returns: with a response or with an error.
EveryCallReturns == \A c \in Clients : client[c] = "waiting" ~> client[c] # "waiting"

\* process() does not outlive its client.
TasksEnd == \A c \in Clients : client[c] = "gone" ~> Over(c)

\* abi.proto says of CommandResponse.status "reuse HTTP 2xx/4xx/5xx status
\* code": every response on its way to a client has such a status.
StatusIsHttp ==
    \A c \in Clients : \A i \in 1..Len(s2c[c]) : s2c[c][i].status \in 200..299 \cup 400..599

-----------------------------------------------------------------------------
(* The server implements the atomic store *)

StoreBar == [t \in Tables |-> IF tables[t] = NoTable THEN EmptyTable ELSE tables[t]]

OpenBar == {c \in Clients : client[c] \in {"idle", "waiting"}}

\* The command of c in progress, as far as the store has got with it
OpOf(c) ==
    IF c2s[c] # <<>> THEN [st |-> "called", cmd |-> Head(c2s[c])]
    ELSE IF pc[c] \in {"entry", "downgrade", "access", "panicked"}
    THEN [st |-> "called", cmd |-> cmd[c]]
    ELSE IF pc[c] \in {"release", "send"}
    THEN [st |-> "answered", cmd |-> cmd[c], answer |-> Answer(resp[c])]
    ELSE IF s2c[c] # <<>>
    THEN [st |-> "answered", cmd |-> cmd[c], answer |-> Answer(Head(s2c[c]))]
    ELSE [st |-> "none"]

OpBar == [c \in Clients |-> OpOf(c)]

Atomic == INSTANCE AtomicStore WITH store <- StoreBar, open <- OpenBar, op <- OpBar

\* Commands are linearizable: each takes effect at one instant between its
\* call and its answer, at most once, even when its client has left, and the
\* answer is the one of that instant.
Linearizable == Atomic!Spec
=============================================================================
