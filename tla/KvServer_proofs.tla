--------------------------- MODULE KvServer_proofs ---------------------------
(***************************************************************************)
(* Proofs about KvServer: its types, the lock discipline of the store,     *)
(* that a connection never carries more than one command or answer, and,   *)
(* with these, that the server implements AtomicStore.                     *)
(***************************************************************************)
EXTENDS KvServer, SequenceTheorems, TLAPS

\* The data stays within its types
LEMMA ResponsesTyped ==
    /\ DefaultResponse \in Response
    /\ ErrResponse("invalid command") \in Response
    /\ \A v \in OptVal : HgetResponse(v) \in Response /\ HsetResponse(v) \in Response
    /\ \A r \in Command : Stored(r) \in Vals
    /\ EmptyTable \in Table
BY DataAssumption DEF DefaultResponse, ErrResponse, OkResponse, HgetResponse, HsetResponse,
   Response, Messages, OptVal, Command, Stored, EmptyTable, Table

\* While a task is in the storage call its table exists
TableExists ==
    \A c \in Clients : InStorage(c) => tables[cmd[c].table] # NoTable

Types == TypeOK /\ TableExists

LEMMA InitTypes == Init => Types
<1> SUFFICES ASSUME Init PROVE Types
    OBVIOUS
<1>1. cmd \in [Clients -> Command]
    BY ServerAssumption DEF Init
<1>2. TypeOK
    <2>1. tables \in [Tables -> Table \cup {NoTable}]
        BY DEF Init
    <2>2. writer \in [Shards -> Clients \cup {NoWriter}] /\ readers \in [Shards -> SUBSET Clients]
        BY DEF Init
    <2>3. pc \in [Clients -> TaskPcs] /\ client \in [Clients -> ClientPcs]
        BY DEF Init, TaskPcs, ClientPcs
    <2>4. resp \in [Clients -> Response]
        BY ResponsesTyped DEF Init
    <2>5. calls \in [Clients -> 0..MaxCalls]
        BY ServerAssumption DEF Init
    <2>6. c2s \in [Clients -> Seq(Command)] /\ s2c \in [Clients -> Seq(Response)]
        BY DEF Init
    <2> QED BY <1>1, <2>1, <2>2, <2>3, <2>4, <2>5, <2>6 DEF TypeOK
<1>3. TableExists
    BY DEF Init, TableExists, InStorage
<1> QED BY <1>2, <1>3 DEF Types

LEMMA StepTypes == Types /\ [Next]_vars => Types'
<1> SUFFICES ASSUME Types, [Next]_vars PROVE Types'
    OBVIOUS
<1> USE DEF Types, TypeOK, storeVars, taskVars, clientVars
<1>1. CASE UNCHANGED vars
    BY <1>1 DEF vars, TableExists, InStorage
<1>2. ASSUME NEW c \in Clients, Client(c) \/ Server(c) PROVE Types'
    <2>1. CASE Connect(c)
        BY <2>1, ResponsesTyped, ServerAssumption, HooksAssumption DEF Connect, TaskPcs, ClientPcs, TableExists, InStorage
    <2>2. CASE Call(c)
        <3>1. c2s' \in [Clients -> Seq(Command)]
            BY <2>2, ServerAssumption DEF Call
        <3>2. client' \in [Clients -> ClientPcs] /\ calls' \in [Clients -> 0..MaxCalls]
            BY <2>2, ServerAssumption DEF Call, ClientPcs
        <3> QED BY <3>1, <3>2, <2>2 DEF Call, TableExists, InStorage
    <2>3. CASE Return(c)
        <3>1. s2c' \in [Clients -> Seq(Response)]
            BY <2>3 DEF Return
        <3>2. client' \in [Clients -> ClientPcs]
            BY <2>3 DEF Return, ClientPcs
        <3> QED BY <3>1, <3>2, <2>3 DEF Return, TableExists, InStorage
    <2>4. CASE Fail(c)
        BY <2>4, ResponsesTyped, ServerAssumption, HooksAssumption DEF Fail, TaskPcs, ClientPcs, TableExists, InStorage
    <2>5. CASE Leave(c)
        BY <2>5, ResponsesTyped, ServerAssumption, HooksAssumption DEF Leave, TaskPcs, ClientPcs, TableExists, InStorage
    <2>6. CASE Accept(c)
        BY <2>6, ResponsesTyped, ServerAssumption, HooksAssumption DEF Accept, TaskPcs, ClientPcs, TableExists, InStorage
    <2>7. CASE ReceiveStorage(c)
        <3>0. Receive(c)
            BY <2>7 DEF ReceiveStorage
        <3>1. c2s' \in [Clients -> Seq(Command)] /\ cmd' \in [Clients -> Command]
            BY <3>0 DEF Receive
        <3>2. pc' = [pc EXCEPT ![c] = "entry"] /\ pc' \in [Clients -> TaskPcs]
            BY <2>7 DEF ReceiveStorage, TaskPcs
        <3>4. TableExists'
            BY <3>2, <2>7 DEF ReceiveStorage, Receive, TableExists, InStorage
        <3> QED BY <3>1, <3>2, <3>4, <2>7 DEF ReceiveStorage
    <2>8. CASE ReceiveOther(c)
        <3>0. Receive(c)
            BY <2>8 DEF ReceiveOther
        <3>1. c2s' \in [Clients -> Seq(Command)] /\ cmd' \in [Clients -> Command]
            BY <3>0 DEF Receive
        <3>2. pc' = [pc EXCEPT ![c] = "send"] /\ pc' \in [Clients -> TaskPcs]
            BY <2>8 DEF ReceiveOther, TaskPcs
        <3>3. resp' \in [Clients -> Response]
            BY <2>8, ResponsesTyped DEF ReceiveOther
        <3>4. TableExists'
            BY <3>2, <2>8 DEF ReceiveOther, Receive, TableExists, InStorage
        <3> QED BY <3>1, <3>2, <3>3, <3>4, <2>8 DEF ReceiveOther
    <2>9. CASE ReceiveEmpty(c)
        <3>0. Receive(c)
            BY <2>9 DEF ReceiveEmpty
        <3>1. c2s' \in [Clients -> Seq(Command)] /\ cmd' \in [Clients -> Command]
            BY <3>0 DEF Receive
        <3>2. pc' = [pc EXCEPT ![c] = "panicked"] /\ pc' \in [Clients -> TaskPcs]
            BY <2>9 DEF ReceiveEmpty, TaskPcs
        <3>4. TableExists'
            BY <3>2, <2>9 DEF ReceiveEmpty, Receive, TableExists, InStorage
        <3> QED BY <3>1, <3>2, <3>4, <2>9 DEF ReceiveEmpty
    <2>10. CASE End(c)
        BY <2>10, ResponsesTyped, ServerAssumption, HooksAssumption DEF End, TaskPcs, ClientPcs, TableExists, InStorage
    <2>11. CASE Entry(c)
        <3>1. cmd[c].table \in Tables
            BY DEF Command
        <3>2. tables' \in [Tables -> Table \cup {NoTable}]
            BY <2>11, <3>1, ResponsesTyped DEF Entry
        <3>3. pc' = [pc EXCEPT ![c] = "downgrade"] /\ pc' \in [Clients -> TaskPcs]
            BY <2>11 DEF Entry, TaskPcs
        <3>4. \A t \in Tables : (tables[t] # NoTable \/ t = cmd[c].table) => tables'[t] # NoTable
            BY <2>11, <3>1, ResponsesTyped, ServerAssumption DEF Entry
        <3>5. \A d \in Clients : cmd[d].table \in Tables
            BY DEF Command
        <3>6. TableExists'
            BY <3>3, <3>4, <3>5, <2>11 DEF Entry, TableExists, InStorage
        <3>7. writer' \in [Shards -> Clients \cup {NoWriter}]
            BY <2>11 DEF Entry
        <3> QED BY <3>2, <3>3, <3>6, <3>7, <2>11 DEF Entry
    <2>12. CASE Downgrade(c)
        BY <2>12, ResponsesTyped, ServerAssumption, HooksAssumption DEF Downgrade, TaskPcs, ClientPcs, TableExists, InStorage
    <2>13. CASE Get(c)
        <3>1. cmd[c].table \in Tables /\ cmd[c].key \in Keys
            BY DEF Command
        <3>2. tables[cmd[c].table] \in Table
            BY <2>13, <3>1 DEF Get, TableExists, InStorage
        <3>3. resp' \in [Clients -> Response]
            BY <2>13, <3>1, <3>2, ResponsesTyped DEF Get, Table
        <3>4. pc' = [pc EXCEPT ![c] = "release"] /\ pc' \in [Clients -> TaskPcs]
            BY <2>13 DEF Get, TaskPcs
        <3>5. TableExists'
            BY <3>4, <2>13 DEF Get, TableExists, InStorage
        <3> QED BY <3>3, <3>4, <3>5, <2>13 DEF Get
    <2>14. CASE Set(c)
        <3>1. cmd[c].table \in Tables /\ cmd[c].key \in Keys
            BY DEF Command
        <3>2. tables[cmd[c].table] \in Table
            BY <2>14, <3>1 DEF Set, TableExists, InStorage
        <3>3. resp' \in [Clients -> Response]
            BY <2>14, <3>1, <3>2, ResponsesTyped DEF Set, Table
        <3>4. tables' = [tables EXCEPT ![cmd[c].table] =
                            [tables[cmd[c].table] EXCEPT ![cmd[c].key] = Stored(cmd[c])]]
            BY <2>14 DEF Set
        <3>5. [tables[cmd[c].table] EXCEPT ![cmd[c].key] = Stored(cmd[c])] \in Table
            BY <3>1, <3>2, ResponsesTyped DEF Table, OptVal
        <3>6. tables' \in [Tables -> Table \cup {NoTable}]
            BY <3>1, <3>4, <3>5
        <3>7. pc' = [pc EXCEPT ![c] = "release"] /\ pc' \in [Clients -> TaskPcs]
            BY <2>14 DEF Set, TaskPcs
        <3>8. \A t \in Tables : tables[t] # NoTable => tables'[t] # NoTable
            BY <3>1, <3>4, <3>5, ServerAssumption
        <3>9. \A d \in Clients : cmd[d].table \in Tables
            BY DEF Command
        <3>10. TableExists'
            BY <3>7, <3>8, <3>9, <2>14 DEF Set, TableExists, InStorage
        <3> QED BY <3>3, <3>6, <3>7, <3>10, <2>14 DEF Set
    <2>15. CASE Release(c)
        BY <2>15, ResponsesTyped, ServerAssumption, HooksAssumption DEF Release, TaskPcs, ClientPcs, TableExists, InStorage
    <2>16. CASE Send(c)
        <3>1. BeforeSend(resp[c]) \in Response
            BY HooksAssumption
        <3>2. s2c' \in [Clients -> Seq(Response)]
            BY <2>16, <3>1 DEF Send
        <3>3. pc' = [pc EXCEPT ![c] = "next"] /\ pc' \in [Clients -> TaskPcs]
            BY <2>16 DEF Send, TaskPcs
        <3>4. TableExists'
            BY <3>3, <2>16 DEF Send, TableExists, InStorage
        <3> QED BY <3>2, <3>3, <3>4, <2>16 DEF Send
    <2>17. CASE SendFails(c)
        BY <2>17, ResponsesTyped, ServerAssumption, HooksAssumption DEF SendFails, TaskPcs, ClientPcs, TableExists, InStorage
    <2> QED BY <1>2, <2>1, <2>2, <2>3, <2>4, <2>5, <2>6, <2>7, <2>8, <2>9, <2>10, <2>11, <2>12, <2>13, <2>14, <2>15, <2>16, <2>17 DEF Client, Server, Receives, Store, Sends
<1> QED BY <1>1, <1>2 DEF Next, Finished

\* Every variable keeps its type, whatever the clients, the tables and the
\* number of calls: in particular no task reaches into a table that the outer
\* map of MemStore does not have.
THEOREM TypeCorrect == Spec => []TypeOK
<1>1. Types => TypeOK
    BY DEF Types
<1> QED BY <1>1, InitTypes, StepTypes, PTL DEF Spec

LEMMA TypesInvariant == Spec => []Types
BY InitTypes, StepTypes, PTL DEF Spec

-----------------------------------------------------------------------------
(* The shard lock *)

ShardOfTask(c) == ShardOf[cmd[c].table]

\* The lock of a shard is in the state the task inside it has put it in
LockHeld ==
    \A c \in Clients :
        /\ pc[c] = "downgrade" => writer[ShardOfTask(c)] = c /\ readers[ShardOfTask(c)] = {}
        /\ pc[c] \in {"access", "release"} =>
               writer[ShardOfTask(c)] = NoWriter /\ readers[ShardOfTask(c)] = {c}

LockInv == LockHeld /\ NoOrphanLock

LEMMA LockInvImpliesExclusion == Types /\ LockInv => ShardExclusion
<1> SUFFICES ASSUME LockInv, NEW c \in Clients, NEW d \in Clients,
                    InStorage(c), InStorage(d), ShardOfTask(c) = ShardOfTask(d)
             PROVE  c = d
    BY DEF ShardExclusion, ShardOfTask
<1>1. CASE pc[c] = "downgrade" /\ pc[d] = "downgrade"
    BY <1>1 DEF LockInv, LockHeld
<1>2. CASE pc[c] # "downgrade" /\ pc[d] # "downgrade"
    BY <1>2 DEF LockInv, LockHeld, InStorage
<1>3. CASE pc[c] = "downgrade" /\ pc[d] # "downgrade"
    BY <1>3 DEF LockInv, LockHeld, InStorage
<1>4. CASE pc[c] # "downgrade" /\ pc[d] = "downgrade"
    BY <1>4 DEF LockInv, LockHeld, InStorage
<1> QED BY <1>1, <1>2, <1>3, <1>4

LEMMA InitLock == Init => LockInv
BY ServerAssumption DEF Init, LockInv, LockHeld, NoOrphanLock, InStorage

\* A step that leaves the locks alone, and moves no task into or out of the
\* storage call, preserves the invariant
LEMMA LockFrame ==
    ASSUME LockInv, UNCHANGED <<writer, readers>>,
           \A d \in Clients :
              \/ pc'[d] = pc[d] /\ cmd'[d] = cmd[d]
              \/ ~InStorage(d) /\ ~InStorage(d)'
              \/ /\ pc[d] \in {"access", "release"} /\ pc'[d] \in {"access", "release"}
                 /\ cmd'[d] = cmd[d]
    PROVE  LockInv'
<1>1. LockHeld'
    BY DEF LockInv, LockHeld, InStorage, ShardOfTask
<1>2. NoOrphanLock'
    BY DEF LockInv, NoOrphanLock, InStorage
<1> QED BY <1>1, <1>2 DEF LockInv

LEMMA StepLock == Types /\ LockInv /\ [Next]_vars => LockInv'
<1> SUFFICES ASSUME Types, LockInv, [Next]_vars PROVE LockInv'
    OBVIOUS
<1> USE DEF Types, TypeOK, storeVars, taskVars, clientVars
<1>1. CASE UNCHANGED vars
    BY <1>1, LockFrame DEF vars
<1>2. ASSUME NEW c \in Clients, Client(c) PROVE LockInv'
    BY <1>2, LockFrame DEF Client, Connect, Call, Return, Fail, Leave
<1>3. ASSUME NEW c \in Clients, Accept(c) \/ Receives(c) \/ Sends(c) \/ End(c) PROVE LockInv'
    BY <1>3, LockFrame DEF Accept, Receives, ReceiveStorage, ReceiveOther, ReceiveEmpty, Receive,
       Sends, Send, SendFails, End, InStorage
<1>4. ASSUME NEW c \in Clients, Get(c) \/ Set(c) PROVE LockInv'
    BY <1>4, LockFrame DEF Get, Set
<1>5. ASSUME NEW c \in Clients, Entry(c) PROVE LockInv'
    <2>0. \A d \in Clients : ShardOfTask(d) \in Shards /\ ShardOfTask(d)' = ShardOfTask(d)
        BY <1>5, ServerAssumption DEF Entry, Command, ShardOfTask
    <2>1. writer[ShardOfTask(c)] = NoWriter /\ readers[ShardOfTask(c)] = {}
        BY <1>5 DEF Entry, ShardOfTask
    <2>2. ASSUME NEW d \in Clients, InStorage(d) PROVE ShardOfTask(d) # ShardOfTask(c)
        BY <2>1, <2>2, ServerAssumption DEF LockInv, LockHeld, InStorage
    <2>3. /\ writer' = [writer EXCEPT ![ShardOfTask(c)] = c]
          /\ pc' = [pc EXCEPT ![c] = "downgrade"]
          /\ UNCHANGED <<readers, cmd>>
          /\ pc[c] = "entry" /\ readers[ShardOfTask(c)] = {}
        BY <1>5 DEF Entry, ShardOfTask
    <2>4. LockHeld'
        BY <2>0, <2>2, <2>3 DEF LockInv, LockHeld, InStorage
    <2>5. NoOrphanLock'
        BY <2>0, <2>2, <2>3, ServerAssumption DEF LockInv, NoOrphanLock, InStorage, ShardOfTask
    <2> QED BY <2>4, <2>5 DEF LockInv
<1>6. ASSUME NEW c \in Clients, Downgrade(c) PROVE LockInv'
    <2>0. \A d \in Clients : ShardOfTask(d) \in Shards /\ ShardOfTask(d)' = ShardOfTask(d)
        BY <1>6, ServerAssumption DEF Downgrade, Command, ShardOfTask
    <2>2. \A d \in Clients \ {c} : InStorage(d) => ShardOfTask(d) # ShardOfTask(c)
        BY <1>6, LockInvImpliesExclusion DEF Downgrade, ShardExclusion, InStorage, ShardOfTask
    <2>3. /\ writer' = [writer EXCEPT ![ShardOfTask(c)] = NoWriter]
          /\ readers' = [readers EXCEPT ![ShardOfTask(c)] = @ \cup {c}]
          /\ pc' = [pc EXCEPT ![c] = "access"]
          /\ UNCHANGED cmd
          /\ pc[c] = "downgrade" /\ readers[ShardOfTask(c)] = {}
        BY <1>6 DEF Downgrade, LockInv, LockHeld, ShardOfTask
    <2>4. LockHeld'
        BY <2>0, <2>2, <2>3 DEF LockInv, LockHeld, InStorage
    <2>5. NoOrphanLock'
        BY <2>0, <2>2, <2>3, ServerAssumption DEF LockInv, NoOrphanLock, InStorage, ShardOfTask
    <2> QED BY <2>4, <2>5 DEF LockInv
<1>7. ASSUME NEW c \in Clients, Release(c) PROVE LockInv'
    <2>0. \A d \in Clients : ShardOfTask(d) \in Shards /\ ShardOfTask(d)' = ShardOfTask(d)
        BY <1>7, ServerAssumption DEF Release, Command, ShardOfTask
    <2>2. \A d \in Clients \ {c} : InStorage(d) => ShardOfTask(d) # ShardOfTask(c)
        BY <1>7, LockInvImpliesExclusion DEF Release, ShardExclusion, InStorage, ShardOfTask
    <2>3. /\ readers' = [readers EXCEPT ![ShardOfTask(c)] = @ \ {c}]
          /\ pc' = [pc EXCEPT ![c] = "send"]
          /\ UNCHANGED <<writer, cmd>>
          /\ pc[c] = "release" /\ writer[ShardOfTask(c)] = NoWriter
          /\ readers[ShardOfTask(c)] = {c}
        BY <1>7 DEF Release, LockInv, LockHeld, ShardOfTask
    <2>4. LockHeld'
        BY <2>0, <2>2, <2>3 DEF LockInv, LockHeld, InStorage
    <2>5. NoOrphanLock'
        BY <2>0, <2>2, <2>3, ServerAssumption DEF LockInv, NoOrphanLock, InStorage, ShardOfTask
    <2> QED BY <2>4, <2>5 DEF LockInv
<1> QED BY <1>1, <1>2, <1>3, <1>4, <1>5, <1>6, <1>7 DEF Next, Finished, Server, Store

\* Two tasks are never between entry() and the drop of the Ref in the same
\* shard of the outer map, for any number of tasks, tables and shards.
THEOREM Exclusion == Spec => []ShardExclusion
<1>1. Types /\ LockInv => ShardExclusion
    BY LockInvImpliesExclusion
<1> QED BY <1>1, InitLock, StepLock, TypesInvariant, PTL DEF Spec

\* A shard is locked only by a task that is still inside the storage call, so
\* nothing that happens to a connection or to its task leaves it locked.
THEOREM LocksReturned == Spec => []NoOrphanLock
<1>1. LockInv => NoOrphanLock
    BY DEF LockInv
<1> QED BY <1>1, InitLock, StepLock, TypesInvariant, PTL DEF Spec

-----------------------------------------------------------------------------
(* The connection *)

Busy(c) == pc[c] \in {"entry", "downgrade", "access", "release", "send", "panicked"}

\* A connection holds a command, or its answer, or the task works on it, and
\* never two of these: the client sends only when it has its last answer.
Connection(c) ==
    /\ c2s[c] # <<>> => Len(c2s[c]) = 1 /\ s2c[c] = <<>> /\ pc[c] \in {"none", "next"}
    /\ s2c[c] # <<>> => Len(s2c[c]) = 1 /\ pc[c] \in {"next", "ended"}
    /\ client[c] \in {"new", "idle"} => c2s[c] = <<>> /\ s2c[c] = <<>> /\ pc[c] \in {"none", "next"}
    /\ client[c] = "waiting" => pc[c] # "ended" /\ (c2s[c] # <<>> \/ s2c[c] # <<>> \/ Busy(c))

FlightInv == \A c \in Clients : Connection(c)

\* A queue that holds one element is empty once it is read, and an empty one
\* holds one once it is written
LEMMA OneElementQueue ==
    ASSUME NEW S
    PROVE  /\ \A q \in Seq(S) : Len(q) = 1 => q # <<>> /\ Head(q) \in S /\ Tail(q) = <<>>
           /\ \A e \in S : Append(<<>>, e) # <<>> /\ Len(Append(<<>>, e)) = 1 /\ Head(Append(<<>>, e)) = e
<1>1. ASSUME NEW q \in Seq(S), Len(q) = 1 PROVE q # <<>> /\ Head(q) \in S
    BY <1>1
<1>2. ASSUME NEW q \in Seq(S), Len(q) = 1 PROVE Tail(q) = <<>>
    <2>1. Tail(q) \in Seq(S) /\ Len(Tail(q)) = 0
        BY <1>2, EmptySeq, HeadTailProperties, SMTT(30)
    <2> QED BY <2>1, EmptySeq
<1>3. ASSUME NEW e \in S
      PROVE  Append(<<>>, e) # <<>> /\ Len(Append(<<>>, e)) = 1 /\ Head(Append(<<>>, e)) = e
    <2>1. <<>> \in Seq(S)
        OBVIOUS
    <2>2. Len(Append(<<>>, e)) = 1 /\ Append(<<>>, e)[1] = e
        BY <2>1
    <2> QED BY <2>2
<1> QED BY <1>1, <1>2, <1>3

LEMMA FlightImpliesOneInFlight == FlightInv => OneInFlight
<1> SUFFICES ASSUME NEW c \in Clients, Connection(c)
             PROVE  /\ client[c] = "waiting" => Unanswered(c) + Len(s2c[c]) = 1
                    /\ client[c] \in {"new", "idle"} => Unanswered(c) + Len(s2c[c]) = 0
    BY DEF FlightInv, OneInFlight
<1>0. Len(<<>>) = 0
    OBVIOUS
<1>1. CASE c2s[c] # <<>>
    <2>1. Len(c2s[c]) = 1 /\ Len(s2c[c]) = 0 /\ ~Busy(c)
        BY <1>0, <1>1 DEF Connection, Busy
    <2>2. Unanswered(c) = 1
        BY <2>1 DEF Busy, Unanswered
    <2> QED BY <1>1, <2>1, <2>2 DEF Connection
<1>2. CASE c2s[c] = <<>> /\ s2c[c] # <<>>
    <2>1. Len(c2s[c]) = 0 /\ Len(s2c[c]) = 1 /\ ~Busy(c)
        BY <1>0, <1>2 DEF Connection, Busy
    <2>2. Unanswered(c) = 0
        BY <2>1 DEF Busy, Unanswered
    <2> QED BY <1>2, <2>1, <2>2 DEF Connection
<1>3. CASE c2s[c] = <<>> /\ s2c[c] = <<>>
    <2>1. Len(c2s[c]) = 0 /\ Len(s2c[c]) = 0
        BY <1>0, <1>3
    <2>2. Unanswered(c) = IF Busy(c) THEN 1 ELSE 0
        BY <2>1 DEF Busy, Unanswered
    <2>3. client[c] = "waiting" => Busy(c)
        BY <1>3 DEF Connection
    <2>4. client[c] \in {"new", "idle"} => ~Busy(c)
        BY DEF Connection, Busy
    <2> QED BY <2>1, <2>2, <2>3, <2>4
<1> QED BY <1>1, <1>2, <1>3

LEMMA InitFlight == Init => FlightInv
BY DEF Init, FlightInv, Connection

\* A connection on which nothing happens keeps the invariant
LEMMA FlightFrame ==
    ASSUME FlightInv, NEW c \in Clients, Connection(c)',
           \A d \in Clients \ {c} :
               pc'[d] = pc[d] /\ client'[d] = client[d] /\ c2s'[d] = c2s[d] /\ s2c'[d] = s2c[d]
    PROVE  FlightInv'
BY DEF FlightInv, Connection, Busy

LEMMA StepFlight == Types /\ FlightInv /\ [Next]_vars => FlightInv'
<1> SUFFICES ASSUME Types, FlightInv, [Next]_vars PROVE FlightInv'
    OBVIOUS
<1> USE DEF Types, TypeOK, storeVars, taskVars, clientVars
<1>1. CASE UNCHANGED vars
    BY <1>1 DEF vars, FlightInv, Connection, Busy
<1>2. ASSUME NEW c \in Clients, Client(c) \/ Server(c) PROVE FlightInv'
    <2>0. Connection(c) /\ c2s[c] \in Seq(Command) /\ s2c[c] \in Seq(Response)
        BY DEF FlightInv
    <2>1. CASE Call(c)
        <3>1. PICK r \in Command : c2s' = [c2s EXCEPT ![c] = Append(@, r)]
            BY <2>1, ServerAssumption DEF Call
        <3>2. Connection(c)'
            BY <2>0, <2>1, <3>1, OneElementQueue, ZenonT(40) DEF Call, Connection, Busy
        <3> QED BY <3>1, <3>2, <2>1, FlightFrame DEF Call
    <2>2. CASE Return(c)
        <3>1. Connection(c)'
            BY <2>0, <2>2, OneElementQueue DEF Return, Connection, Busy
        <3> QED BY <3>1, <2>2, FlightFrame DEF Return
    <2>3. CASE Connect(c) \/ Fail(c) \/ Leave(c) \/ Accept(c) \/ End(c) \/ SendFails(c)
        <3>1. Connection(c)'
            BY <2>0, <2>3 DEF Connect, Fail, Leave, Accept, End, SendFails, Connection, Busy, Over
        <3> QED BY <3>1, <2>3, FlightFrame DEF Connect, Fail, Leave, Accept, End, SendFails
    <2>4. CASE Receives(c)
        <3>1. Receive(c)
            BY <2>4 DEF Receives, ReceiveStorage, ReceiveOther, ReceiveEmpty
        <3>2. /\ \E p \in {"entry", "send", "panicked"} : pc' = [pc EXCEPT ![c] = p]
              /\ UNCHANGED <<client, s2c>>
            BY <2>4 DEF Receives, ReceiveStorage, ReceiveOther, ReceiveEmpty
        <3>3. c2s'[c] = <<>> /\ s2c'[c] = <<>>
            BY <2>0, <3>1, <3>2, OneElementQueue DEF Receive, Connection
        <3>4. client[c] \notin {"new", "idle"}
            BY <2>0, <3>1 DEF Receive, Connection
        <3>5. Connection(c)'
            BY <3>2, <3>3, <3>4 DEF Connection, Busy
        <3> QED BY <3>1, <3>2, <3>5, FlightFrame DEF Receive
    <2>5. CASE Store(c)
        <3>1. Connection(c)'
            BY <2>0, <2>5 DEF Store, Entry, Downgrade, Get, Set, Release, Connection, Busy
        <3> QED BY <3>1, <2>5, FlightFrame DEF Store, Entry, Downgrade, Get, Set, Release
    <2>6. CASE Send(c)
        <3>1. BeforeSend(resp[c]) \in Response
            BY HooksAssumption
        <3>2. Connection(c)'
            BY <2>0, <2>6, <3>1, OneElementQueue DEF Send, Connection, Busy
        <3> QED BY <3>2, <2>6, FlightFrame DEF Send
    <2> QED BY <1>2, <2>1, <2>2, <2>3, <2>4, <2>5, <2>6 DEF Client, Server, Sends
<1> QED BY <1>1, <1>2 DEF Next, Finished

\* Responses carry no identifier, and none is needed: execute() can only ever
\* take the answer to the command it sent, whoever else is connected.
THEOREM OneCommandPerConnection == Spec => []OneInFlight
BY FlightImpliesOneInFlight, InitFlight, StepFlight, TypesInvariant, PTL DEF Spec

-----------------------------------------------------------------------------
(* The server implements the atomic store, which loses no table or key *)

IInv == Types /\ FlightInv

LEMMA InitIInv == Init => IInv
BY InitTypes, InitFlight DEF IInv

LEMMA StepIInv == IInv /\ [Next]_vars => IInv'
BY StepTypes, StepFlight DEF IInv

LEMMA IInvInvariant == Spec => []IInv
BY InitIInv, StepIInv, PTL DEF Spec

-----------------------------------------------------------------------------
(* What a step of c that leaves the others alone does to the abstract state *)

LEMMA OpUnchanged ==
    ASSUME NEW c \in Clients, OpOf(c)' = OpOf(c),
           \A d \in Clients \ {c} :
               /\ pc'[d] = pc[d] /\ cmd'[d] = cmd[d] /\ resp'[d] = resp[d]
               /\ c2s'[d] = c2s[d] /\ s2c'[d] = s2c[d]
    PROVE  OpBar' = OpBar
BY DEF OpBar, OpOf

LEMMA OpChanged ==
    ASSUME NEW c \in Clients, NEW o, OpOf(c)' = o,
           \A d \in Clients \ {c} :
               /\ pc'[d] = pc[d] /\ cmd'[d] = cmd[d] /\ resp'[d] = resp[d]
               /\ c2s'[d] = c2s[d] /\ s2c'[d] = s2c[d]
    PROVE  OpBar' = [OpBar EXCEPT ![c] = o]
<1>1. \A d \in Clients \ {c} : OpOf(d)' = OpOf(d)
    BY DEF OpOf
<1> QED BY <1>1 DEF OpBar

\* The abstract module reads the same definitions of the data
LEMMA SameData ==
    /\ \A r : Atomic!Answer(r) = Answer(r)
    /\ \A v : Atomic!HgetResponse(v) = HgetResponse(v) /\ Atomic!HsetResponse(v) = HsetResponse(v)
    /\ \A m : Atomic!ErrResponse(m) = ErrResponse(m)
    /\ Atomic!DefaultResponse = DefaultResponse
    /\ \A r : Atomic!Stored(r) = Stored(r)
BY DEF Atomic!Answer, Answer, Atomic!HgetResponse, HgetResponse, Atomic!HsetResponse, HsetResponse,
   Atomic!ErrResponse, ErrResponse, Atomic!OkResponse, OkResponse,
   Atomic!DefaultResponse, DefaultResponse, Atomic!Stored, Stored

LEMMA InitAtomic == Init => Atomic!Init
<1> SUFFICES ASSUME Init PROVE Atomic!Init
    OBVIOUS
<1>1. StoreBar = [t \in Tables |-> [k \in Keys |-> NoValue]]
    BY DEF Init, StoreBar, EmptyTable
<1>2. OpenBar = {}
    BY DEF Init, OpenBar
<1>3. OpBar = [c \in Clients |-> [st |-> "none"]]
    BY DEF Init, OpBar, OpOf
<1> QED BY <1>1, <1>2, <1>3 DEF Atomic!Init, Atomic!NoOp

LEMMA ClientStep ==
    ASSUME IInv, NEW c \in Clients, Client(c)
    PROVE  Atomic!Next \/ UNCHANGED Atomic!vars
<1> USE DEF IInv, Types, TypeOK, storeVars, taskVars, clientVars
<1>0. Connection(c) /\ c2s[c] \in Seq(Command) /\ s2c[c] \in Seq(Response) /\ OpBar[c] = OpOf(c)
    BY DEF FlightInv, OpBar
<1>1. CASE Connect(c)
    <2>1. OpenBar' = OpenBar \cup {c} /\ c \notin OpenBar
        BY <1>1 DEF Connect, OpenBar
    <2>2. UNCHANGED <<StoreBar, OpBar>>
        BY <1>1 DEF Connect, StoreBar, OpBar, OpOf
    <2>3. OpBar[c].st = "none"
        BY <1>0, <1>1 DEF Connect, Connection, OpOf
    <2> QED BY <2>1, <2>2, <2>3 DEF Atomic!Next, Atomic!Open, Atomic!Idle
<1>2. CASE Call(c)
    <2>1. PICK r \in Requests : c2s' = [c2s EXCEPT ![c] = Append(@, r)]
        BY <1>2 DEF Call
    <2>2. c2s[c] = <<>> /\ s2c[c] = <<>> /\ pc[c] \in {"none", "next"}
        BY <1>0, <1>2 DEF Call, Connection
    <2>3. c2s'[c] # <<>> /\ Head(c2s'[c]) = r
        BY <2>1, <2>2, ServerAssumption, OneElementQueue
    <2>4. OpOf(c)' = [st |-> "called", cmd |-> r]
        BY <2>3 DEF OpOf
    <2>5. OpBar' = [OpBar EXCEPT ![c] = [st |-> "called", cmd |-> r]]
        BY <1>2, <2>4, OpChanged DEF Call
    <2>6. OpBar[c].st = "none"
        BY <1>0, <2>2 DEF OpOf
    <2>7. c \in OpenBar /\ UNCHANGED <<StoreBar, OpenBar>>
        BY <1>2 DEF Call, OpenBar, StoreBar
    <2> QED BY <2>5, <2>6, <2>7 DEF Atomic!Next, Atomic!Call, Atomic!Idle
<1>3. CASE Return(c)
    <2>1. c2s[c] = <<>> /\ pc[c] = "next" /\ Len(s2c[c]) = 1
        BY <1>0, <1>3 DEF Return, Connection
    <2>2. s2c'[c] = <<>>
        BY <1>0, <1>3, <2>1, OneElementQueue DEF Return
    <2>3. OpOf(c)' = [st |-> "none"]
        BY <1>3, <2>1, <2>2 DEF Return, OpOf
    <2>4. OpBar' = [OpBar EXCEPT ![c] = [st |-> "none"]]
        BY <1>3, <2>3, OpChanged DEF Return
    <2>5. OpBar[c].st = "answered"
        BY <1>0, <1>3, <2>1 DEF Return, OpOf
    <2>6. UNCHANGED <<StoreBar, OpenBar>>
        BY <1>3 DEF Return, OpenBar, StoreBar
    <2> QED BY <2>4, <2>5, <2>6 DEF Atomic!Next, Atomic!Return, Atomic!NoOp
<1>4. CASE Fail(c) \/ Leave(c)
    <2>1. c \in OpenBar /\ OpenBar' = OpenBar \ {c}
        BY <1>4 DEF Fail, Leave, OpenBar
    <2>2. UNCHANGED <<StoreBar, OpBar>>
        BY <1>4 DEF Fail, Leave, StoreBar, OpBar, OpOf
    <2> QED BY <2>1, <2>2 DEF Atomic!Next, Atomic!Leave
<1> QED BY <1>1, <1>2, <1>3, <1>4 DEF Client

LEMMA StoreOfSet ==
    ASSUME Types, NEW c \in Clients, Set(c)
    PROVE  StoreBar' = [StoreBar EXCEPT ![cmd[c].table][cmd[c].key] = Stored(cmd[c])]
<1> USE DEF Types, TypeOK
<1>1. cmd[c].table \in Tables /\ cmd[c].key \in Keys
    BY DEF Command
<1>2. tables[cmd[c].table] \in Table
    BY <1>1 DEF Set, TableExists, InStorage
<1>3. [tables[cmd[c].table] EXCEPT ![cmd[c].key] = Stored(cmd[c])] \in Table
    BY <1>1, <1>2, ResponsesTyped DEF Table, OptVal
<1>4. tables' = [tables EXCEPT ![cmd[c].table] =
                    [tables[cmd[c].table] EXCEPT ![cmd[c].key] = Stored(cmd[c])]]
    BY DEF Set
<1>5. StoreBar[cmd[c].table] = tables[cmd[c].table]
    BY <1>1, <1>2, ServerAssumption DEF StoreBar
<1>6. StoreBar' = [StoreBar EXCEPT ![cmd[c].table] =
                    [tables[cmd[c].table] EXCEPT ![cmd[c].key] = Stored(cmd[c])]]
    BY <1>1, <1>3, <1>4, ServerAssumption DEF StoreBar
<1> QED BY <1>5, <1>6

LEMMA ServerStep ==
    ASSUME IInv, NEW c \in Clients, Server(c)
    PROVE  Atomic!Next \/ UNCHANGED Atomic!vars
<1> USE DEF IInv, Types, TypeOK, storeVars, taskVars, clientVars
<1>0. Connection(c) /\ c2s[c] \in Seq(Command) /\ s2c[c] \in Seq(Response) /\ OpBar[c] = OpOf(c)
    BY DEF FlightInv, OpBar
<1>00. UNCHANGED OpenBar
    BY DEF Server, Accept, Receives, ReceiveStorage, ReceiveOther, ReceiveEmpty, Receive,
       Store, Entry, Downgrade, Get, Set, Release, Sends, Send, SendFails, End, OpenBar
<1>1. CASE Accept(c) \/ End(c)
    <2>1. UNCHANGED <<StoreBar, OpBar>>
        BY <1>1 DEF Accept, End, StoreBar, OpBar, OpOf
    <2> QED BY <2>1, <1>00 DEF Atomic!vars
<1>2. CASE Receives(c)
    <2>1. Receive(c) /\ UNCHANGED <<storeVars, s2c>>
        BY <1>2 DEF Receives, ReceiveStorage, ReceiveOther, ReceiveEmpty
    <2>2. UNCHANGED StoreBar
        BY <2>1 DEF StoreBar
    <2>3. c2s'[c] = <<>> /\ c2s[c] # <<>> /\ cmd'[c] = Head(c2s[c]) /\ cmd'[c] \in Command
        BY <1>0, <2>1, OneElementQueue DEF Receive, Connection
    <2>4. OpBar[c] = [st |-> "called", cmd |-> cmd'[c]]
        BY <1>0, <2>3 DEF OpOf
    <2>5. CASE ReceiveStorage(c) \/ ReceiveEmpty(c)
        <3>1. pc'[c] \in {"entry", "panicked"}
            BY <2>5 DEF ReceiveStorage, ReceiveEmpty
        <3>2. OpOf(c)' = OpOf(c)
            BY <3>1, <1>0, <2>3, <2>4 DEF OpOf
        <3>3. UNCHANGED OpBar
            BY <2>5, <3>2, <2>1, OpUnchanged DEF ReceiveStorage, ReceiveEmpty, Receive
        <3> QED BY <3>3, <2>2, <1>00 DEF Atomic!vars
    <2>6. CASE ReceiveOther(c)
        <3>1. pc'[c] = "send" /\ cmd'[c].op \in {"hset_nopair", "unsupported"}
            BY <2>6 DEF ReceiveOther
        <3>2. Answer(resp'[c]) = Atomic!AnswerTo(cmd'[c])
            <4>1. CASE cmd'[c].op = "hset_nopair"
                <5>1. resp'[c] = ErrResponse("invalid command")
                    BY <2>6, <4>1 DEF ReceiveOther
                <5>2. Atomic!AnswerTo(cmd'[c]) = Answer(ErrResponse("invalid command"))
                    BY <4>1, SameData DEF Atomic!AnswerTo
                <5> QED BY <5>1, <5>2
            <4>2. CASE cmd'[c].op = "unsupported"
                <5>1. resp'[c] = DefaultResponse
                    BY <2>6, <4>2 DEF ReceiveOther
                <5>2. Atomic!AnswerTo(cmd'[c]) = Answer(DefaultResponse)
                    BY <4>2, SameData DEF Atomic!AnswerTo
                <5> QED BY <5>1, <5>2
            <4> QED BY <3>1, <4>1, <4>2
        <3>3. OpOf(c)' = [st |-> "answered", cmd |-> cmd'[c], answer |-> Atomic!AnswerTo(cmd'[c])]
            BY <3>1, <3>2, <2>3 DEF OpOf
        <3>4. OpBar' = [OpBar EXCEPT ![c] =
                  [st |-> "answered", cmd |-> cmd'[c], answer |-> Atomic!AnswerTo(cmd'[c])]]
            BY <2>6, <3>3, <2>1, OpChanged DEF ReceiveOther, Receive
        <3>5. OpBar[c].st = "called" /\ OpBar[c].cmd = cmd'[c]
            BY <2>4
        <3> QED BY <3>1, <3>4, <3>5, <2>2, <1>00 DEF Atomic!Next, Atomic!TakeEffect
    <2> QED BY <1>2, <2>5, <2>6 DEF Receives
<1>3. CASE Entry(c) \/ Downgrade(c)
    <2>1. cmd[c].table \in Tables
        BY DEF Command
    <2>2. UNCHANGED StoreBar
        BY <1>3, <2>1, ResponsesTyped, ServerAssumption DEF Entry, Downgrade, StoreBar
    <2>3. OpOf(c)' = OpOf(c)
        BY <1>3 DEF Entry, Downgrade, OpOf
    <2>4. UNCHANGED OpBar
        BY <1>3, <2>3, OpUnchanged DEF Entry, Downgrade
    <2> QED BY <2>2, <2>4, <1>00 DEF Atomic!vars
<1>4. CASE Get(c) \/ Set(c)
    <2>1. pc[c] = "access" /\ pc'[c] = "release" /\ UNCHANGED <<cmd, c2s, s2c>>
        BY <1>4 DEF Get, Set
    <2>2. c2s[c] = <<>>
        BY <1>0, <2>1 DEF Connection
    <2>3. cmd[c].table \in Tables /\ cmd[c].key \in Keys /\ cmd[c].op # "empty"
        BY <1>4 DEF Get, Set, Command
    <2>4. StoreBar[cmd[c].table] = tables[cmd[c].table]
        BY <2>1, <2>3, ServerAssumption DEF StoreBar, TableExists, InStorage
    <2>5. Answer(resp'[c]) = Atomic!AnswerTo(cmd[c])
        <3>1. CASE Get(c)
            <4>1. resp'[c] = HgetResponse(tables[cmd[c].table][cmd[c].key]) /\ cmd[c].op = "hget"
                BY <3>1 DEF Get
            <4>2. Atomic!AnswerTo(cmd[c]) = Answer(HgetResponse(StoreBar[cmd[c].table][cmd[c].key]))
                BY <4>1, SameData DEF Atomic!AnswerTo
            <4> QED BY <4>1, <4>2, <2>4
        <3>2. CASE Set(c)
            <4>1. resp'[c] = HsetResponse(tables[cmd[c].table][cmd[c].key]) /\ cmd[c].op = "hset"
                BY <3>2 DEF Set
            <4>2. Atomic!AnswerTo(cmd[c]) = Answer(HsetResponse(StoreBar[cmd[c].table][cmd[c].key]))
                BY <4>1, SameData DEF Atomic!AnswerTo
            <4> QED BY <4>1, <4>2, <2>4
        <3> QED BY <1>4, <3>1, <3>2
    <2>6. OpOf(c)' = [st |-> "answered", cmd |-> cmd[c], answer |-> Atomic!AnswerTo(cmd[c])]
        BY <2>1, <2>2, <2>5 DEF OpOf
    <2>7. OpBar' = [OpBar EXCEPT ![c] =
              [st |-> "answered", cmd |-> cmd[c], answer |-> Atomic!AnswerTo(cmd[c])]]
        BY <1>4, <2>6, OpChanged DEF Get, Set
    <2>8. OpBar[c].st = "called" /\ OpBar[c].cmd = cmd[c]
        BY <1>0, <2>1, <2>2 DEF OpOf
    <2>9. StoreBar' = IF cmd[c].op = "hset"
                      THEN [StoreBar EXCEPT ![cmd[c].table][cmd[c].key] = Stored(cmd[c])]
                      ELSE StoreBar
        BY <1>4, StoreOfSet DEF Get, Set, StoreBar
    <2> QED BY <2>3, <2>7, <2>8, <2>9, <1>00, SameData DEF Atomic!Next, Atomic!TakeEffect
<1>5. CASE Release(c)
    <2>1. OpOf(c)' = OpOf(c)
        BY <1>5 DEF Release, OpOf
    <2>2. UNCHANGED <<StoreBar, OpBar>>
        BY <1>5, <2>1, OpUnchanged DEF Release, StoreBar
    <2> QED BY <2>2, <1>00 DEF Atomic!vars
<1>6. CASE Send(c)
    <2>1. c2s[c] = <<>> /\ s2c[c] = <<>>
        BY <1>0, <1>6 DEF Send, Connection
    <2>2. BeforeSend(resp[c]) \in Response /\ Answer(BeforeSend(resp[c])) = Answer(resp[c])
        BY HooksAssumption
    <2>3. s2c'[c] # <<>> /\ Head(s2c'[c]) = BeforeSend(resp[c])
        BY <1>6, <2>1, <2>2, OneElementQueue DEF Send
    <2>4. pc[c] = "send" /\ pc'[c] = "next" /\ UNCHANGED <<cmd, c2s>>
        BY <1>6 DEF Send
    <2>5. OpOf(c)' = [st |-> "answered", cmd |-> cmd[c], answer |-> Answer(resp[c])]
        BY <2>1, <2>2, <2>3, <2>4 DEF OpOf
    <2>6. OpOf(c) = [st |-> "answered", cmd |-> cmd[c], answer |-> Answer(resp[c])]
        BY <2>1, <2>4 DEF OpOf
    <2>7. UNCHANGED <<StoreBar, OpBar>>
        BY <1>6, <2>5, <2>6, OpUnchanged DEF Send, StoreBar
    <2> QED BY <2>7, <1>00 DEF Atomic!vars
<1>7. CASE SendFails(c)
    <2>1. c2s[c] = <<>> /\ s2c[c] = <<>>
        BY <1>0, <1>7 DEF SendFails, Connection
    <2>2. OpOf(c)' = [st |-> "none"] /\ OpOf(c).st = "answered"
        BY <1>7, <2>1 DEF SendFails, OpOf
    <2>3. OpBar' = [OpBar EXCEPT ![c] = [st |-> "none"]]
        BY <1>7, <2>2, OpChanged DEF SendFails
    <2>4. UNCHANGED StoreBar
        BY <1>7 DEF SendFails, StoreBar
    <2> QED BY <1>0, <2>2, <2>3, <2>4, <1>00 DEF Atomic!Next, Atomic!Return, Atomic!NoOp
<1> QED BY <1>1, <1>2, <1>3, <1>4, <1>5, <1>6, <1>7 DEF Server, Store, Sends

LEMMA StepAtomic == IInv /\ [Next]_vars => [Atomic!Next]_Atomic!vars
<1> SUFFICES ASSUME IInv, [Next]_vars PROVE Atomic!Next \/ UNCHANGED Atomic!vars
    OBVIOUS
<1>1. CASE UNCHANGED vars
    BY <1>1 DEF vars, Atomic!vars, StoreBar, OpenBar, OpBar, OpOf
<1> QED BY <1>1, ClientStep, ServerStep DEF Next, Finished

\* Whatever the clients do and wherever they die, the commands of the server
\* are those of one map on which each takes effect at one instant between its
\* call and its answer, at most once, with the answer of that instant.
THEOREM Linearizability == Spec => Linearizable
<1>1. Spec => Atomic!Init /\ [][Atomic!Next]_Atomic!vars
    BY InitAtomic, StepAtomic, IInvInvariant, PTL DEF Spec
<1> QED BY <1>1 DEF Linearizable, Atomic!Spec

-----------------------------------------------------------------------------
(* The store never loses anything *)

LEMMA StepKeeps == Types /\ [Next]_vars => [KeepsTablesAndKeys]_vars
<1> SUFFICES ASSUME Types, Next PROVE KeepsTablesAndKeys \/ UNCHANGED tables
    BY DEF KeepsTablesAndKeys, vars
<1> USE DEF Types, TypeOK, storeVars
<1>1. ASSUME NEW c \in Clients, Client(c) PROVE UNCHANGED tables
    BY <1>1 DEF Client, Connect, Call, Return, Fail, Leave
<1>2. ASSUME NEW c \in Clients, Server(c) PROVE KeepsTablesAndKeys \/ UNCHANGED tables
    <2>1. CASE Entry(c)
        BY <2>1, ResponsesTyped, ServerAssumption DEF Entry, KeepsTablesAndKeys
    <2>2. CASE Set(c)
        <3>1. cmd[c].table \in Tables /\ cmd[c].key \in Keys
            BY DEF Command
        <3>2. tables[cmd[c].table] \in Table
            BY <2>2, <3>1 DEF Set, TableExists, InStorage
        <3>3. Stored(cmd[c]) \in Vals /\ NoValue \notin Vals
            BY ResponsesTyped, DataAssumption
        <3>4. [tables[cmd[c].table] EXCEPT ![cmd[c].key] = Stored(cmd[c])] \in Table
            BY <3>1, <3>2, <3>3 DEF Table, OptVal
        <3>5. tables' = [tables EXCEPT ![cmd[c].table] =
                            [tables[cmd[c].table] EXCEPT ![cmd[c].key] = Stored(cmd[c])]]
            BY <2>2 DEF Set
        <3> QED BY <3>1, <3>2, <3>3, <3>4, <3>5, ServerAssumption DEF KeepsTablesAndKeys, Table
    <2> QED BY <1>2, <2>1, <2>2 DEF Server, Accept, Receives, ReceiveStorage, ReceiveOther,
            ReceiveEmpty, Receive, Store, Downgrade, Get, Release, Sends, Send, SendFails, End
<1> QED BY <1>1, <1>2 DEF Next, Finished, vars

\* No interleaving of tasks that create the same table, or write the same keys,
\* removes a table or a key: a racing or_default never replaces a table.
THEOREM StoreOnlyGrows == Spec => NothingLost
<1>1. Types /\ [Next]_vars => [KeepsTablesAndKeys]_vars
    BY StepKeeps
<1> QED BY <1>1, TypesInvariant, PTL DEF Spec, NothingLost

==============================================================================
