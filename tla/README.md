# A verification development of Rust_learn

The repository is a collection of Rust programs. This directory holds TLA+
modules for the ones that keep state, TLC configurations that check them on
small instances, and proofs of the main results that TLAPS checks for every
instance. The largest program, and the heart of this development, is
`tiny-kv-server`: a key-value server over TCP with its own framing,
compression, encryption and multiplexing. Next to it stand a thread pool, an
asynchronous executor, and smaller programs: a pipeline, a proof of work, a
linked list, two plugin hosts, solutions of algorithmic problems, and lessons.

## Inventory

| Component | State | Operations | Interacts with | What makes it correct |
|---|---|---|---|---|
| Server of `tiny-kv-server` (`bins/server.rs`, `networking/service.rs`, `service/`) | one task per connection; the command and response it has in hand | accept, `process`, `dispatch`, hooks | clients over a connection each, the storage | one answer per command, a task ends with its client, a panic stays in its connection |
| Client (`networking/service.rs`, `bins/client.rs`) | the call in progress | `execute` | the server | the answer of a call is that of its command; every call returns |
| Commands (`service/cmd_service.rs`, `pb/`, `abi.proto`) | none | `Hget`, `Hset` and their responses | the storage | the answers of one atomic map |
| Storage (`storage/memory.rs`) | a `DashMap` of tables, each a `DashMap`; the lock of each shard | `get`, `set`, `get_or_create_table` | every server task | linearizable; no table or key is lost; no lock is left behind |
| Framing (`networking/frame.rs`, `networking/stream.rs`) | `wbuf`, `wlen`, `rbuf` | `start_send`, `poll_flush`, `poll_next`, `encoded_frame`, `decode_frame`, `read_frame` | the stream below | messages arrive in order, once, all of them |
| Encryption (`networking/tls.rs`) | `ReadState`, the buffer of a record | `poll_write`, `poll_read`, `poll_shutdown` | the TCP stream below, the framing above | the plaintext given out is the plaintext written |
| Multiplexing (`networking/yamux.rs`) | `tx_to_logic`, `streams`, `next_id`, channels of 100 frames | `open_stream`, `read_loop`, `poll_next_inbound`, `read`, `write` | the TCP stream below | frames of a logical stream arrive in order at that stream |
| Thread pool (`examples/Threadpool`) | job channel, receiver behind a mutex, join handles | `execute`, worker loop, `drop` | jobs, which may panic | every job runs once, in parallel; drop waits for all of them |
| Executor (`async_executor`) | task channel, the future of each task, the shared state of each sleep | `spawn`, `run`, `wake`, `AsyncSleep::poll` and its thread | futures, timer threads | no lost wakeup; `run` returns when everything has completed |
| Proof of work (`pow`) | a Relaxed flag and a channel | `find` in eight threads, `main` | each other | a solution within reach is reported, and no residue class skips one |
| Pipeline (`design-pattern/src/pipeline.rs`) | three channels, one task in hand per stage | three stages, the test that feeds them | each other | a FIFO that drains when its sender is dropped |
| Plugins (`runtime_plugin.rs`, `compiletime_plugin.rs`) | commands, events and their handlers; two components | `register_cmd`, `register_events`, `execute_cmd`, `emit_event`; `build_*`, `launch_node` | the plugins | who is called, in which order |
| Linked list (`linked_list`) | a chain of boxes | `push`, `pop`, `peek`, `peek_mut`, iterators, `drop` | - | a stack; every box is freed once |
| `leetcode` | none | eight problems, ten functions | - | each against its definition |
| Concurrency lessons (`concepts/08`, `concepts/12`) | a mutex; values that point to themselves and wrappers around them | lock, add; `new`, `init`, swap, move, wrap | - | the test ends; a pinned value stays where it is |
| Data lessons (`concepts/05`, `07`, `09`, `11`) | a list, a semaphore, a string, two iterators | `index`, `aquire`, `deref`, `next`, `wnext` | - | each against its definition |
| Language lessons, `serde`, `eth`, `wasm-compile` | none | - | libraries | - |

The behaviours that are hard here: tasks that create the same table at once
and the lock they hold while they read it; connections without request
identifiers; bytes that arrive in any portions, futures that are dropped between
two polls, and buffers reused across them; clients that leave at any point;
channels that fill up while others wait for them; jobs that panic and a pool
dropped while others run; a timer that fires while the task it wakes is being
polled; flags that are read late. `PROJECT.json` lists them as hazards, each
at its line and with the properties that would catch it.

## Modules

| Module | Models | Composed with |
|---|---|---|
| `KvCommands` | commands, responses, and what `Hget` and `Hset` make of a storage result | - |
| `AtomicStore` | abstract specification: a map on which each command takes effect at one instant, at most once | extends `KvCommands` |
| `KvServer` | clients, connections, server tasks, `MemStore` with its shard locks | extends `KvCommands`, implements `AtomicStore` |
| `FrameStream` | one direction of a connection: Sink half, network, Stream half | - |
| `SecureStream` | one direction of an encrypted stream: `poll_write`, network, `poll_read` | - |
| `Threadpool` | owner and workers of the pool | - |
| `AsyncExecutor` | spawner, executor and timer threads | - |
| `Yamux` | both ends of a multiplexed connection: streams, writer tasks, `read_loop`, `poll_next_inbound`, echo handlers | - |
| `Pipeline`, `Fifo` | three stages over channels; what they promise | `Pipeline` implements `Fifo` |
| `ProofOfWork` | the threads that search, their flag, `main` | - |
| `LinkedList`, `Stack` | boxes, links and iterators; what they promise | `LinkedList` implements `Stack` |
| `Pinned` | self-referential values, places and pins | - |
| `MutexLesson` | the mutex of the test `sync` | - |
| `Leetcode`, `Plugins`, `Lessons` | the functions, as operators, each with its reference definition and the inputs of its tests | - |
| `Algorithms` | a call of one of these functions and its return | extends the three above |
| `Inputs` | the calls of functions that TLC checks | extends `Algorithms` |
| `MCPrograms` | one of the programs that stand alone | extends `Inputs` and `AsyncExecutor`, instantiates the others |
| `MC*` | instances for TLC | extend the module of that name |
| `Functions_proofs` | proofs about the functions | extends `Algorithms` |
| `*_proofs` | proofs | extend the module they are about, `Programs_proofs` extends `MCPrograms` |
| `SequenceLemmas` | lemmas about joined sequences and prefixes, loops and folds | extended by the other proofs |

Definitions whose comment begins with "Mutant:" are deliberate errors,
each the way a plausible bug would change the definition that follows. Put in
its place they break the property `PROJECT.json` names with them, which shows
that the property constrains the code. No specification uses them.

### KvServer

`pc[c]` is the position of `ServerService::process` of connection `c`: `next`
(in `inner.next().await`), `entry`, `downgrade`, `access`, `release` (inside
`MemStore::get` or `set`), `send`, then `ended` or `panicked`. The storage call
is four steps because other tasks run between them: `entry()` takes the write
lock of the shard and `or_default` creates the table, `downgrade` turns that
lock into a read lock, the call on the inner map happens under that map's own
lock and so at once, and the guard is dropped. A connection is a pair of FIFO
queues of decoded messages; `FrameStream` and `SecureStream` say when that
abstraction is justified. The `on_before_send` hooks are the constant operator
`BeforeSend`, of which only that it preserves status and value is assumed;
the instance uses the hook of `bins/server.rs`. `empty` is a request without
`request_data`, on which `dispatch` panics; the panic drops the connection and
the client's `unwrap` of the error ends the client.

`Linearizable` is the refinement `Atomic!Spec`: the abstract store is `tables`
with missing tables read as empty ones, and the abstract operation of a client
is found where its command or response is. The command takes effect in `Get`,
in `Set`, or when `dispatch` answers it without the storage.

### FrameStream

The bytes in `wbuf`, on the wire and at the reader are tokens, so that the
model knows what a reader sees that looks at the wrong place: four bytes that
are not a header are any number, a body that is not the body of one message
does not decode. `layer` picks the stream below for a whole behaviour: a TCP
socket takes and gives any number of bytes; a SecureStream takes all it is
offered and gives it out once the record is complete. `poll_next` is
`PollReady` when the whole frame can be read, and `PollPartial` when it cannot:
then the future of `read_frame` is dropped with the bytes it has consumed.
`Abandon` is a caller that drops a send future while `poll_write` is Pending.

Two things can happen that the code does not survive, and the history variable
`harm` records them: a read is `cut`, or a compressed frame is `stuffed` into a
`wbuf` that is not empty. The properties say that these are the only ones.

### SecureStream

`state`, `header`, `total`, `buf` and `cap` are `ReadState` and the BytesMut
that collects a record, with the capacity it has left: `split_off`,
`chunk_mut`, `unsplit` and `advance_mut` are modelled by what they do to length
and capacity, because that decides how far a read may go. Encryption is
perfect: exactly the bytes of one record decrypt. `harm` records a short write
(`torn`) and a Pending read inside a record (`starved`).

### Threadpool

`pc[w]` follows the loop of a worker: `lock`, `recv`, `run`, then `stopped` or
`panicked`. The guard of the receiver is a temporary of the `let` statement, so
it is released with the job in hand. The owner submits jobs, drops the sender,
and joins the workers in the order of their ids; `unwrap` of a failed send or
join is a panic of the owner.

### AsyncExecutor

A task awaits groups of sleeps one after the other, joining the sleeps of a
group. The thread of a sleep is `sleeping`, `waking` (it has locked the shared
state, set `completed` and taken the waker), `dropping` (it has sent the task
and still holds an Arc of it) and `ended`. `recv` fails when no Sender is left,
and every Arc of a task counts as one: in the queue, in a stored waker, in a
waking thread.

### Yamux

The client opens streams, then gives its connection to `read_loop`; the server
is the `echo_server` of the tests. `outbox` and `replies` are the two channels
`tx_to_conn`, `inbox[s]` is the channel of a logical stream, `held` the frame
`read_loop` has in hand while it waits for that channel. Nothing is ever
inserted into `streams`, so `poll_next_inbound` takes its second branch for
every frame: it makes a LogicStream, and `try_for_each_concurrent` a handler,
which reads one frame, answers it and finds its channel closed when the next
frame replaces its sender. That is why a handler is the frame it answers, and
why there is no queue per stream at the server. `Accept` polls the new handler
at once, as `FuturesUnordered` does: it sends if the channel has a free permit
and otherwise joins the queue of the semaphore; `ServerWrites` frees a permit
and gives it to the first in that queue, and `Reply` is the handler that runs
with it. Between the two, a new handler may run first and find another free
permit, when the writer task runs on another thread than the handlers: this is
how an answer overtakes an earlier one. On a runtime of one thread, as in the
test, the order in which handlers are woken rules that out.

Two histories say when less is promised: `waited`, that a handler had to wait
for a permit, and `lost`, that the server was polled when only a part of a frame
had arrived, which throws that part away.

### The programs that stand alone

`MCPrograms` chooses one of them in its initial state; the others stay where
they begin. Each of its next-state disjuncts is the next-state relation of one
module, with the variables of the others unchanged, so that what is shown of a
program is what a run of that module alone would show.

- `Pipeline`: channel `i` leads to stage `i`; a stage takes a task, passes it on,
  and ends when its channel is empty and the stage before it has ended. The test
  may end at any moment after it has dropped its sender: it joins nobody.
- `ProofOfWork`: the numbers `verify` accepts are any set. A thread may see the
  flag unset after it was set (it is Relaxed), may send a second solution, and
  panics when the receiver is gone; `main` exits after the first.
- `LinkedList`: `heap` holds the boxes in use. An iterator borrows the list. Its
  boxes are the one way from the head along the links; a list with a box that is
  leaked or used after it was freed has none, and maps to no stack.
- `Pinned`: a place is a variable of the caller; a pointer leads to a place or
  nowhere. `Mutable` is what the bound of `deref_mut` makes of a wrapper.
  `SelfReferentialPin::new` returns a value that points to its own local: whether
  it still points to itself afterwards depends on the build, so both happen.
- `Leetcode`, `Plugins`, `Lessons`: a loop is a fold or a recursive function of what
  it changes; a panic is a result. Functions that go through a hash map are
  computed for every order of its keys. `Algorithms` makes them a state machine
  of one call and its return. `Computed` compares each result with a
  definition that shares nothing with the algorithm: what the comment at the head
  of the function promises, exactly. Three functions keep that promise for a part of
  their inputs only, and `Supported` splits them off: `lc_3` for characters of one
  byte (see `promise`), the two ways of `lc_128` for keys that are not an end of
  `i32` the key after it, or before it, is computed from; where overflow is checked
  they panic there. `PromiseKept` is `Computed` without that split. `Valid` says what a function
  may be called with: any vectors of integers, any heights that are not
  negative, any search tree, keys that are `i32`, any sequence of calls of a host.
  It is an assumption on `Calls`, `CallsAssumption`, which TLC evaluates, and all that
  the proofs know of the inputs. `TestsPass`, another assumption that TLC
  evaluates, says that the inputs of the repository's tests give what those tests
  expect.

### MutexLesson

The statements of the last part of the test `sync` and of the thread it spawns.
A lock that its own thread holds does not return.

## Runs

| Run | What it shows | Bounds, and why they are enough |
|---|---|---|
| `kv_mixed` | types, pairing of requests and responses, every call returns, tasks end | 2 clients, 2 calls each, one key, six kinds of request: a second call is needed for a response to be late, a second client to compete for the table |
| `kv_store` | exclusion and return of shard locks, no lost table or key, linearizability | 3 clients, 1 call each, 2 tables in one shard, 2 values: two tasks in the shard and one waiting, every pair of conflicting commands; clients are symmetric |
| `kv_status` (violation) | status 0 is not an HTTP status | 1 client, 1 call |
| `frames` | order, completeness, integrity of the wire | 3 messages of an empty, a plain and a compressed body over either layer: one abandoned, one behind it, one after both |
| `frames_cut` (violation) | a read that is cut loses the place in the stream | as `frames` |
| `frames_stuffed` (violation) | a compressed frame swallows the abandoned one | as `frames` |
| `secure` | nothing wrong is ever given out; unless torn or starved, everything is | 2 records of 1 or 2 bytes: a read past the end of one is in the other |
| `secure_pending` (violation) | a Pending read inside a record makes the reader fail | as `secure` |
| `yamux` | every frame is in one place; answers in order; reads return | 2 streams, 3 writes each; channels of 2 and 1 frames, 1 frame in each direction of the socket: one stream can fill every queue on the way and hold up the other, and two frames of a stream compete for permits with a third of any stream |
| `programs` | executor: no lost wakeup, `run` returns exactly when all is done | 3 tasks: a join of two sleeps followed by an await, one await, none |
| | thread pool: lock discipline, each job once, drop waits, no job is stuck | 3 workers, 4 jobs: more jobs than workers, so that every worker may be lost and the next job be refused |
| | pipeline: FIFO, drains | 4 tasks: one in each stage and one behind |
| | proof of work: what is printed is the first solution of its residue class, one is reported | 3 threads, numbers up to 5, all 64 sets of solutions: several in one class, in all of them, none |
| | linked list: a stack with iterators; every box is freed | 3 boxes, 2 values: a first, a middle and a last box |
| | pins: a pinned value points to itself | 2 places, as many as the calls take |
| | functions: each result is right, on all small inputs that `Supported` names and on those of the tests | vectors of up to 4 or 5 numbers around the bounds that matter, `i32` scaled to -3..2 for `lc_128`, search trees of up to 4 nodes, up to 4 calls of a host |
| `promise` (violation) | `lc_3` does not return the length of the longest substring once a character has two bytes | strings of up to 5 of three characters |
| `mutex_lesson` (violation) | the test `sync` never gets to the shared value | none |

Header lengths, limits and capacities are scaled down (`HEADER_LEN` 2,
`COMPRESSION_LIMIT` 1, `COMPRESSION_BIT` 16, records of 3 or 4 bytes, channels
of 100 frames to 2 and 1, `MAX_LEN` 2): the code
compares them only with each other and with the lengths of messages. `MaxCalls`,
`MaxSends`, `MaxRecords`, `MaxJobs`, `MaxStreams`, `MaxWrites`, `MaxTasks` and
`Boxes` bound what the environment does, never what the code does; `MaxNum` ends
a search that would go on for ever. Only `mutex_lesson` turns deadlock checking
off, since a deadlock is what it shows: the other specifications have a
`Finished` step (`CallEnded`, `Over` in `MCPrograms`) for the states in which the program is
over.

### Fairness

Weak fairness stands for Tokio polling woken tasks, the operating system
scheduling threads, locks being granted, the network delivering what was
written, jobs and sleeps ending. Nothing is assumed of callers: no fairness
makes a client connect, call or leave, a job be submitted, a send be resumed, or
a pool or spawner be dropped.

In `Yamux` the writer tasks, `read_loop`, the server's stream of inbound frames,
handlers with a permit and pending reads are scheduled; users write, read and
leave as they like. In `MCPrograms` each program has the fairness of its module (`ProgramsFairness`
writes it once for the program that runs): `run` and the threads of the sleeps,
workers and owner of the pool once it drops it, the stages of the pipeline but
not the end of the test's sleep, the searching threads and `main`. The functions,
the list and the pins have no liveness property and no fairness.

### What the violations show

- `frames_cut`: on a bare TCP socket `poll_next` only works when the socket
  always holds a whole frame. The binaries run it above `SecureStream`, for
  which `NeverCutAboveSecure` shows that it does.
- `frames_stuffed`: `encoded_frame` needs an empty buffer when it compresses.
  A send that is dropped half way leaves one that is not.
- `secure_pending`: a record that arrives in two parts may break the reader of a
  `SecureStream`. When some of the record was read, the next read panics; when
  none was, it may take bytes of the next record.
- `mutex_lesson`: the guard made at line 61 of `send_sync.rs` lives to the end of
  the function, so the `lock()` at line 81 waits for its own thread, and the
  spawned thread for both.
- `promise`: line 46 of `lc_3.rs` subtracts an index of characters from a length in
  bytes, so a string of one character of two bytes has a longest substring of
  length 2. The comment at its head counts characters.
- `kv_status`: a command the server does not know is answered with status 0.

## Proofs

Every safety property of a passing run is a theorem of the specification it is
about, for every value of the constants that satisfies the named assumptions;
so are the three refinements and the action property. The proofs of the
concurrent programs name an inductive invariant each, because none of the
properties is inductive by itself.

| Module | Theorems | Assumptions on the constants |
|---|---|---|
| `KvServer_proofs` | `TypeCorrect`, `Exclusion`, `LocksReturned`, `OneCommandPerConnection`, `Linearizability`, `StoreOnlyGrows` | `DataAssumption`, `ServerAssumption`, `HooksAssumption` |
| `FrameStream_proofs` | `TypeCorrect`, `WireCarriesFrames`, `ReceivedInOrder`, `NothingIsLost`, `SecureNeverCuts`, `NeverCut` | `FrameAssumption`, `CodecAssumption`; `SendsFit` for the last |
| `SecureStream_proofs` | `TypeCorrect`, `OutputInOrder`, `OnlyEofFails`, `NeverOverreads`, `GivesWholeRecords` | `SecureAssumption` |
| `Yamux_proofs` | `TypeCorrect`, `FramesConserved`, `AnswersInOrder` | `YamuxAssumption` |
| `AsyncExecutor_proofs` | `TypeCorrect`, `WakeupsAreKept`, `RunReturnsDone` | `AwaitsAssumption` |
| `Programs_proofs` | `PoolTypeCorrect`, `JobsRunUnlocked`, `JobsExactlyOnce`, `DropIsGraceful` of the thread pool; `PinnedStays`, `StagesKeepOrder`, `SearchIsSound`, `BoxesMakeAStack` | `ProgramsAssumption` |
| `Functions_proofs` | a theorem for each function (see "Functions"), and `CallsCompute`, which states `Computed` | `WidthAssumption`, `MaxLenAssumption`; `CallsAssumption` for the last |
| `SequenceLemmas` | lemmas for the others | none |

**KvServer.** The invariant ties a task's position to the lock it holds (in
`downgrade` it is the writer of its shard, in `access` and `release` a reader of
it, and no shard has a writer and a reader, or two readers), and counts the
commands and responses of a connection. Exclusion by itself is not inductive:
that `Entry` finds the shard free has to imply that nobody is inside, which is
the first part. `Linearizability` maps initial states to initial states and each
action to a step of `AtomicStore` or to a stutter. It needs the invariant to know
that a client's command is in one place only, and that a task in `access` has a
table.

**Sequences.** `FlattenSeq`, which joins the records or frames of a stream, is a
recursive function. `SequenceLemmas` characterises its partial results by one
equation (`Joins`), shows that they exist and are unique by induction over a set
of natural numbers (`SetInduction`, from `WFMin`: a first-order statement, unlike
the induction theorems of the library), and derives from it what the joined
sequence is when one is appended or taken off in front.

**FrameStream.** The invariant is about bytes: what is on the wire and in `wbuf`
from `wlen` on is the end of the frames of what was sent (`OnWire`), and, unless
harm was done, what has arrived and what is still to come are the frames of
what has not been received (`AllThere`). That a frame decodes to its message
and to no other needs `CodecAssumption`: a body of 2^31 bytes is compressed, what
it is compressed to is not empty and stays below 2^31, and two messages with an
empty encoding are the same. `encoded_frame` does not check the length of what it
compressed, and if it reached 2^31 the compression bit would be misread; see
"Not modelled".

Above a `SecureStream` a second invariant says that every part of the stream is a
sequence of whole units, each a header and as many bytes as it announces
(`WholeFrames`): records are flushes of `wbuf`, so a read is never cut.
`SecureNeverCuts` says so for any amount of data as long as no frame was stuffed.
A stuffed frame announces the length of what it swallowed, so for it
`NeverCut` assumes `SendsFit`, that all the frames that may be sent are together
shorter than 2^31 bytes; otherwise the length in such a header could itself
overflow.

**SecureStream.** Header, buffer and network together hold a chain of bytes in
which each is followed by the next of its record or by the first of the next
record (`Chain`); torn records leave gaps, which the chain allows. The
invariant says for each `ReadState` where in the chain the reader stands
(`InHeader`, `InBody`, `InOutput`, `Ended`) and that the output is the plaintext of
the records before. `OutputInOrder` holds through every harm, because what
decrypts is a whole record, and only the next record can come next.
`FailsOnlyAtEof` and `NoOverread` follow from `Sound`: without harm the capacity of
the buffer is exactly what is missing of the record. `GivesWholeRecords` is what
the invariant says of a reader that waits for a header or a body: it has given
out the first records written, each of them whole.

**Yamux.** A frame travels through nine queues, from the writer of the client to
the reader of its user. `Conserved` and `InOrder` speak of the spots on this way
that hold a frame of a stream, so that a step is a move between two queues
(`Moves`), the arrival of a new number (`Adds`) or the loss of one (`Drops`), and
one lemma for each kind of step serves all actions. `Known` is needed beside
`Conserved`: frames on their way are of streams that `read_loop` knows. `InOrder`
needs that the frames read and those in the channel of a user are its first ones
without a gap (`Counts`), and that no handler waits unless `waited` says so:
otherwise the next answer could be one that overtook.

**AsyncExecutor.** Between the poll of a future and its return to the task,
nothing says that the task will be woken: `NoLostWakeup` is silent there. The
invariant keeps for each sleep of the group that is polled that it is still to
be looked at, was ready, has the waker, is about to send, or has queued the task
again (`Registered`). `RunCompletes` follows because every task that has not
completed owns a sender, in one of these places.

**Threadpool.** `DropCompletesJobs` needs that a stopped worker has seen the
channel closed and empty, that the owner has joined stopped workers only, and
that a failed job has cost a worker (`Closing` and `Bounded`).

**Programs that stand alone.** Each has an invariant of its own, and a step of
`MCPrograms` is one of the program that runs or leaves it alone (`StepOfEach`).
`PinnedStays` needs that a wrapper is always around a value: otherwise a new
value could be put behind a wrapper that was checked before. `StagesKeepOrder`
maps the pipeline to one line of tasks, of three hands and three channels, in
which `Take` and `Pass` change nothing. `SearchIsSound` needs arithmetic of residues
(there is no number of a class between n and n + `Threads`) and that what was
sent is what a returned thread stands at. `BoxesMakeAStack` needs that the links
lead from the head through every box once to None (`Way`), that such a way is
unique (`OneChain`), and that an iterator stands on it; `List!Chains` states the
refinement mapping without recursion for this reason.

**Functions.** The theorems say what each function returns for every input, as
its reference definition does; `CallsCompute` puts them together, for the inputs
that `Supported` names. What happens on the others is proved too: `SubstringIsNear`
bounds the result of `lc_3` for any characters, never too small and too large by at
most the bytes in excess; `InitialIsLongest` and `LongestConsecutiveIsLongest` say
that an end of `i32` makes the functions of `lc_128` panic.

| Functions | Theorems |
|---|---|
| `lc_2` to `lc_53` | `AddTwoNumbersIsSum`, `SubstringIsLongest`, `SubstringIsNear`, `MaxAreaIsLargest`, `FirstMissingIsFirst`, `SimpleFirstMissingIsFirst`, `MaxSubArrayIsLargest` |
| `lc_73` to `lc_230` | `SetZeroesIsZeroed`, `InitialIsLongest`, `LongestConsecutiveIsLongest`, `KthIsKthSmallest` |
| plugins | `HostDispatches`, `LaunchIsLaunch` |
| lessons | `IndexIsIndex`, `MuseumIsMuseum`, `MyStringIsMyString`, `MyVecIteratorIsRound`, `WindowCountIsWindows`, `WnextIsLent` |

None of them uses an induction theorem of the library, whose parameter is an
operator. Instead:

- A loop of the code is a recursive function of the record of what it changes.
  `IsLoop` says that its step stays among these records and makes a measure
  smaller, a natural number such as what is left of the input, or the number of
  elements that are not in their place. `LoopExists` builds the function from that;
  without it, a recursive definition is a CHOOSE of which nothing is known.
  `LoopEnds` is the rule for loops: what holds at the start and is kept by every
  step (`Kept`) holds where the loop ends.
- A fold of the community modules is a recursive function of sets of indices.
  `FoldExists` and `FoldStates` turn it into a sequence of states, one per element
  (`States`), along which an invariant is carried by `InductionUpTo`.
- What a loop keeps is the idea of the algorithm, and is named: in `lc_2` what is
  still to add; in `lc_3` that no character is twice in the part looked at; in
  `lc_11` that the lines between, with the lower of the two ends, hold no more
  than the ends; in `lc_41` that the numbers of the vector stay the same and those
  before the place looked at are settled, and in its simple variant that each
  number in reach is at its place or still to come; in the first way of `lc_128` that
  a visit finds the whole run, or only the key when that was taken before.
- A search tree is any order of its nodes by how near they are to the root
  (`SearchTree`). The nodes of a subtree are an interval of the in-order numbering (`Subtree`, `InOrder`), and the
  stack of `kth_smallest` leads from the interval it walks to the end of the tree
  (`After`, `CountedTo`), so that the node counted next is the one that follows.
- `Number`, the number a list of digits stands for, `FlattenSeq` and the other
  recursive definitions of the reference side are handled in the same way.

Checked by TLC only:

- all liveness properties, `EveryCallReturns`, `TasksEnd`, `AllReceived`,
  `AllOutput`, `ReadsReturn`, `TasksComplete`, `RunReturns`, `DropReturns`, `JobsRun`,
  `PipelineDrains` and `PowReports`: they rest on fairness and on ENABLED, which the prover does not
  support;
- `TestsPass`, the results that the repository's tests expect: they are values, which
  TLC computes;
- the violations: a theorem cannot show a counterexample.

## Not modelled

- The short write of `tls.rs:104` is modelled, but a comment in the source
  declares it out of scope, so no property claims that the data arrives.
- `MAX_FRAME_SIZE` equals `COMPRESSION_BIT`; a compressed body of 2^31 bytes
  would be misread. The instances do not reach that length.
- The inner `DashMap` of a table is atomic; poisoned locks do not occur because
  nothing panics under them.
- An owner of a thread pool that panics is a thread of its own; when it is the
  main thread the process ends instead.
- `poll_close` is a flush and the shutdown of the stream below.
- What a multiplexing server makes of a connection whose place it has lost, and
  the end of a connection, for which `read_loop` has no code yet (`yamux.rs:104`).
  `read_loop` never ends, since nothing is removed from `tx_to_logic`; no property
  asks it to.
- Overflow of `i32` outside `lc_128`: sums, areas and lengths are numbers without
  bound, so the theorems about `lc_11`, `lc_53` and the others are about inputs whose
  results fit. The sums in `lc_2` are of two digits and a carry, which always do. The 32-bit identifiers of
  `Yamux` do not wrap.
- Which numbers have a hash that starts with zeroes.
- The commands that `dispatch` does not know and the conversions between `Value`
  and its variants, which are data.
- The pointer families of `gat.rs`, the borrow checker's part in the lessons about
  it, and the tests that spawn threads which only print.
- The language lessons, `serde`, `eth` and `wasm-compile`: they print, or call
  libraries, and keep no state.

## Plan

1. Done: `KvCommands`, `AtomicStore`, `KvServer` with its proofs; `FrameStream`,
   `SecureStream`; `Threadpool` with its proofs; `AsyncExecutor`.
2. Done: `Yamux`; `Pipeline`, `ProofOfWork`, `LinkedList`, `Pinned` with its proof;
   the functions of `Leetcode`, `Plugins` and `Lessons`; `MutexLesson`.
3. Done: proofs of the safety properties of every component, and of the
   refinements of `KvServer`, `Pipeline` and `LinkedList`.
4. Done: theorems beyond the properties of single runs: what each function
   returns for every input, with the lemmas about loops and folds, and
   `GivesWholeRecords`. Nothing of the plan is open.
