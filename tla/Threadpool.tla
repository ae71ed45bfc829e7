----------------------------- MODULE Threadpool -----------------------------
(***************************************************************************)
(* examples/Threadpool: a thread that owns the pool, submits jobs and      *)
(* drops it, and the workers, which share the receiving end of an          *)
(* unbounded channel behind a mutex.  A job may panic, which ends its      *)
(* worker.  Jobs are numbered in the order of their submission.            *)
(***************************************************************************)
EXTENDS Integers, Sequences

CONSTANTS Size,    \* number of workers
          MaxJobs  \* bound: jobs submitted

Workers == 1..Size

NoWorker == 0

NoJob == 0

VARIABLES
    sender,     \* Threadpool::sender is Some
    queue,      \* the channel: jobs sent and not received
    holder,     \* the worker that has locked the receiver
    pc,         \* where a worker is in its loop
    job,        \* the job a worker runs
    submitted,  \* how many jobs were sent
    done,       \* the jobs that have returned
    failed,     \* the jobs that have panicked
    owner,      \* where the owner of the pool is
    joined      \* workers the owner has joined, in the order of their ids

vars == <<sender, queue, holder, pc, job, submitted, done, failed, owner, joined>>
workerVars == <<holder, pc, job>>
outcomeVars == <<done, failed>>
ownerVars == <<sender, submitted, owner, joined>>

\* The thread of w has ended, and dropped its Arc of the receiver
Ended(w) == pc[w] \in {"stopped", "panicked"}

\* The last Arc of the receiver is gone: the channel is disconnected
ReceiverGone == \A w \in Workers : Ended(w)

Init == /\ sender = TRUE
        /\ queue = <<>>
        /\ holder = NoWorker
        /\ pc = [w \in Workers |-> "lock"]
        /\ job = [w \in Workers |-> NoJob]
        /\ submitted = 0
        /\ done = {}
        /\ failed = {}
        /\ owner = "submitting"
        /\ joined = 0

-----------------------------------------------------------------------------
(* The owner *)

Execute ==
    /\ owner = "submitting"
    /\ submitted < MaxJobs
    /\ ~ReceiverGone
    /\ submitted' = submitted + 1
    /\ queue' = Append(queue, submitted + 1)
    /\ UNCHANGED <<sender, owner, joined, workerVars, outcomeVars>>

\* send() fails and execute() unwraps the error
ExecutePanics ==
    /\ owner = "submitting"
    /\ submitted < MaxJobs
    /\ ReceiverGone
    /\ owner' = "panicked"
    /\ sender' = FALSE
    /\ UNCHANGED <<submitted, joined, queue, workerVars, outcomeVars>>

\* Mutant: dropping the pool empties the channel
DropSenderClears ==
    /\ owner = "submitting"
    /\ sender' = FALSE
    /\ queue' = <<>>
    /\ owner' = "joining"
    /\ UNCHANGED <<submitted, joined, workerVars, outcomeVars>>

\* Drop::drop: drop(self.sender.take())
DropSender ==
    /\ owner = "submitting"
    /\ sender' = FALSE
    /\ owner' = "joining"
    /\ UNCHANGED <<submitted, joined, queue, workerVars, outcomeVars>>

\* handle.join() of the next worker returns Ok
Join ==
    /\ owner = "joining"
    /\ joined < Size
    /\ pc[joined + 1] = "stopped"
    /\ joined' = joined + 1
    /\ UNCHANGED <<sender, submitted, owner, queue, workerVars, outcomeVars>>

\* It returns Err, which drop() unwraps
JoinPanics ==
    /\ owner = "joining"
    /\ joined < Size
    /\ pc[joined + 1] = "panicked"
    /\ owner' = "panicked"
    /\ UNCHANGED <<sender, submitted, joined, queue, workerVars, outcomeVars>>

Dropped ==
    /\ owner = "joining"
    /\ joined = Size
    /\ owner' = "dropped"
    /\ UNCHANGED <<sender, submitted, joined, queue, workerVars, outcomeVars>>

-----------------------------------------------------------------------------
(* A worker *)

\* rx.lock().unwrap()
Lock(w) ==
    /\ pc[w] = "lock"
    /\ holder = NoWorker
    /\ holder' = w
    /\ pc' = [pc EXCEPT ![w] = "recv"]
    /\ UNCHANGED <<job, queue, outcomeVars, ownerVars>>

\* Mutant: the guard lives as long as the loop body
ReceiveKeepsGuard(w) ==
    /\ pc[w] = "recv"
    /\ queue # <<>>
    /\ job' = [job EXCEPT ![w] = Head(queue)]
    /\ queue' = Tail(queue)
    /\ pc' = [pc EXCEPT ![w] = "run"]
    /\ UNCHANGED <<holder, outcomeVars, ownerVars>>

\* Mutant: the job is not removed from the channel
ReceivePeeks(w) ==
    /\ pc[w] = "recv"
    /\ queue # <<>>
    /\ job' = [job EXCEPT ![w] = Head(queue)]
    /\ holder' = NoWorker
    /\ pc' = [pc EXCEPT ![w] = "run"]
    /\ UNCHANGED <<queue, outcomeVars, ownerVars>>

\* recv() returns a job; the guard, a temporary of that statement, is dropped
\* before the job runs
Receive(w) ==
    /\ pc[w] = "recv"
    /\ queue # <<>>
    /\ job' = [job EXCEPT ![w] = Head(queue)]
    /\ queue' = Tail(queue)
    /\ holder' = NoWorker
    /\ pc' = [pc EXCEPT ![w] = "run"]
    /\ UNCHANGED <<outcomeVars, ownerVars>>

\* Mutant: a worker stops once the sender is gone, whatever is queued
StopAtOnce(w) ==
    /\ pc[w] = "recv"
    /\ ~sender
    /\ holder' = NoWorker
    /\ pc' = [pc EXCEPT ![w] = "stopped"]
    /\ UNCHANGED <<job, queue, outcomeVars, ownerVars>>

\* Mutant: the loop goes on after an error
StopSpins(w) ==
    /\ pc[w] = "recv"
    /\ queue = <<>>
    /\ ~sender
    /\ holder' = NoWorker
    /\ pc' = [pc EXCEPT ![w] = "lock"]
    /\ UNCHANGED <<job, queue, outcomeVars, ownerVars>>

\* recv() returns an error: the channel is empty and its sender is gone
Stop(w) ==
    /\ pc[w] = "recv"
    /\ queue = <<>>
    /\ ~sender
    /\ holder' = NoWorker
    /\ pc' = [pc EXCEPT ![w] = "stopped"]
    /\ UNCHANGED <<job, queue, outcomeVars, ownerVars>>

\* f() returns
Run(w) ==
    /\ pc[w] = "run"
    /\ done' = done \cup {job[w]}
    /\ job' = [job EXCEPT ![w] = NoJob]
    /\ pc' = [pc EXCEPT ![w] = "lock"]
    /\ UNCHANGED <<holder, failed, queue, ownerVars>>

\* f() panics and unwinds the thread of the worker
RunPanics(w) ==
    /\ pc[w] = "run"
    /\ failed' = failed \cup {job[w]}
    /\ job' = [job EXCEPT ![w] = NoJob]
    /\ pc' = [pc EXCEPT ![w] = "panicked"]
    /\ UNCHANGED <<holder, done, queue, ownerVars>>

-----------------------------------------------------------------------------
Joining == Join \/ JoinPanics \/ Dropped

Drops == DropSender \/ Joining

Owner == Execute \/ ExecutePanics \/ Drops

Worker(w) == Lock(w) \/ Receive(w) \/ Stop(w) \/ Run(w) \/ RunPanics(w)

\* The owner is through and so are the workers
Finished == /\ owner \in {"dropped", "panicked"}
            /\ ReceiverGone
            /\ UNCHANGED vars

Next == Owner \/ (\E w \in Workers : Worker(w)) \/ Finished

Spec == Init /\ [][Next]_vars

\* Threads are scheduled, jobs end, and join() returns once a thread has ended.
\* Nothing makes the owner submit a job, or drop the pool.
Fairness == /\ WF_vars(Joining)
            /\ \A w \in Workers : WF_vars(Worker(w))

FairSpec == Spec /\ Fairness

-----------------------------------------------------------------------------
(* Properties *)

WorkerPcs == {"lock", "recv", "run", "stopped", "panicked"}

OwnerPcs == {"submitting", "joining", "dropped", "panicked"}

\* The type of the state.
TypeOK ==
    /\ sender \in BOOLEAN
    /\ queue \in Seq(1..MaxJobs)
    /\ holder \in Workers \cup {NoWorker}
    /\ pc \in [Workers -> WorkerPcs]
    /\ job \in [Workers -> 0..MaxJobs]
    /\ submitted \in 0..MaxJobs
    /\ done \subseteq 1..MaxJobs
    /\ failed \subseteq 1..MaxJobs
    /\ owner \in OwnerPcs
    /\ joined \in 0..Size

\* The receiver is locked by exactly the worker that waits in recv(): a worker
\* that runs a job, has stopped or has panicked never keeps the others out.
LockDiscipline ==
    /\ \A w \in Workers : pc[w] = "recv" <=> holder = w

\* How many jobs the workers have taken from the channel
Taken == submitted - Len(queue)

\* Jobs are taken in the order they were submitted, and each one taken is with
\* one worker only or has ended in one way only: none is run twice, and none
\* disappears between the channel and the worker.
ExactlyOnce ==
    /\ \A i \in 1..Len(queue) : queue[i] = Taken + i
    /\ \A j \in 1..submitted :
          j <= Taken <=> (j \in done \/ j \in failed \/ \E w \in Workers : job[w] = j)
    /\ done \cap failed = {}
    /\ \A w \in Workers :
          /\ job[w] \notin done \cup failed
          /\ pc[w] = "run" <=> job[w] # NoJob
          /\ \A v \in Workers : job[v] = job[w] /\ job[w] # NoJob => v = w

\* When Drop::drop has returned every job submitted has run to its end: dropping
\* the sender does not discard what is queued, and join() waits for the rest.
DropCompletesJobs == owner = "dropped" => done = 1..submitted

\* A pool that is dropped is dropped in the end, or the panic of a worker is
\* passed on: no worker waits for a job, or for the lock, for ever.
DropReturns == owner = "joining" ~> owner \in {"dropped", "panicked"}

\* A job that was submitted runs, whether or not the pool is ever dropped,
\* unless every worker was lost to a job that panicked.
JobsRun ==
    \A j \in 1..MaxJobs :
        submitted >= j ~> j \in done \cup failed \/ \A w \in Workers : pc[w] = "panicked"
=============================================================================
