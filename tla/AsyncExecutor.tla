--------------------------- MODULE AsyncExecutor ---------------------------
(***************************************************************************)
(* async_executor: a spawner that queues tasks, the executor that polls    *)
(* them one at a time, and the threads of the AsyncSleep futures, which    *)
(* wake the task that waits for them.  The future of a task awaits groups  *)
(* of AsyncSleeps one after the other and joins those of a group, so a     *)
(* group of one is a plain await.                                          *)
(***************************************************************************)
EXTENDS Naturals, Sequences

CONSTANTS Tasks,   \* the tasks that may be spawned
          Sleeps,  \* the AsyncSleeps they may create
          Awaits,  \* Awaits[t]: the groups of sleeps the future of t awaits
          NoTask   \* the executor has no task in hand

OfTask(t) == UNION {Awaits[t][i] : i \in DOMAIN Awaits[t]}

ASSUME AwaitsAssumption ==
    /\ Awaits \in [Tasks -> Seq(SUBSET Sleeps)]
    /\ NoTask \notin Tasks
    \* an AsyncSleep belongs to one future and is awaited once
    /\ \A t, u \in Tasks : t # u => OfTask(t) \cap OfTask(u) = {}
    /\ \A t \in Tasks : \A i, j \in DOMAIN Awaits[t] :
          i # j => Awaits[t][i] \cap Awaits[t][j] = {}

VARIABLES
    spawner, \* TRUE until the Spawner is dropped
    queue,   \* the channel of tasks
    exec,    \* "recv", "polling" or "returned": where run() is
    cur,     \* the task run() polls
    fut,     \* Task::fut: "unborn", "some", "taken", "done" once it is Ready
    stage,   \* stage[t]: the group of sleeps the future of t awaits
    todo,    \* the sleeps this poll has still to look at
    ready,   \* the sleeps that have been found completed
    waker,   \* SharedState::waker is Some, for each sleep
    thread   \* the thread of a sleep, see below

vars == <<spawner, queue, exec, cur, fut, stage, todo, ready, waker, thread>>
pollVars == <<stage, todo, ready>>
sleepVars == <<waker, thread>>

\* A thread is "unborn", "sleeping", "waking" when it has set completed, has
\* taken the waker and is about to send, "dropping" when it has sent and still
\* has its Arc of the task, "ended".  It has shared locked in between.
Completed(s) == thread[s] \in {"waking", "dropping", "ended"}

Locked(s) == thread[s] \in {"waking", "dropping"}

Init == /\ spawner = TRUE
        /\ queue = <<>>
        /\ exec = "recv"
        /\ cur = NoTask
        /\ fut = [t \in Tasks |-> "unborn"]
        /\ stage = [t \in Tasks |-> 1]
        /\ todo = {}
        /\ ready = {}
        /\ waker = [s \in Sleeps |-> FALSE]
        /\ thread = [s \in Sleeps |-> "unborn"]

-----------------------------------------------------------------------------
(* The spawner *)

Spawn(t) ==
    /\ spawner
    /\ fut[t] = "unborn"
    /\ fut' = [fut EXCEPT ![t] = "some"]
    /\ queue' = Append(queue, t)
    /\ UNCHANGED <<spawner, exec, cur, pollVars, sleepVars>>

DropSpawner ==
    /\ spawner
    /\ spawner' = FALSE
    /\ UNCHANGED <<queue, exec, cur, fut, pollVars, sleepVars>>

-----------------------------------------------------------------------------
(* Executor::run *)

\* The sleeps of its group that the future of t has not found completed
Group(t, i) == IF i \in DOMAIN Awaits[t] THEN Awaits[t][i] ELSE {}

\* recv(), and fut_guard.take() of a future
Recv ==
    /\ exec = "recv" /\ queue # <<>>
    /\ LET t == Head(queue) IN
       /\ fut[t] = "some"
       /\ fut' = [fut EXCEPT ![t] = "taken"]
       /\ cur' = t
       /\ todo' = Group(t, stage[t]) \ ready
    /\ queue' = Tail(queue)
    /\ exec' = "polling"
    /\ UNCHANGED <<spawner, stage, ready, sleepVars>>

\* The future is not there: a second wake of a task that has completed
RecvStale ==
    /\ exec = "recv" /\ queue # <<>>
    /\ fut[Head(queue)] # "some"
    /\ queue' = Tail(queue)
    /\ UNCHANGED <<spawner, exec, cur, fut, pollVars, sleepVars>>

\* AsyncSleep::new, when the future reaches the group of s
New(s) ==
    /\ exec = "polling" /\ s \in todo
    /\ thread[s] = "unborn"
    /\ thread' = [thread EXCEPT ![s] = "sleeping"]
    /\ UNCHANGED <<spawner, queue, exec, cur, fut, pollVars, waker>>

\* AsyncSleep::poll, under the lock of shared
PollSleep(s) ==
    /\ exec = "polling" /\ s \in todo
    /\ \A u \in todo : thread[u] # "unborn"
    /\ ~Locked(s)
    /\ todo' = todo \ {s}
    /\ IF Completed(s)
       THEN ready' = ready \cup {s} /\ UNCHANGED waker
       ELSE waker' = [waker EXCEPT ![s] = TRUE] /\ UNCHANGED ready
    /\ UNCHANGED <<spawner, queue, exec, cur, fut, stage, thread>>

\* The future has polled every sleep of its group
Polled == exec = "polling" /\ todo = {}

GroupReady == Group(cur, stage[cur]) \subseteq ready

\* The await is over and the future goes on to the next
Advance ==
    /\ Polled /\ GroupReady
    /\ stage[cur] \in DOMAIN Awaits[cur]
    /\ stage' = [stage EXCEPT ![cur] = @ + 1]
    /\ todo' = Group(cur, stage[cur] + 1)
    /\ UNCHANGED <<spawner, queue, exec, cur, fut, ready, sleepVars>>

\* Mutant: the future that was taken is not put back
SuspendForgets ==
    /\ Polled /\ ~GroupReady
    /\ exec' = "recv" /\ cur' = NoTask
    /\ UNCHANGED <<spawner, queue, fut, pollVars, sleepVars>>

\* poll() is Pending: *fut_guard = Some(fut), and task is dropped
Suspend ==
    /\ Polled /\ ~GroupReady
    /\ fut' = [fut EXCEPT ![cur] = "some"]
    /\ exec' = "recv" /\ cur' = NoTask
    /\ UNCHANGED <<spawner, queue, pollVars, sleepVars>>

\* Mutant: the task is not dropped before the next recv
CompleteKeepsTask ==
    /\ Polled
    /\ stage[cur] \notin DOMAIN Awaits[cur]
    /\ fut' = [fut EXCEPT ![cur] = "done"]
    /\ exec' = "recv"
    /\ UNCHANGED <<spawner, queue, cur, pollVars, sleepVars>>

\* poll() is Ready: the future is dropped with the task
Complete ==
    /\ Polled
    /\ stage[cur] \notin DOMAIN Awaits[cur]
    /\ fut' = [fut EXCEPT ![cur] = "done"]
    /\ exec' = "recv" /\ cur' = NoTask
    /\ UNCHANGED <<spawner, queue, pollVars, sleepVars>>

\* Mutant: a task does not own a Sender
SendersGoneWithSpawner == ~spawner /\ queue = <<>>

\* Every Task has a Sender: recv() fails when no task is queued and none is
\* kept by a stored waker or by a thread that wakes it
SendersGone == ~spawner /\ queue = <<>> /\ \A s \in Sleeps : ~waker[s] /\ ~Locked(s)

\* Mutant: run() receives again after an error
ReturnNever ==
    /\ exec = "recv" /\ SendersGone
    /\ UNCHANGED vars

Return ==
    /\ exec = "recv" /\ SendersGone
    /\ exec' = "returned"
    /\ UNCHANGED <<spawner, queue, cur, fut, pollVars, sleepVars>>

-----------------------------------------------------------------------------
(* The thread of an AsyncSleep *)

\* Mutant: completed is set and no one is woken
FireSilently(s) ==
    /\ thread[s] = "sleeping"
    /\ thread' = [thread EXCEPT ![s] = "ended"]
    /\ UNCHANGED <<spawner, queue, exec, cur, fut, pollVars, waker>>

\* The sleep is over: lock shared, set completed, take the waker
Fire(s) ==
    /\ thread[s] = "sleeping"
    /\ thread' = [thread EXCEPT ![s] = IF waker[s] THEN "waking" ELSE "ended"]
    /\ waker' = [waker EXCEPT ![s] = FALSE]
    /\ UNCHANGED <<spawner, queue, exec, cur, fut, pollVars>>

TaskOf(s) == CHOOSE t \in Tasks : s \in OfTask(t)

\* Wake::wake: self.sender.send(self.clone())
Wake(s) ==
    /\ thread[s] = "waking"
    /\ queue' = Append(queue, TaskOf(s))
    /\ thread' = [thread EXCEPT ![s] = "dropping"]
    /\ UNCHANGED <<spawner, exec, cur, fut, pollVars, waker>>

\* wake() drops self, and the thread its guard
End(s) ==
    /\ thread[s] = "dropping"
    /\ thread' = [thread EXCEPT ![s] = "ended"]
    /\ UNCHANGED <<spawner, queue, exec, cur, fut, pollVars, waker>>

-----------------------------------------------------------------------------
Run == \/ Recv \/ RecvStale
       \/ \E s \in Sleeps : New(s) \/ PollSleep(s)
       \/ Advance \/ Suspend \/ Complete
       \/ Return

Thread(s) == Fire(s) \/ Wake(s) \/ End(s)

Finished == exec = "returned" /\ (\A s \in Sleeps : thread[s] \in {"unborn", "ended"}) /\ UNCHANGED vars

Next == \/ \E t \in Tasks : Spawn(t)
        \/ DropSpawner
        \/ Run
        \/ \E s \in Sleeps : Thread(s)
        \/ Finished

Spec == Init /\ [][Next]_vars

\* The thread of run() and those of the sleeps are scheduled, and a sleep ends.
\* Nothing makes the program spawn a task, or drop the spawner.
Fairness == WF_vars(Run) /\ \A s \in Sleeps : WF_vars(Thread(s))

FairSpec == Spec /\ Fairness

-----------------------------------------------------------------------------
(* Properties *)

\* The type of the state; run() has a task in hand only while it polls.
TypeOK ==
    /\ spawner \in BOOLEAN
    /\ queue \in Seq(Tasks)
    /\ exec \in {"recv", "polling", "returned"}
    /\ cur \in IF exec = "polling" THEN Tasks ELSE {NoTask}
    /\ fut \in [Tasks -> {"unborn", "some", "taken", "done"}]
    /\ stage \in [Tasks -> Nat]
    /\ todo \subseteq Sleeps
    /\ ready \subseteq Sleeps
    /\ waker \in [Sleeps -> BOOLEAN]
    /\ thread \in [Sleeps -> {"unborn", "sleeping", "waking", "dropping", "ended"}]

\* A task that waits is in the queue, or a thread that still sleeps has its
\* waker, or one is about to send it: whatever the order in which a sleep ends
\* and is polled, the task is polled again.
NoLostWakeup ==
    \A t \in Tasks : fut[t] = "some" =>
        \/ \E i \in 1..Len(queue) : queue[i] = t
        \/ \E s \in OfTask(t) : (waker[s] /\ thread[s] = "sleeping") \/ thread[s] = "waking"

\* run() returns only when every task that was spawned has completed, and then
\* no thread is left that would send one: expect("failed to wake") never fails.
RunCompletes ==
    exec = "returned" =>
        /\ \A t \in Tasks : fut[t] \in {"unborn", "done"}
        /\ \A s \in Sleeps : thread[s] # "waking" /\ ~waker[s]

\* Every task that is spawned completes.
TasksComplete == \A t \in Tasks : fut[t] = "some" ~> fut[t] = "done"

\* Once the spawner is dropped, run() returns: no cycle of a task, its future
\* and a waker keeps a sender alive for ever.
RunReturns == ~spawner ~> exec = "returned"
=============================================================================
