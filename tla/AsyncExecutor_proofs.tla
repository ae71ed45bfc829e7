------------------------ MODULE AsyncExecutor_proofs ------------------------
(***************************************************************************)
(* Proofs about AsyncExecutor, for any tasks and sleeps: no wakeup is      *)
(* lost, and run() returns only when every task has completed.             *)
(***************************************************************************)
EXTENDS AsyncExecutor, SequenceTheorems, TLAPS

Queued(t) == \E i \in 1..Len(queue) : queue[i] = t

\* The future of a task is away exactly while run() polls it, and only then is
\* there a sleep left to look at, of the group the future awaits.
Polling ==
    /\ \A t \in Tasks : fut[t] = "taken" <=> exec = "polling" /\ cur = t
    /\ todo \subseteq IF exec = "polling" THEN Group(cur, stage[cur]) ELSE {}

\* A waker is kept only by a thread that still sleeps; a sleep was created by a
\* task, and is found ready only after it has completed.
Threads ==
    \A s \in Sleeps :
        /\ waker[s] => thread[s] = "sleeping"
        /\ thread[s] # "unborn" => \E t \in Tasks : s \in OfTask(t)
        /\ s \in ready => Completed(s)

\* Of the group that is polled, what was looked at and not found ready has the
\* waker, or sends it, or the task is queued again by now.
Registered ==
    exec = "polling" =>
        \A s \in Group(cur, stage[cur]) :
            s \in todo \/ s \in ready \/ waker[s] \/ thread[s] = "waking" \/ Queued(cur)

\* run() returns when no sender is left, and none appears afterwards.
Returned == exec = "returned" => SendersGone

\* The inductive invariant.
Inv == TypeOK /\ Polling /\ Threads /\ Registered /\ NoLostWakeup /\ Returned

-----------------------------------------------------------------------------
(* A sleep belongs to one task *)

LEMMA GroupOfTask == \A t \in Tasks : \A i : Group(t, i) \subseteq OfTask(t)
BY DEF Group, OfTask

LEMMA SleepsOfTask == \A t \in Tasks : OfTask(t) \subseteq Sleeps
<1> SUFFICES ASSUME NEW t \in Tasks, NEW s \in OfTask(t) PROVE s \in Sleeps
    OBVIOUS
<1>1. PICK i \in DOMAIN Awaits[t] : s \in Awaits[t][i]
    BY DEF OfTask
<1>2. Awaits[t] \in Seq(SUBSET Sleeps)
    BY AwaitsAssumption
<1>3. Awaits[t][i] \in SUBSET Sleeps
    BY <1>2, ElementOfSeq, LenProperties
<1> QED BY <1>1, <1>3

LEMMA TaskOfSleep == \A t \in Tasks : \A s \in OfTask(t) : TaskOf(s) = t
<1> SUFFICES ASSUME NEW t \in Tasks, NEW s \in OfTask(t) PROVE TaskOf(s) = t
    OBVIOUS
<1>1. \A u \in Tasks : s \in OfTask(u) => u = t
    BY AwaitsAssumption
<1> QED BY <1>1 DEF TaskOf

LEMMA InitInv == Init => Inv
<1> SUFFICES ASSUME Init PROVE Inv
    OBVIOUS
<1> USE AwaitsAssumption
<1>1. TypeOK
    BY DEF Init, TypeOK
<1>2. Polling /\ Threads /\ Registered
    BY DEF Init, Polling, Threads, Registered
<1>3. NoLostWakeup /\ Returned
    BY DEF Init, NoLostWakeup, Returned
<1> QED BY <1>1, <1>2, <1>3 DEF Inv

-----------------------------------------------------------------------------
(* The spawner *)

LEMMA SpawnInv == \A t \in Tasks : Inv /\ Spawn(t) => Inv'
<1> SUFFICES ASSUME NEW t \in Tasks, Inv, Spawn(t) PROVE Inv'
    OBVIOUS
<1> USE DEF Spawn, pollVars, sleepVars
<1>1. /\ queue' \in Seq(Tasks)
      /\ Len(queue') = Len(queue) + 1
      /\ \A i \in 1..Len(queue) : queue'[i] = queue[i]
      /\ queue'[Len(queue) + 1] = t
      /\ Len(queue) \in Nat
    BY DEF Inv, TypeOK
<1>2. \A u \in Tasks : Queued(u) => Queued(u)'
    BY <1>1 DEF Queued
<1>3. Queued(t)'
    BY <1>1 DEF Queued
<1>4. TypeOK'
    BY <1>1 DEF Inv, TypeOK
<1>5. Polling'
    BY DEF Inv, TypeOK, Polling, Group
<1>6. Threads'
    BY DEF Inv, Threads, Completed
<1>7. Registered'
    BY <1>2 DEF Inv, TypeOK, Registered, Group
<1>8. NoLostWakeup'
    BY <1>2, <1>3, SMTT(30) DEF Inv, TypeOK, NoLostWakeup, Queued
<1>9. Returned'
    BY DEF Inv, Returned, SendersGone
<1> QED BY <1>4, <1>5, <1>6, <1>7, <1>8, <1>9 DEF Inv

LEMMA DropSpawnerInv == Inv /\ DropSpawner => Inv'
<1> SUFFICES ASSUME Inv, DropSpawner PROVE Inv'
    OBVIOUS
<1> USE DEF DropSpawner, pollVars, sleepVars
<1>1. TypeOK'
    BY DEF Inv, TypeOK
<1>2. Polling' /\ Threads' /\ Registered'
    BY DEF Inv, Polling, Threads, Registered, Group, Completed, Queued
<1>3. NoLostWakeup' /\ Returned'
    BY DEF Inv, NoLostWakeup, Returned, SendersGone, Locked
<1> QED BY <1>1, <1>2, <1>3 DEF Inv

-----------------------------------------------------------------------------
(* run() receives *)

LEMMA RecvInv == Inv /\ Recv => Inv'
<1> SUFFICES ASSUME Inv, Recv PROVE Inv'
    OBVIOUS
<1> USE DEF Recv, sleepVars
<1> DEFINE t == Head(queue)
<1>1. /\ queue \in Seq(Tasks) /\ queue # <<>>
      /\ t \in Tasks
      /\ Tail(queue) \in Seq(Tasks)
      /\ Len(queue) \in Nat \ {0}
      /\ t = queue[1]
      /\ Len(queue') = Len(queue) - 1
      /\ \A i \in 1..Len(queue') : queue'[i] = queue[i + 1]
    BY DEF Inv, TypeOK
<1>2. \A u \in Tasks : u # t /\ Queued(u) => Queued(u)'
    <2> SUFFICES ASSUME NEW u \in Tasks, u # t, NEW i \in 1..Len(queue), queue[i] = u
                 PROVE  \E j \in 1..Len(queue') : queue'[j] = u
        BY DEF Queued
    <2>1. i # 1
        BY <1>1
    <2>2. i - 1 \in 1..Len(queue') /\ queue'[i - 1] = u
        BY <1>1, <2>1
    <2> QED BY <2>2
<1>3. /\ fut[t] = "some" /\ fut' = [fut EXCEPT ![t] = "taken"]
      /\ cur' = t /\ exec' = "polling" /\ exec = "recv"
      /\ todo' = Group(t, stage[t]) \ ready
      /\ queue' = Tail(queue)
    OBVIOUS
<1>4. Group(t, stage[t]) \subseteq Sleeps
    BY <1>1, GroupOfTask, SleepsOfTask
<1> HIDE DEF t
<1>5. TypeOK'
    BY <1>1, <1>3, <1>4 DEF Inv, TypeOK
<1>6. Polling'
    <2>1. \A u \in Tasks : fut[u] # "taken"
        BY <1>3 DEF Inv, Polling
    <2>2. \A u \in Tasks : fut'[u] = IF u = t THEN "taken" ELSE fut[u]
        BY <1>1, <1>3 DEF Inv, TypeOK
    <2>3. todo' \subseteq (Group(cur, stage[cur]))'
        BY <1>3 DEF Group
    <2> QED BY <1>3, <2>1, <2>2, <2>3 DEF Polling
<1>7. Threads'
    BY DEF Inv, Threads, Completed
<1>8. Registered'
    <2>1. (Group(cur, stage[cur]))' = Group(t, stage[t])
        BY <1>3 DEF Group
    <2> QED BY <1>3, <2>1 DEF Registered
<1>9. NoLostWakeup'
    <2> SUFFICES ASSUME NEW u \in Tasks, fut'[u] = "some"
                 PROVE  \/ Queued(u)'
                        \/ \E s \in OfTask(u) : (waker[s] /\ thread[s] = "sleeping") \/ thread[s] = "waking"
        BY DEF NoLostWakeup, Queued
    <2>1. u # t /\ fut[u] = "some"
        BY <1>1, <1>3 DEF Inv, TypeOK
    <2> QED BY <1>2, <2>1 DEF Inv, NoLostWakeup, Queued
<1>10. Returned'
    BY <1>3 DEF Returned
<1> QED BY <1>5, <1>6, <1>7, <1>8, <1>9, <1>10 DEF Inv

LEMMA RecvStaleInv == Inv /\ RecvStale => Inv'
<1> SUFFICES ASSUME Inv, RecvStale PROVE Inv'
    OBVIOUS
<1> USE DEF RecvStale, pollVars, sleepVars
<1>1. /\ queue \in Seq(Tasks) /\ queue # <<>>
      /\ queue' \in Seq(Tasks)
      /\ Len(queue) \in Nat \ {0}
      /\ Head(queue) = queue[1] /\ fut[queue[1]] # "some"
      /\ Len(queue') = Len(queue) - 1
      /\ \A i \in 1..Len(queue') : queue'[i] = queue[i + 1]
    BY DEF Inv, TypeOK
<1>2. \A u \in Tasks : fut[u] = "some" /\ Queued(u) => Queued(u)'
    <2> SUFFICES ASSUME NEW u \in Tasks, fut[u] = "some", NEW i \in 1..Len(queue), queue[i] = u
                 PROVE  \E j \in 1..Len(queue') : queue'[j] = u
        BY DEF Queued
    <2>1. i # 1
        BY <1>1
    <2>2. i - 1 \in 1..Len(queue') /\ queue'[i - 1] = u
        BY <1>1, <2>1
    <2> QED BY <2>2
<1>3. TypeOK'
    BY <1>1 DEF Inv, TypeOK
<1>4. Polling' /\ Threads'
    BY DEF Inv, TypeOK, Polling, Threads, Group, Completed
<1>5. Registered' /\ Returned'
    BY DEF Registered, Returned
<1>6. NoLostWakeup'
    BY <1>2 DEF Inv, NoLostWakeup, Queued
<1> QED BY <1>3, <1>4, <1>5, <1>6 DEF Inv

-----------------------------------------------------------------------------
(* run() polls the future *)

LEMMA NewInv == \A s \in Sleeps : Inv /\ New(s) => Inv'
<1> SUFFICES ASSUME NEW s \in Sleeps, Inv, New(s) PROVE Inv'
    OBVIOUS
<1> USE DEF New, pollVars
<1>1. \A u \in Sleeps : thread'[u] = IF u = s THEN "sleeping" ELSE thread[u]
    BY DEF Inv, TypeOK
<1>2. cur \in Tasks /\ s \in OfTask(cur)
    BY GroupOfTask DEF Inv, TypeOK, Polling
<1>3. ~waker[s] /\ s \notin ready
    BY DEF Inv, Threads, Completed
<1>4. TypeOK'
    BY DEF Inv, TypeOK
<1>5. Polling'
    BY DEF Inv, Polling, Group
<1>6. Threads'
    BY <1>1, <1>2, <1>3 DEF Inv, Threads, Completed
<1>7. Registered'
    <2> SUFFICES ASSUME NEW u \in Group(cur, stage[cur])
                 PROVE  u \in todo \/ u \in ready \/ waker[u] \/ thread'[u] = "waking" \/ Queued(cur)
        BY DEF Registered, Group, Queued
    <2>1. u \in Sleeps
        BY <1>2, GroupOfTask, SleepsOfTask
    <2>2. u = s => u \in todo
        OBVIOUS
    <2> QED BY <1>1, <2>1, <2>2 DEF Inv, Registered
<1>8. NoLostWakeup'
    <2> SUFFICES ASSUME NEW u \in Tasks, fut[u] = "some", ~Queued(u)
                 PROVE  \E r \in OfTask(u) : (waker[r] /\ thread'[r] = "sleeping") \/ thread'[r] = "waking"
        BY DEF NoLostWakeup, Queued
    <2>1. PICK r \in OfTask(u) : (waker[r] /\ thread[r] = "sleeping") \/ thread[r] = "waking"
        BY DEF Inv, NoLostWakeup, Queued
    <2> QED BY <1>1, <2>1, SleepsOfTask
<1>9. Returned'
    BY DEF Returned
<1> QED BY <1>4, <1>5, <1>6, <1>7, <1>8, <1>9 DEF Inv

LEMMA PollSleepInv == \A s \in Sleeps : Inv /\ PollSleep(s) => Inv'
<1> SUFFICES ASSUME NEW s \in Sleeps, Inv, PollSleep(s) PROVE Inv'
    OBVIOUS
<1> USE DEF PollSleep
<1>1. CASE Completed(s)
    <2>1. ready' = ready \cup {s} /\ waker' = waker /\ todo' = todo \ {s}
        BY <1>1
    <2>2. TypeOK'
        BY <2>1 DEF Inv, TypeOK
    <2>3. Polling' /\ Threads'
        BY <1>1, <2>1 DEF Inv, Polling, Threads, Group, Completed
    <2>4. Registered'
        BY <2>1 DEF Inv, Registered, Group, Queued
    <2>5. NoLostWakeup' /\ Returned'
        BY <2>1 DEF Inv, NoLostWakeup, Returned
    <2> QED BY <2>2, <2>3, <2>4, <2>5 DEF Inv
<1>2. CASE ~Completed(s)
    <2>1. /\ ready' = ready /\ todo' = todo \ {s}
          /\ waker' = [waker EXCEPT ![s] = TRUE]
          /\ \A u \in Sleeps : waker'[u] = IF u = s THEN TRUE ELSE waker[u]
        BY <1>2 DEF Inv, TypeOK
    <2>2. thread[s] = "sleeping"
        BY <1>2 DEF Inv, TypeOK, Completed
    <2>3. TypeOK'
        BY <2>1 DEF Inv, TypeOK
    <2>4. Polling'
        BY <2>1 DEF Inv, Polling, Group
    <2>5. Threads'
        BY <2>1, <2>2 DEF Inv, Threads, Completed
    <2>6. Registered'
        <3> SUFFICES ASSUME NEW u \in Group(cur, stage[cur])
                     PROVE  u \in todo' \/ u \in ready \/ waker'[u] \/ thread[u] = "waking" \/ Queued(cur)
            BY <2>1 DEF Registered, Group, Queued
        <3>1. u \in Sleeps
            BY GroupOfTask, SleepsOfTask DEF Inv, TypeOK
        <3> QED BY <2>1, <3>1 DEF Inv, Registered
    <2>7. NoLostWakeup'
        <3> SUFFICES ASSUME NEW u \in Tasks, fut[u] = "some", ~Queued(u)
                     PROVE  \E r \in OfTask(u) : (waker'[r] /\ thread[r] = "sleeping") \/ thread[r] = "waking"
            BY DEF NoLostWakeup, Queued
        <3>1. PICK r \in OfTask(u) : (waker[r] /\ thread[r] = "sleeping") \/ thread[r] = "waking"
            BY DEF Inv, NoLostWakeup, Queued
        <3> QED BY <2>1, <3>1, SleepsOfTask
    <2>8. Returned'
        BY DEF Returned
    <2> QED BY <2>3, <2>4, <2>5, <2>6, <2>7, <2>8 DEF Inv
<1> QED BY <1>1, <1>2

LEMMA AdvanceInv == Inv /\ Advance => Inv'
<1> SUFFICES ASSUME Inv, Advance PROVE Inv'
    OBVIOUS
<1> USE DEF Advance, Polled, sleepVars
<1>1. cur \in Tasks /\ stage' = [stage EXCEPT ![cur] = @ + 1] /\ stage'[cur] = stage[cur] + 1
    BY DEF Inv, TypeOK
<1>2. Group(cur, stage[cur] + 1) \subseteq Sleeps
    BY <1>1, GroupOfTask, SleepsOfTask
<1>3. TypeOK'
    BY <1>1, <1>2 DEF Inv, TypeOK
<1>4. (Group(cur, stage[cur]))' = todo'
    BY <1>1 DEF Group
<1>5. Polling'
    BY <1>4 DEF Inv, Polling
<1>6. Threads' /\ NoLostWakeup' /\ Returned'
    BY DEF Inv, Threads, Completed, NoLostWakeup, Returned
<1>7. Registered'
    BY <1>4 DEF Registered
<1> QED BY <1>3, <1>5, <1>6, <1>7 DEF Inv

LEMMA SuspendInv == Inv /\ Suspend => Inv'
<1> SUFFICES ASSUME Inv, Suspend PROVE Inv'
    OBVIOUS
<1> USE DEF Suspend, Polled, pollVars, sleepVars
<1>1. /\ cur \in Tasks /\ NoTask \notin Tasks
      /\ \A u \in Tasks : fut'[u] = IF u = cur THEN "some" ELSE fut[u]
    BY AwaitsAssumption DEF Inv, TypeOK
<1>2. TypeOK'
    BY <1>1 DEF Inv, TypeOK
<1>3. Polling'
    BY <1>1 DEF Inv, Polling
<1>4. Threads' /\ Registered' /\ Returned'
    BY DEF Inv, Threads, Completed, Registered, Returned
<1>5. NoLostWakeup'
    <2>1. PICK s \in Group(cur, stage[cur]) : s \notin ready
        BY DEF GroupReady
    <2>2. waker[s] \/ thread[s] = "waking" \/ Queued(cur)
        BY <2>1 DEF Inv, Registered
    <2>3. s \in OfTask(cur) /\ s \in Sleeps
        BY <1>1, <2>1, GroupOfTask, SleepsOfTask
    <2>4. waker[s] => thread[s] = "sleeping"
        BY <2>3 DEF Inv, Threads
    <2> QED BY <1>1, <2>2, <2>3, <2>4 DEF Inv, NoLostWakeup, Queued
<1> QED BY <1>2, <1>3, <1>4, <1>5 DEF Inv

LEMMA CompleteInv == Inv /\ Complete => Inv'
<1> SUFFICES ASSUME Inv, Complete PROVE Inv'
    OBVIOUS
<1> USE DEF Complete, Polled, pollVars, sleepVars
<1>1. /\ cur \in Tasks /\ NoTask \notin Tasks
      /\ \A u \in Tasks : fut'[u] = IF u = cur THEN "done" ELSE fut[u]
    BY AwaitsAssumption DEF Inv, TypeOK
<1>2. TypeOK'
    BY <1>1 DEF Inv, TypeOK
<1>3. Polling'
    BY <1>1 DEF Inv, Polling
<1>4. Threads' /\ Registered' /\ Returned'
    BY DEF Inv, Threads, Completed, Registered, Returned
<1>5. NoLostWakeup'
    BY <1>1 DEF Inv, NoLostWakeup
<1> QED BY <1>2, <1>3, <1>4, <1>5 DEF Inv

LEMMA ReturnInv == Inv /\ Return => Inv'
<1> SUFFICES ASSUME Inv, Return PROVE Inv'
    OBVIOUS
<1> USE DEF Return, pollVars, sleepVars
<1>1. TypeOK'
    BY DEF Inv, TypeOK
<1>2. Polling' /\ Threads' /\ Registered' /\ NoLostWakeup'
    BY DEF Inv, Polling, Threads, Completed, Registered, NoLostWakeup
<1>3. Returned'
    BY DEF Returned, SendersGone, Locked
<1> QED BY <1>1, <1>2, <1>3 DEF Inv

-----------------------------------------------------------------------------
(* The thread of an AsyncSleep *)

LEMMA FireInv == \A s \in Sleeps : Inv /\ Fire(s) => Inv'
<1> SUFFICES ASSUME NEW s \in Sleeps, Inv, Fire(s) PROVE Inv'
    OBVIOUS
<1> USE DEF Fire, pollVars
<1>1. /\ \A u \in Sleeps : thread'[u] = IF u # s THEN thread[u]
                                        ELSE IF waker[s] THEN "waking" ELSE "ended"
      /\ \A u \in Sleeps : waker'[u] = IF u = s THEN FALSE ELSE waker[u]
    BY DEF Inv, TypeOK
<1>2. TypeOK'
    BY DEF Inv, TypeOK
<1>3. Polling'
    BY DEF Inv, Polling, Group
<1>4. Threads'
    BY <1>1 DEF Inv, Threads, Completed
<1>5. Registered'
    <2> SUFFICES ASSUME exec = "polling", NEW u \in Group(cur, stage[cur])
                 PROVE  u \in todo \/ u \in ready \/ waker'[u] \/ thread'[u] = "waking" \/ Queued(cur)
        BY DEF Registered, Group, Queued
    <2>1. u \in Sleeps
        BY GroupOfTask, SleepsOfTask DEF Inv, TypeOK
    <2> QED BY <1>1, <2>1 DEF Inv, Registered
<1>6. NoLostWakeup'
    <2> SUFFICES ASSUME NEW u \in Tasks, fut[u] = "some", ~Queued(u)
                 PROVE  \E r \in OfTask(u) : (waker'[r] /\ thread'[r] = "sleeping") \/ thread'[r] = "waking"
        BY DEF NoLostWakeup, Queued
    <2>1. PICK r \in OfTask(u) : (waker[r] /\ thread[r] = "sleeping") \/ thread[r] = "waking"
        BY DEF Inv, NoLostWakeup, Queued
    <2> QED BY <1>1, <2>1, SleepsOfTask
<1>7. Returned'
    BY <1>1 DEF Inv, Returned, SendersGone, Locked
<1> QED BY <1>2, <1>3, <1>4, <1>5, <1>6, <1>7 DEF Inv

LEMMA WakeInv == \A s \in Sleeps : Inv /\ Wake(s) => Inv'
<1> SUFFICES ASSUME NEW s \in Sleeps, Inv, Wake(s) PROVE Inv'
    OBVIOUS
<1> USE DEF Wake, pollVars
<1> DEFINE t == TaskOf(s)
<1>1. t \in Tasks /\ s \in OfTask(t)
    <2>1. PICK u \in Tasks : s \in OfTask(u)
        BY DEF Inv, Threads
    <2> QED BY <2>1, TaskOfSleep
<1>2. \A u \in Tasks : s \in OfTask(u) => u = t
    BY TaskOfSleep
<1>3. \A u \in Sleeps : thread'[u] = IF u = s THEN "dropping" ELSE thread[u]
    BY DEF Inv, TypeOK
<1>4. /\ queue' \in Seq(Tasks)
      /\ Len(queue') = Len(queue) + 1
      /\ \A i \in 1..Len(queue) : queue'[i] = queue[i]
      /\ queue'[Len(queue) + 1] = t
      /\ Len(queue) \in Nat
    BY <1>1 DEF Inv, TypeOK
<1> HIDE DEF t
<1>5. \A u \in Tasks : Queued(u) => Queued(u)'
    BY <1>4 DEF Queued
<1>6. Queued(t)'
    BY <1>4 DEF Queued
<1>7. TypeOK'
    BY <1>4 DEF Inv, TypeOK
<1>8. Polling'
    BY DEF Inv, Polling, Group
<1>9. Threads'
    BY <1>3 DEF Inv, Threads, Completed
<1>10. Registered'
    <2> SUFFICES ASSUME exec = "polling", NEW u \in Group(cur, stage[cur])
                 PROVE  u \in todo \/ u \in ready \/ waker[u] \/ thread'[u] = "waking" \/ Queued(cur)'
        BY DEF Registered, Group, Queued
    <2>1. cur \in Tasks /\ u \in Sleeps /\ u \in OfTask(cur)
        BY GroupOfTask, SleepsOfTask DEF Inv, TypeOK
    <2>2. CASE u = s
        BY <1>2, <1>6, <2>1, <2>2 DEF Queued
    <2>3. CASE u # s
        <3>1. Queued(cur) => Queued(cur)'
            BY <1>5, <2>1 DEF Queued
        <3> QED BY <1>3, <2>1, <2>3, <3>1 DEF Inv, Registered
    <2> QED BY <2>2, <2>3
<1>11. NoLostWakeup'
    <2> SUFFICES ASSUME NEW u \in Tasks, fut[u] = "some", ~Queued(u)'
                 PROVE  \E r \in OfTask(u) : (waker[r] /\ thread'[r] = "sleeping") \/ thread'[r] = "waking"
        BY DEF NoLostWakeup, Queued
    <2>1. PICK r \in OfTask(u) : (waker[r] /\ thread[r] = "sleeping") \/ thread[r] = "waking"
        BY <1>5 DEF Inv, NoLostWakeup, Queued
    <2>2. r # s
        BY <1>2, <1>6, <2>1
    <2> QED BY <1>3, <2>1, <2>2, SleepsOfTask
<1>12. Returned'
    <2>1. exec # "returned"
        BY DEF Inv, Returned, SendersGone, Locked
    <2> QED BY <2>1 DEF Returned
<1> QED BY <1>7, <1>8, <1>9, <1>10, <1>11, <1>12 DEF Inv

LEMMA EndInv == \A s \in Sleeps : Inv /\ End(s) => Inv'
<1> SUFFICES ASSUME NEW s \in Sleeps, Inv, End(s) PROVE Inv'
    OBVIOUS
<1> USE DEF End, pollVars
<1>1. \A u \in Sleeps : thread'[u] = IF u = s THEN "ended" ELSE thread[u]
    BY DEF Inv, TypeOK
<1>2. TypeOK'
    BY DEF Inv, TypeOK
<1>3. Polling'
    BY DEF Inv, Polling, Group
<1>4. Threads'
    BY <1>1 DEF Inv, Threads, Completed
<1>5. Registered'
    <2> SUFFICES ASSUME exec = "polling", NEW u \in Group(cur, stage[cur])
                 PROVE  u \in todo \/ u \in ready \/ waker[u] \/ thread'[u] = "waking" \/ Queued(cur)
        BY DEF Registered, Group, Queued
    <2>1. u \in Sleeps
        BY GroupOfTask, SleepsOfTask DEF Inv, TypeOK
    <2> QED BY <1>1, <2>1 DEF Inv, Registered
<1>6. NoLostWakeup'
    <2> SUFFICES ASSUME NEW u \in Tasks, fut[u] = "some", ~Queued(u)
                 PROVE  \E r \in OfTask(u) : (waker[r] /\ thread'[r] = "sleeping") \/ thread'[r] = "waking"
        BY DEF NoLostWakeup, Queued
    <2>1. PICK r \in OfTask(u) : (waker[r] /\ thread[r] = "sleeping") \/ thread[r] = "waking"
        BY DEF Inv, NoLostWakeup, Queued
    <2> QED BY <1>1, <2>1, SleepsOfTask
<1>7. Returned'
    BY <1>1 DEF Inv, Returned, SendersGone, Locked
<1> QED BY <1>2, <1>3, <1>4, <1>5, <1>6, <1>7 DEF Inv

-----------------------------------------------------------------------------
(* The invariant, and what follows from it *)

LEMMA NextInv == Inv /\ [Next]_vars => Inv'
<1> SUFFICES ASSUME Inv, [Next]_vars PROVE Inv'
    OBVIOUS
<1>1. ASSUME NEW t \in Tasks, Spawn(t) PROVE Inv'
    BY <1>1, SpawnInv
<1>2. CASE DropSpawner
    BY <1>2, DropSpawnerInv
<1>3. CASE Run
    BY <1>3, RecvInv, RecvStaleInv, NewInv, PollSleepInv, AdvanceInv, SuspendInv, CompleteInv,
       ReturnInv DEF Run
<1>4. ASSUME NEW s \in Sleeps, Thread(s) PROVE Inv'
    BY <1>4, FireInv, WakeInv, EndInv DEF Thread
<1>5. CASE UNCHANGED vars
    BY <1>5 DEF vars, pollVars, sleepVars, Inv, TypeOK, Polling, Threads, Registered, NoLostWakeup,
       Returned, Group, Completed, Locked, SendersGone, Queued
<1> QED BY <1>1, <1>2, <1>3, <1>4, <1>5 DEF Next, Finished

LEMMA Invariant == Spec => []Inv
BY InitInv, NextInv, PTL DEF Spec

\* The state of the executor always has its type, and run() has a task in hand
\* only while it polls.
THEOREM TypeCorrect == Spec => []TypeOK
<1>1. Inv => TypeOK
    BY DEF Inv
<1> QED BY <1>1, Invariant, PTL

\* A task that waits is queued, or a thread will still send it: for any tasks,
\* any groups of sleeps and any order in which sleeps end and are polled.
THEOREM WakeupsAreKept == Spec => []NoLostWakeup
<1>1. Inv => NoLostWakeup
    BY DEF Inv
<1> QED BY <1>1, Invariant, PTL

\* run() returns only when every task that was spawned has completed, and no
\* thread is left that would fail to send.
THEOREM RunReturnsDone == Spec => []RunCompletes
<1>1. Inv => RunCompletes
    <2> SUFFICES ASSUME Inv, exec = "returned"
                 PROVE  /\ \A t \in Tasks : fut[t] \in {"unborn", "done"}
                        /\ \A s \in Sleeps : thread[s] # "waking" /\ ~waker[s]
        BY DEF RunCompletes
    <2>1. queue = <<>> /\ \A s \in Sleeps : ~waker[s] /\ thread[s] # "waking"
        BY DEF Inv, Returned, SendersGone, Locked
    <2>2. ASSUME NEW t \in Tasks PROVE fut[t] \in {"unborn", "done"}
        <3>1. fut[t] # "some"
            BY <2>1, SleepsOfTask DEF Inv, NoLostWakeup
        <3>2. fut[t] # "taken"
            BY DEF Inv, Polling
        <3> QED BY <3>1, <3>2 DEF Inv, TypeOK
    <2> QED BY <2>1, <2>2
<1> QED BY <1>1, Invariant, PTL
=============================================================================
