---------------------------- MODULE MutexLesson ----------------------------
(***************************************************************************)
(* concepts/08_concurrency: the last part of the test sync.  A guard of    *)
(* the mutex is made first and kept until the end of the function; then a  *)
(* thread and the test itself lock the mutex, add one, and unlock it.      *)
(* Locking a mutex one has locked does not return.                         *)
(***************************************************************************)
EXTENDS Naturals

VARIABLES
    at,     \* the statement the test is at
    thread, \* "unborn", "locking", "adding" or "ended"
    mutex,  \* who has locked it: "nobody", "guard", "block" or "thread"
    value   \* the number in the mutex

lessonVars == <<at, thread, mutex, value>>

Init == /\ at = "guard"
        /\ thread = "unborn"
        /\ mutex = "nobody"
        /\ value = 1

\* let mut g = b.lock().unwrap(), whose b is another name of a
LockGuard == /\ at = "guard"
             /\ mutex = "nobody"
             /\ mutex' = "guard"
             /\ at' = "spawn"
             /\ UNCHANGED <<thread, value>>

SpawnThread == /\ at = "spawn"
               /\ thread' = "locking"
               /\ at' = "lock"
               /\ UNCHANGED <<mutex, value>>

\* a.lock().unwrap(); the guard lives until the end of the block
LockBlock == /\ at = "lock"
             /\ mutex = "nobody"
             /\ mutex' = "block"
             /\ at' = "add"
             /\ UNCHANGED <<thread, value>>

AddBlock == /\ at = "add"
            /\ value' = value + 1
            /\ mutex' = "nobody"
            /\ at' = "join"
            /\ UNCHANGED thread

JoinThread == /\ at = "join"
              /\ thread = "ended"
              /\ at' = "end"
              /\ UNCHANGED <<thread, mutex, value>>

\* The function ends and drops its guard
DropGuard == /\ at = "end"
             /\ mutex' = "nobody"
             /\ at' = "ended"
             /\ UNCHANGED <<thread, value>>

LockThread == /\ thread = "locking"
              /\ mutex = "nobody"
              /\ mutex' = "thread"
              /\ thread' = "adding"
              /\ UNCHANGED <<at, value>>

AddThread == /\ thread = "adding"
             /\ value' = value + 1
             /\ mutex' = "nobody"
             /\ thread' = "ended"
             /\ UNCHANGED at

TestStep == LockGuard \/ SpawnThread \/ LockBlock \/ AddBlock \/ JoinThread \/ DropGuard

ThreadStep == LockThread \/ AddThread

Next == TestStep \/ ThreadStep

\* Both threads are scheduled
Spec == Init /\ [][Next]_lessonVars /\ WF_lessonVars(TestStep) /\ WF_lessonVars(ThreadStep)

-----------------------------------------------------------------------------
(* Properties *)

\* The mutex lets the test and the thread use the value together: both add one
\* and the test ends.
SharedWithoutError == <>(at = "ended" /\ value = 3)
=============================================================================
