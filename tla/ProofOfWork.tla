---------------------------- MODULE ProofOfWork ----------------------------
(***************************************************************************)
(* pow: threads that look for a number whose hash starts with zeroes, each *)
(* in a residue class of its own, and main, which prints the first         *)
(* solution it receives and ends the process.  The flag that tells the     *)
(* others is Relaxed: a thread may read the old value for a while.         *)
(***************************************************************************)
EXTENDS Naturals, Sequences

CONSTANTS Threads,  \* thread_num
          MaxNum    \* bound: numbers that are tried

Finders == 0..(Threads - 1)

VARIABLES
    solutions,       \* the numbers verify accepts, chosen once
    num,             \* the number a thread is at
    finder,          \* "looking", "sending", "returned" or "panicked"
    finded_solution, \* the flag
    channel,         \* solutions sent and not received
    main,            \* "waiting", "printing", "returning" when rx is dropped, "exited"
    printed          \* the solution main has received

powVars == <<solutions, num, finder, finded_solution, channel, main, printed>>

Init == /\ solutions \in SUBSET (0..MaxNum)
        /\ num = [t \in Finders |-> t]
        /\ finder = [t \in Finders |-> "looking"]
        /\ finded_solution = FALSE
        /\ channel = <<>>
        /\ main = "waiting"
        /\ printed = <<>>

Alive(t, pc) == main # "exited" /\ finder[t] = pc

\* The load finds the flag set
Stop(t) == /\ Alive(t, "looking")
           /\ finded_solution
           /\ finder' = [finder EXCEPT ![t] = "returned"]
           /\ UNCHANGED <<solutions, num, finded_solution, channel, main, printed>>

\* Mutant: the step is one short
TryNextShort(t) ==
    /\ Alive(t, "looking")
    /\ num[t] <= MaxNum
    /\ num[t] \notin solutions
    /\ num' = [num EXCEPT ![t] = @ + Threads - 1]
    /\ UNCHANGED <<solutions, finder, finded_solution, channel, main, printed>>

\* The load does not find it set, be it that the value is old
TryNext(t) ==
    /\ Alive(t, "looking")
    /\ num[t] <= MaxNum
    /\ num[t] \notin solutions
    /\ num' = [num EXCEPT ![t] = @ + Threads]
    /\ UNCHANGED <<solutions, finder, finded_solution, channel, main, printed>>

Found(t) == /\ Alive(t, "looking")
            /\ num[t] \in solutions
            /\ finded_solution' = TRUE
            /\ finder' = [finder EXCEPT ![t] = "sending"]
            /\ UNCHANGED <<solutions, num, channel, main, printed>>

ReceiverDropped == main \in {"returning", "exited"}

SendSolution(t) ==
    /\ Alive(t, "sending")
    /\ ~ReceiverDropped
    /\ channel' = Append(channel, num[t])
    /\ finder' = [finder EXCEPT ![t] = "returned"]
    /\ UNCHANGED <<solutions, num, finded_solution, main, printed>>

\* The unwrap of a send that failed
SendPanics(t) ==
    /\ Alive(t, "sending")
    /\ ReceiverDropped
    /\ finder' = [finder EXCEPT ![t] = "panicked"]
    /\ UNCHANGED <<solutions, num, finded_solution, channel, main, printed>>

\* Mutant: recv_timeout, and main exits when it is over
ReceiveOrTimeout ==
    /\ main = "waiting"
    /\ \/ /\ channel # <<>>
          /\ printed' = <<Head(channel)>>
          /\ channel' = Tail(channel)
          /\ main' = "printing"
       \/ /\ channel = <<>>
          /\ main' = "exited"
          /\ UNCHANGED <<printed, channel>>
    /\ UNCHANGED <<solutions, num, finder, finded_solution>>

\* rx.recv(), which has no error: main keeps the sender it has cloned from
Receive == /\ main = "waiting"
           /\ channel # <<>>
           /\ printed' = <<Head(channel)>>
           /\ channel' = Tail(channel)
           /\ main' = "printing"
           /\ UNCHANGED <<solutions, num, finder, finded_solution>>

\* main returns, drops rx and then exits
Leave == /\ main \in {"printing", "returning"}
         /\ main' = IF main = "printing" THEN "returning" ELSE "exited"
         /\ UNCHANGED <<solutions, num, finder, finded_solution, channel, printed>>

Find(t) == Stop(t) \/ TryNext(t) \/ Found(t) \/ SendSolution(t) \/ SendPanics(t)

Next == Receive \/ Leave \/ \E t \in Finders : Find(t)

Fairness == WF_powVars(Receive \/ Leave) /\ \A t \in Finders : WF_powVars(Find(t))

-----------------------------------------------------------------------------
(* Properties *)

\* What is printed is a solution, and the first of its residue class: no thread
\* skips one.  A thread panics on its send only when main has printed, a number
\* is sent once, and nobody stops looking unless a thread found a solution and
\* has sent it or is about to.
PowSound ==
    /\ \A i \in DOMAIN printed :
          /\ printed[i] \in solutions
          /\ \A k \in solutions : k < printed[i] => k % Threads # printed[i] % Threads
    /\ (\E t \in Finders : finder[t] = "panicked") => printed # <<>>
    /\ \A i, j \in DOMAIN (printed \o channel) :
          (printed \o channel)[i] = (printed \o channel)[j] => i = j
    /\ finded_solution =>
          \/ \E t \in Finders : finder[t] = "sending"
          \/ channel # <<>>
          \/ printed # <<>>

\* A solution within reach is found and printed: the threads that stop do so
\* for one that gets to main.
PowReports == solutions # {} ~> printed # <<>>
=============================================================================
