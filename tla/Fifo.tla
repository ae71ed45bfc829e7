-------------------------------- MODULE Fifo --------------------------------
(***************************************************************************)
(* What a pipeline promises: tasks come out in the order they went in.     *)
(***************************************************************************)
EXTENDS Naturals, Sequences

VARIABLES inside,  \* the tasks that are in the pipeline
          passed   \* the tasks that have come out

Init == inside = <<>> /\ passed = <<>>

\* Tasks are numbered in the order they go in
Put == /\ inside' = Append(inside, Len(passed) + Len(inside) + 1)
       /\ passed' = passed

Get == /\ inside # <<>>
       /\ inside' = Tail(inside)
       /\ passed' = Append(passed, Head(inside))

Next == Put \/ Get

Spec == Init /\ [][Next]_<<inside, passed>>
=============================================================================
