------------------------------- MODULE Stack -------------------------------
(***************************************************************************)
(* What a linked list promises: a stack, and iterators that go through it  *)
(* from the top.                                                           *)
(***************************************************************************)
EXTENDS Naturals, Sequences

CONSTANT Values

VARIABLES items,  \* the stack, its top in front
          place,  \* how many items the iterator in use has given out
          answer  \* what the last operation returned, <<>> for None

stackVars == <<items, place, answer>>

Init == items = <<>> /\ place = 0 /\ answer = <<>>

Top(s) == IF s = <<>> THEN <<>> ELSE <<Head(s)>>

Push(v) == items' = <<v>> \o items /\ place' = 0 /\ answer' = <<>>

Pop == /\ items' = IF items = <<>> THEN items ELSE Tail(items)
       /\ place' = 0
       /\ answer' = Top(items)

Peek == UNCHANGED <<items, place>> /\ answer' = Top(items)

\* peek_mut, and a write through what it returns
Poke(v) == /\ items # <<>>
           /\ items' = [items EXCEPT ![1] = v]
           /\ place' = 0
           /\ answer' = Top(items)

Iterate == items' = items /\ place' = 0 /\ answer' = <<>>

\* next() of an iterator, and a write through what it returns, if it may
Next1(v) == /\ place < Len(items)
            /\ answer' = <<items[place + 1]>>
            /\ items' = [items EXCEPT ![place + 1] = v]
            /\ place' = place + 1

NextNone == place = Len(items) /\ answer' = <<>> /\ UNCHANGED <<items, place>>

\* The list is dropped, one box at a time
Drop == items # <<>> /\ items' = Tail(items) /\ place' = 0 /\ answer' = <<>>

Next == \/ \E v \in Values : Push(v) \/ Poke(v) \/ Next1(v)
        \/ Pop \/ Peek \/ Iterate \/ NextNone \/ Drop

Spec == Init /\ [][Next]_stackVars
=============================================================================
