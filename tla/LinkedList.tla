----------------------------- MODULE LinkedList -----------------------------
(***************************************************************************)
(* linked_list: a list of boxes with its iterators and its own Drop.  A    *)
(* box is an address that is in use; 0 is None.  While an iterator is in   *)
(* use the list is borrowed and nothing else is done with it, but to peek  *)
(* when the iterator is not mutable.                                       *)
(***************************************************************************)
EXTENDS Naturals, Sequences, FiniteSets

CONSTANTS Values,
          Boxes  \* bound: addresses, numbers other than 0

VARIABLES
    heap,    \* the boxes in use: functions to their nodes [elem, next]
    head,    \* LinkedList::head
    mode,    \* "owned", "iter" or "iter_mut" when it is borrowed, "dropping", "dropped"
    cursor,  \* the iterator's next, or cur_link in drop
    result   \* what the last operation returned

listVars == <<heap, head, mode, cursor, result>>

None == 0

Init == /\ heap = <<>>
        /\ head = None
        /\ mode = "owned"
        /\ cursor = None
        /\ result = <<>>

Free(b) == [a \in DOMAIN heap \ {b} |-> heap[a]]

ElemAt(b) == IF b = None THEN <<>> ELSE <<heap[b].elem>>

push(v) ==
    /\ mode = "owned"
    /\ \E b \in Boxes \ DOMAIN heap :
          /\ heap' = [a \in DOMAIN heap \cup {b} |->
                         IF a = b THEN [elem |-> v, next |-> head] ELSE heap[a]]
          /\ head' = b
    /\ result' = <<>>
    /\ UNCHANGED <<mode, cursor>>

pop == /\ mode = "owned"
       /\ result' = ElemAt(head)
       /\ head' = IF head = None THEN None ELSE heap[head].next
       /\ heap' = IF head = None THEN heap ELSE Free(head)
       /\ UNCHANGED <<mode, cursor>>

peek == /\ mode \in {"owned", "iter"}
        /\ result' = ElemAt(head)
        /\ UNCHANGED <<heap, head, mode, cursor>>

\* peek_mut, and a write through the reference
peek_mut(v) ==
    /\ mode = "owned"
    /\ head # None
    /\ result' = ElemAt(head)
    /\ heap' = [heap EXCEPT ![head].elem = v]
    /\ UNCHANGED <<head, mode, cursor>>

-----------------------------------------------------------------------------
iter(kind) == /\ mode = "owned"
              /\ mode' = kind
              /\ cursor' = head
              /\ result' = <<>>
              /\ UNCHANGED <<heap, head>>

\* Iter::next, and IterMut::next with a write of elem through what it returns
Advance(kind, elem) ==
    /\ mode = kind
    /\ result' = ElemAt(cursor)
    /\ cursor' = IF cursor = None THEN None ELSE heap[cursor].next
    /\ heap' = IF cursor = None THEN heap ELSE [heap EXCEPT ![cursor].elem = elem]
    /\ UNCHANGED <<head, mode>>

IterNext == Advance("iter", heap[cursor].elem)

IterMutNext(v) == Advance("iter_mut", v)

\* The borrow of the iterator ends
IterEnds == /\ mode \in {"iter", "iter_mut"}
            /\ mode' = "owned"
            /\ cursor' = None
            /\ result' = <<>>
            /\ UNCHANGED <<heap, head>>

-----------------------------------------------------------------------------
\* Mutant: the box is freed after the list has lost the next one
DropNodeForgets ==
    /\ mode = "dropping"
    /\ cursor # None
    /\ cursor' = None
    /\ heap' = Free(cursor)
    /\ UNCHANGED <<head, mode, result>>

\* drop: cur_link takes the head
Drop == /\ mode = "owned"
        /\ mode' = "dropping"
        /\ cursor' = head
        /\ head' = None
        /\ result' = <<>>
        /\ heap' = heap

\* cur_link takes the next box, and the one before is freed with its next None
DropNode == /\ mode = "dropping"
            /\ cursor # None
            /\ cursor' = heap[cursor].next
            /\ heap' = Free(cursor)
            /\ UNCHANGED <<head, mode, result>>

DropEnds == /\ mode = "dropping"
            /\ cursor = None
            /\ mode' = "dropped"
            /\ UNCHANGED <<heap, head, cursor, result>>

Next == \/ \E v \in Values : push(v) \/ peek_mut(v) \/ IterMutNext(v)
        \/ pop \/ peek
        \/ \E kind \in {"iter", "iter_mut"} : iter(kind)
        \/ IterNext \/ IterEnds
        \/ Drop \/ DropNode \/ DropEnds

-----------------------------------------------------------------------------
(* Properties *)

\* What the i-th box of s leads to
After(s, i) == IF i < Len(s) THEN s[i + 1] ELSE None

Reached(s) == {s[i] : i \in DOMAIN s}

\* The ways through the boxes of h, from b on, that follow their links to None
\* and miss no box: there is one at most.
Chains(h, b) == {s \in [1..Cardinality(DOMAIN h) -> DOMAIN h] :
                    /\ Reached(s) = DOMAIN h
                    /\ b = After(s, 0)
                    /\ \A i \in DOMAIN s : h[s[i]].next = After(s, i)}

Owned == Chains(heap, IF mode = "dropping" THEN cursor ELSE head)

Chain == CHOOSE s \in Owned : TRUE

\* A list with a box nobody can reach, or one that was freed, is not a stack
Items == IF Owned = {} THEN <<None>> ELSE [i \in DOMAIN Chain |-> heap[Chain[i]].elem]

Place == IF mode \in {"iter", "iter_mut"}
         THEN CHOOSE n \in 0..Len(Chain) : cursor = After(Chain, n)
         ELSE 0

S == INSTANCE Stack WITH items <- Items, place <- Place, answer <- result

\* The list with its boxes is a stack: what is pushed comes back in the reverse
\* order, an iterator gives every item once and a write through it changes that
\* item and no other, no box is used after it was freed, and every box is freed
\* with its item, in drop one after the other.
ListIsStack == S!Spec
=============================================================================
