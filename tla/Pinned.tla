------------------------------- MODULE Pinned -------------------------------
(***************************************************************************)
(* concepts/12_future_pin: values that hold a pointer to a part of         *)
(* themselves, and two wrappers that should keep them where they are:      *)
(* MyPin, whose deref_mut is there for every value, and MyPinCorrect,      *)
(* whose deref_mut is there for Unpin values only.  A place is a variable  *)
(* of the caller; a move copies the value to another place, as it is.      *)
(***************************************************************************)
EXTENDS Naturals

CONSTANT Places

VARIABLES
    val,     \* the value in a place, or NoValue
    wrapper, \* the wrapper that borrows a place, or "none"
    sound,   \* history: the value pointed to itself when it was wrapped
    promise  \* history: no caller of an unsafe function has moved a pinned value

pinVars == <<val, wrapper, sound, promise>>

\* A pointer leads to a place, or nowhere any more
Value(type, pointer) == [type |-> type, pointer |-> pointer]

NoValue == Value("none", "null")

Init == /\ val = [p \in Places |-> NoValue]
        /\ wrapper = [p \in Places |-> "none"]
        /\ sound = [p \in Places |-> FALSE]
        /\ promise = TRUE

Holds(p) == val[p].type # "none"

Unpin(p) == val[p].type # "SelfReferentialPin"

\* SelfReferential::new leaves the pointer null
New(p) == /\ ~Holds(p)
          /\ val' = [val EXCEPT ![p] = Value("SelfReferential", "null")]
          /\ UNCHANGED <<wrapper, sound, promise>>

\* SelfReferentialPin::new points to its own local, and returns it: the caller
\* has it where it was only if the build leaves the move out
NewPin(p) == /\ ~Holds(p)
             /\ \E pointer \in {"nowhere", p} :
                   val' = [val EXCEPT ![p] = Value("SelfReferentialPin", pointer)]
             /\ UNCHANGED <<wrapper, sound, promise>>

\* Through a &mut: of the place itself, or what deref_mut of its wrapper gives
Mutable(p) == \/ wrapper[p] \in {"none", "MyPin"}
              \/ wrapper[p] = "MyPinCorrect" /\ Unpin(p)

init(p) == /\ Holds(p)
           /\ Mutable(p)
           /\ val' = [val EXCEPT ![p].pointer = p]
           /\ UNCHANGED <<wrapper, sound, promise>>

\* let q = p, which the borrow of a wrapper forbids
Move(p, q) == /\ Holds(p) /\ ~Holds(q)
              /\ wrapper[p] = "none"
              /\ val' = [val EXCEPT ![q] = val[p], ![p] = NoValue]
              /\ UNCHANGED <<wrapper, sound, promise>>

\* Mutant: deref_mut of MyPinCorrect has no bound
SwapAny(p, q) ==
    /\ p # q
    /\ Holds(p) /\ Holds(q)
    /\ val[p].type = val[q].type
    /\ val' = [val EXCEPT ![p] = val[q], ![q] = val[p]]
    /\ UNCHANGED <<wrapper, sound, promise>>

\* mem::swap(&mut *a, &mut *b), of two values of one type
Swap(p, q) == /\ p # q
              /\ Holds(p) /\ Holds(q)
              /\ val[p].type = val[q].type
              /\ Mutable(p) /\ Mutable(q)
              /\ val' = [val EXCEPT ![p] = val[q], ![q] = val[p]]
              /\ UNCHANGED <<wrapper, sound, promise>>

\* MyPin::new, MyPinCorrect::new or MyPinCorrect::new_unchecked of &mut p
Wrap(p, kind) == /\ Holds(p)
                 /\ wrapper[p] = "none"
                 /\ wrapper' = [wrapper EXCEPT ![p] = kind]
                 /\ sound' = [sound EXCEPT ![p] = val[p].pointer = p]
                 /\ UNCHANGED <<val, promise>>

\* The wrapper is dropped and the place can be used again
Unwrap(p) == /\ wrapper[p] # "none"
             /\ wrapper' = [wrapper EXCEPT ![p] = "none"]
             /\ sound' = [sound EXCEPT ![p] = FALSE]
             /\ UNCHANGED <<val, promise>>

\* mem::replace through get_unchecked_mut, as test_break_pin_promise does
BreakPromise(p, q) ==
    /\ wrapper[p] = "MyPinCorrect"
    /\ ~Unpin(p)
    /\ ~Holds(q)
    /\ val' = [val EXCEPT ![q] = val[p], ![p] = Value("SelfReferentialPin", "nowhere")]
    /\ promise' = FALSE
    /\ UNCHANGED <<wrapper, sound>>

Next == \E p \in Places :
            \/ New(p) \/ NewPin(p) \/ init(p) \/ Unwrap(p)
            \/ \E kind \in {"MyPin", "MyPinCorrect"} : Wrap(p, kind)
            \/ \E q \in Places : Move(p, q) \/ Swap(p, q) \/ BreakPromise(p, q)

Spec == Init /\ [][Next]_pinVars

-----------------------------------------------------------------------------
(* Properties *)

\* A value that is not Unpin and pointed to itself when it was put behind
\* MyPinCorrect does so until the wrapper is gone, whatever is swapped, moved
\* or initialised meanwhile, unless an unsafe call broke the promise: reading
\* its data through the pointer gives its own.
PointsToSelf ==
    promise => \A p \in Places :
        wrapper[p] = "MyPinCorrect" /\ ~Unpin(p) /\ sound[p] => val[p].pointer = p
=============================================================================
