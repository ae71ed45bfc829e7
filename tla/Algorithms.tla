----------------------------- MODULE Algorithms -----------------------------
(***************************************************************************)
(* The functions of leetcode, the uses of design-pattern's plugins and of  *)
(* the types of the lessons as one state machine: a call is made, and      *)
(* returns.  The functions that go through a hash map may return what they *)
(* compute for any order of it.                                            *)
(***************************************************************************)
EXTENDS Leetcode, Plugins, Lessons

CONSTANT Calls  \* calls to check, records [fn |-> name, in |-> argument]

VARIABLES call,  \* the call that was made
          ret    \* what it returned

algorithmVars == <<call, ret>>

NoCall == [fn |-> "none"]

AlgorithmsInit == call = NoCall /\ ret = <<>>

\* The inputs of the repository's tests, with what they expect
Tests ==
    LET Of(fn, tests) == {[fn |-> fn, in |-> t.in, out |-> t.out] : t \in tests}
    IN  UNION {Of("add_two_numbers", SumTests),
               Of("length_of_longest_substring", SubstringTests),
               Of("max_area", AreaTests),
               Of("first_missing_positive", MissingTests),
               Of("max_sub_array", SubArrayTests),
               Of("set_zeroes", ZeroesTests),
               Of("longest_consecutive", ConsecutiveTests),
               Of("kth_smallest", KthTests),
               Of("index", IndexTests),
               Of("wnext", {LentTest})}

\* What the functions are called with.  The tree of kth_smallest is a search
\* tree, whose nodes stand in the order of their values.
Valid(c) ==
    CASE c.fn = "add_two_numbers"             -> c.in \in Seq(0..9) \X Seq(0..9)
      [] c.fn = "length_of_longest_substring" -> c.in \in Seq(STRING \X (Nat \ {0}))
      [] c.fn = "max_area"                    -> c.in \in Seq(Nat)
      [] c.fn \in {"first_missing_positive", "first_missing_positive_simple_to_understand"} ->
             c.in \in Seq(Int)
      [] c.fn = "max_sub_array"               -> c.in \in Seq(Int)
      [] c.fn = "set_zeroes"                  ->
             c.in \in Seq(Seq(Int)) /\ \A i \in 1..Len(c.in) : Len(c.in[i]) = Len(c.in[1])
      [] c.fn \in {"longest_consecutive_initial", "longest_consecutive"} ->
             c.in \in Seq(I32Min..I32Max)
      [] c.fn = "kth_smallest"                ->
             \E val \in {c.in[1].val}, k \in {c.in[2]} :
                /\ val \in Seq(Int) /\ k \in Int
                /\ \A i, j \in DOMAIN val : i < j => val[i] < val[j]
                /\ \E p \in [1..Len(val) -> 1..Len(val)] :
                      IsInjective(p) /\ c.in = <<SearchTree(p, val), k>>
      [] c.fn = "PluginHost"                  ->
             c.in \in Seq(({"register_cmd", "register_events"} \X STRING \X STRING)
                              \cup ({"execute_cmd"} \X STRING)
                              \cup ({"emit_event"} \X STRING \X STRING))
      [] c.fn = "NodeAdapter"                 ->
             c.in \in STRING \X Seq({"consensus", "evm"} \X STRING)
      [] c.fn = "index"                       -> c.in \in Seq(Int) \X Int
      [] c.fn = "Museum"                      -> c.in \in Nat \X Seq({"aquire", "drop"})
      [] c.fn = "MyString"                    -> c.in \in Seq(Int)
      [] c.fn = "MyVecIterator"               -> c.in \in Seq(Int) \X Nat
      [] c.fn = "window_count"                -> c.in \in Seq(Int) \X Nat \X Nat
      [] c.fn = "wnext"                       -> c.in \in Seq(Int) \X Seq(Int)
      [] OTHER                                -> FALSE

\* The inputs that are checked are of that kind
ASSUME CallsAssumption == \A c \in Calls \cup Tests : Valid(c)

Orders(in) == SetToSeqs(ToSet(in))

\* What a call may return
Results(c) ==
    CASE c.fn = "add_two_numbers"             -> {add_two_numbers(c.in[1], c.in[2])}
      [] c.fn = "length_of_longest_substring" -> {length_of_longest_substring(c.in)}
      [] c.fn = "max_area"                    -> {max_area(c.in)}
      [] c.fn = "first_missing_positive"      -> {first_missing_positive(c.in)}
      [] c.fn = "first_missing_positive_simple_to_understand" ->
             {first_missing_positive_simple_to_understand(c.in)}
      [] c.fn = "max_sub_array"               -> {max_sub_array(c.in)}
      [] c.fn = "set_zeroes"                  -> {set_zeroes(c.in)}
      [] c.fn = "longest_consecutive_initial" ->
             {longest_consecutive_initial(keys) : keys \in Orders(c.in)}
      [] c.fn = "longest_consecutive" -> {longest_consecutive(keys) : keys \in Orders(c.in)}
      [] c.fn = "kth_smallest"                -> {kth_smallest(c.in[1], c.in[2])}
      [] c.fn = "PluginHost"                  -> {Host(c.in)}
      [] c.fn = "NodeAdapter"                 -> {Launch(c.in[1], c.in[2])}
      [] c.fn = "index"                       -> {index(c.in[1], c.in[2])}
      [] c.fn = "Museum"                      -> {Museum(c.in[1], c.in[2])}
      [] c.fn = "MyString"                    -> {MyString(c.in)}
      [] c.fn = "MyVecIterator"               -> {MyVecIterator(c.in[1], c.in[2])}
      [] c.fn = "window_count"                -> {window_count(c.in[1], c.in[2], c.in[3])}
      [] c.fn = "wnext"                       -> {wnext(c.in[1], c.in[2])}

Call == /\ call = NoCall
        /\ call' \in Calls \cup Tests
        /\ ret' = ret

CallEnds == /\ call # NoCall
            /\ ret = <<>>
            /\ \E r \in Results(call) : ret' = <<r>>
            /\ call' = call

\* One call makes a behaviour
CallEnded == ret # <<>> /\ UNCHANGED algorithmVars

AlgorithmsNext == Call \/ CallEnds \/ CallEnded

AlgorithmsSpec == AlgorithmsInit /\ [][AlgorithmsNext]_algorithmVars

-----------------------------------------------------------------------------
(* Properties *)

\* What the comment at the head of the function, or the caller, asks of a result.
\* TLC cannot write the sum of longer lists as a number; TestsPass compares the
\* one among the tests digit by digit, and AddTwoNumbersIsSum is about all.
Right(c, out) ==
    CASE c.fn = "add_two_numbers"             -> Len(c.in[2]) > 9 \/ IsSum(c.in, out)
      [] c.fn = "length_of_longest_substring" -> IsLongest(c.in, out)
      [] c.fn = "max_area"                    -> IsLargest(c.in, out)
      [] c.fn \in {"first_missing_positive", "first_missing_positive_simple_to_understand"} ->
             IsFirstMissing(c.in, out)
      [] c.fn = "max_sub_array"               -> IsLargestSum(c.in, out)
      [] c.fn = "set_zeroes"                  -> IsZeroed(c.in, out)
      [] c.fn \in {"longest_consecutive_initial", "longest_consecutive"} ->
             IsLongestRun(c.in, out)
      [] c.fn = "kth_smallest"                -> IsKthSmallest(c.in, out)
      [] c.fn = "PluginHost"                  -> IsDispatch(c.in, out)
      [] c.fn = "NodeAdapter"                 -> IsLaunch(c.in[1], c.in[2], out)
      [] c.fn = "index"                       -> IsIndex(c.in[1], c.in[2], out)
      [] c.fn = "Museum"                      -> IsMuseum(c.in[1], c.in[2], out)
      [] c.fn = "MyString"                    -> IsMyString(c.in, out)
      [] c.fn = "MyVecIterator"               -> IsRound(c.in[1], c.in[2], out)
      [] c.fn = "window_count"                -> IsWindows(c.in[1], c.in[2], c.in[3], out)
      [] c.fn = "wnext"                       -> IsLent(c.in[1], c.in[2], out)

\* Three functions keep their promise for a part of their inputs only: a string of
\* characters of one byte each, and keys away from the ends of i32 that a build
\* which checks for overflow would step over.
Supported(c) ==
    CASE c.fn = "length_of_longest_substring" -> OfOneByte(c.in)
      [] c.fn = "longest_consecutive_initial" -> I32Max \notin ToSet(c.in)
      [] c.fn = "longest_consecutive"         -> {I32Min, I32Max} \cap ToSet(c.in) = {}
      [] OTHER                                -> TRUE

\* Every function returns what it is for, on every input of these, and for every
\* order in which a hash map may give its keys.
Computed == ret # <<>> /\ Supported(call) => Right(call, ret[1])

\* The comments at the head of the functions name no such part: whatever the
\* argument, what comes back is what the function is for.
PromiseKept == ret # <<>> => Right(call, ret[1])
=============================================================================
