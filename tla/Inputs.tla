------------------------------- MODULE Inputs -------------------------------
(***************************************************************************)
(* The inputs on which TLC checks the functions: all small ones, around    *)
(* the bounds that matter to each.                                         *)
(***************************************************************************)
EXTENDS Algorithms

SeqsOf(S, n) == UNION {[1..k -> S] : k \in 0..n}

\* Of a fn, its inputs
CallsOf(fn, ins) == {[fn |-> fn, in |-> i] : i \in ins}

Digits == {l \in SeqsOf({0, 1, 9}, 3) : l # <<>>}

\* Two characters of one byte and one of two
Characters == {<<"a", 1>>, <<"b", 1>>, <<"e", 2>>}

Matrices == {<<>>} \cup UNION {[1..m -> [1..n -> {0, 1}]] : m \in 1..3, n \in 0..3}

Trees == {SearchTree(p, [i \in DOMAIN p |-> 2 * i]) : p \in UNION {SetToSeqs(1..n) : n \in 0..4}}

KeySets == {SetToSeq(S) : S \in SUBSET (I32Min..I32Max)}

HostCalls == {<<"register_cmd", "x", "a">>, <<"register_cmd", "x", "b">>,
              <<"register_events", "x", "a">>, <<"register_events", "x", "b">>,
              <<"register_events", "y", "b">>, <<"execute_cmd", "x">>, <<"emit_event", "x", "p">>}

Builds == {"consensus", "evm"} \X {"custom", "other"}

\* A ticket that is dropped was given before
Visits == UNION {{total} \X {calls \in SeqsOf({"aquire", "drop"}, 5) :
                     \A n \in DOMAIN calls :
                        calls[n] = "drop"
                            => Museum(total, SubSeq(calls, 1, n - 1)).permits < total}
                 : total \in 0..2}

SubstringCalls == CallsOf("length_of_longest_substring", SeqsOf(Characters, 5))

MCCalls == UNION {SubstringCalls,
                  CallsOf("add_two_numbers", Digits \X Digits),
                  CallsOf("max_area", SeqsOf(0..3, 4)),
                  CallsOf("first_missing_positive", SeqsOf(-1..5, 4)),
                  CallsOf("first_missing_positive_simple_to_understand", SeqsOf(-1..5, 4)),
                  CallsOf("max_sub_array", SeqsOf(-2..2, 4)),
                  CallsOf("set_zeroes", Matrices),
                  CallsOf("longest_consecutive_initial", KeySets),
                  CallsOf("longest_consecutive", KeySets),
                  CallsOf("kth_smallest", Trees \X (0..5)),
                  CallsOf("PluginHost", SeqsOf(HostCalls, 4) \cup {HostTest}),
                  CallsOf("NodeAdapter", {"eth", "bsc"} \X SeqsOf(Builds, 2)),
                  CallsOf("index", SeqsOf({1, 2}, 3) \X (-4..4)),
                  CallsOf("Museum", Visits \cup {<<5, MuseumTest>>}),
                  CallsOf("MyString", SeqsOf({1, 2}, 4)),
                  CallsOf("MyVecIterator", SeqsOf({1, 2, 3}, 3) \X (0..4)),
                  CallsOf("window_count", SeqsOf({1, 2}, 4) \X (0..3) \X (0..3)),
                  CallsOf("wnext", SeqsOf({1, 2}, 3) \X SeqsOf({3, 4}, 3))}

\* The functions return what the tests of the repository expect of them
ASSUME TestsPass == \A c \in Tests : Results(c) = {c.out}
=============================================================================
