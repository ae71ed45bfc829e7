------------------------------ MODULE Leetcode ------------------------------
(***************************************************************************)
(* leetcode: one operator per function of Solution, and below it what its  *)
(* comment promises (Is...) and the inputs of its tests.  A loop is a      *)
(* recursive function of a record of what it changes, or a fold.  Vectors, *)
(* lists and strings are sequences, counted from 1; a panic is the result  *)
(* Panic.                                                                  *)
(***************************************************************************)
EXTENDS Integers, FiniteSets, SequencesExt

CONSTANT I32Max  \* the largest i32, made small where it matters

ASSUME WidthAssumption == I32Max \in Nat

I32Min == -I32Max - 1

Panic == "panic"

FromTest(in, out) == [in |-> in, out |-> out]

-----------------------------------------------------------------------------
(* lc_2: a number is the list of its digits, the lowest first *)

add_two_numbers(l1, l2) ==
    LET val(p) == IF p = <<>> THEN 0 ELSE Head(p)
        next(p) == IF p = <<>> THEN p ELSE Tail(p)
        sum(n) == n.carry + val(n.p1) + val(n.p2)
        Digits[n \in [p1 : Seq(0..9), p2 : Seq(0..9), carry : 0..1]] ==
            IF n.p1 = <<>> /\ n.p2 = <<>> /\ n.carry = 0 THEN <<>>
            ELSE <<sum(n) % 10>>
                     \o Digits[[p1 |-> next(n.p1), p2 |-> next(n.p2), carry |-> sum(n) \div 10]]
    IN  Digits[[p1 |-> l1, p2 |-> l2, carry |-> 0]]

Number[l \in Seq(0..9)] == IF l = <<>> THEN 0 ELSE Head(l) + 10 * Number[Tail(l)]

\* The digits of the sum, as many as the longer list has, or one more
IsSum(in, out) ==
    LET longer == Max({Len(in[1]), Len(in[2])}) IN
    /\ \A i \in DOMAIN out : out[i] \in 0..9
    /\ Len(out) = longer \/ (Len(out) = longer + 1 /\ Last(out) # 0)
    /\ Number[out] = Number[in[1]] + Number[in[2]]

Nines(n) == [i \in 1..n |-> 9]

SumTests == {FromTest(<<<<2, 4, 3>>, <<5, 6, 4>>>>, <<7, 0, 8>>),
             FromTest(<<<<0>>, <<0>>>>, <<0>>),
             FromTest(<<<<9>>, <<1>> \o Nines(9)>>, [i \in 1..11 |-> IF i = 11 THEN 1 ELSE 0])}

-----------------------------------------------------------------------------
(* lc_3: a character is <<name, bytes of its encoding>> *)

Bytes(s) == FoldLeft(LAMBDA n, ch : n + ch[2], 0, s)

length_of_longest_substring(s) ==
    LET last_index(i) == Max({0} \cup {j \in 1..(i - 1) : s[j] = s[i]})
        Step(st, i) == IF last_index(i) > st.left
                       THEN [left |-> last_index(i), ans |-> Max({st.ans, i - 1 - st.left})]
                       ELSE st
        end == FoldLeftDomain(Step, [left |-> 0, ans |-> 0], s)
    IN  IF Bytes(s) <= 1 THEN Bytes(s)
                         ELSE Max({end.ans, Bytes(s) - end.left})

Distinct(s) == \A i, j \in DOMAIN s : s[i] = s[j] => i = j

Longest(s) == Max({Len(t) : t \in {u \in SubSeqs(s) : Distinct(u)}})

IsLongest(s, out) == out = Longest(s)

OfOneByte(s) == \A i \in DOMAIN s : s[i][2] = 1

Ascii(names) == [i \in DOMAIN names |-> <<names[i], 1>>]

SubstringTests == {FromTest(<<>>, 0), FromTest(Ascii(<<"a">>), 1),
                   FromTest(Ascii(<<"a", "b", "c", "a", "b", "c", "b", "b">>), 3),
                   FromTest(Ascii(<<"b", "b", "b", "b", "b">>), 1),
                   FromTest(Ascii(<<"p", "w", "w", "k", "e", "w">>), 3),
                   FromTest(Ascii(<<"a", "u">>), 2), FromTest(Ascii(<<"d", "v", "d", "f">>), 3)}

-----------------------------------------------------------------------------
(* lc_11: the two ends of an interval that shrinks *)

Area(height, left, right) == (right - left) * Min({height[left], height[right]})

max_area(height) ==
    LET lines == DOMAIN height
        narrower(p) == IF height[p.left] < height[p.right] THEN [p EXCEPT !.left = @ + 1]
                                                            ELSE [p EXCEPT !.right = @ - 1]
        Best[p \in [left : lines, right : lines]] ==
            IF p.left >= p.right THEN 0 ELSE Max({Area(height, p.left, p.right), Best[narrower(p)]})
    IN  IF height = <<>> THEN Panic ELSE Best[[left |-> 1, right |-> Len(height)]]

\* The largest container of any two lines; none is too few
IsLargest(h, out) ==
    IF h = <<>> THEN out = Panic
    ELSE out = Max({0} \cup {Area(h, i, j) : i, j \in DOMAIN h})

AreaTests == {FromTest(<<1, 8, 6, 2, 5, 4, 8, 3, 7>>, 49), FromTest(<<1, 1>>, 1),
              FromTest(<<8, 7, 2, 1>>, 7)}

-----------------------------------------------------------------------------
(* lc_41: both put the number x at index x, and look for the first gap *)

FirstGap(nums) == Min({Len(nums) + 1} \cup {i \in DOMAIN nums : nums[i] # i})

\* The number at i pushes out that at its place, and so on, while the places
\* are to the right of i; the first one to the left ends the chain
first_missing_positive_simple_to_understand(nums) ==
    LET Push[p \in [a : Seq(Int), i : Nat, cur : Int]] ==
            IF p.cur \in 1..p.i THEN [p.a EXCEPT ![p.cur] = p.cur]
            ELSE IF p.cur > p.i /\ p.cur <= Len(p.a) /\ p.a[p.cur] # p.cur
            THEN Push[[a |-> [p.a EXCEPT ![p.cur] = p.cur], i |-> p.i, cur |-> p.a[p.cur]]]
            ELSE p.a
        Visit(a, i) == IF a[i] = i THEN a ELSE Push[[a |-> a, i |-> i, cur |-> a[i]]]
    IN  FirstGap(FoldLeftDomain(Visit, nums, nums))

first_missing_positive(nums) ==
    LET swaps(p) == p.a[p.i] \in 1..Len(p.a) /\ p.a[p.a[p.i]] # p.a[p.i]
        next(p) == IF swaps(p)
                   THEN [p EXCEPT !.a = [@ EXCEPT ![p.a[p.i]] = p.a[p.i],
                                                  ![p.i] = p.a[p.a[p.i]]]]
                   ELSE [p EXCEPT !.i = @ + 1]
        Place[p \in [a : Seq(Int), i : Nat \ {0}]] ==
            IF p.i > Len(p.a) THEN p.a ELSE Place[next(p)]
    IN  FirstGap(Place[[a |-> nums, i |-> 1]])

IsFirstMissing(nums, out) == out = Min((1..(Len(nums) + 1)) \ ToSet(nums))

MissingTests == {FromTest(<<1, 2, 0>>, 3), FromTest(<<3, 4, -1, 1>>, 2), FromTest(<<-1>>, 1),
                 FromTest(<<2, 3, 1>>, 4), FromTest(<<7, 8, 9, 11>>, 1), FromTest(<<2, 2>>, 1)}

-----------------------------------------------------------------------------
(* lc_53 *)

Total(s) == FoldLeft(+, 0, s)

max_sub_array(nums) ==
    LET Step(st, num) == LET pre == Max({num, st.pre + num})
                         IN  [pre |-> pre, ans |-> Max({st.ans, pre})]
    IN  IF nums = <<>> THEN Panic
        ELSE FoldLeft(Step, [pre |-> 0, ans |-> nums[1]], nums).ans

IsLargestSum(nums, out) ==
    IF nums = <<>> THEN out = Panic
    ELSE out = Max({Total(t) : t \in SubSeqs(nums) \ {<<>>}})

SubArrayTests == {FromTest(<<1>>, 1), FromTest(<<-1>>, -1), FromTest(<<-2, -1>>, -1),
                  FromTest(<<5, 4, -1, 7, 8>>, 23)}

-----------------------------------------------------------------------------
(* lc_73: the first row and column of the matrix keep what is to be cleared *)

Cleared(m, cells) ==
    [i \in DOMAIN m |-> [j \in DOMAIN m[i] |-> IF <<i, j>> \in cells THEN 0 ELSE m[i][j]]]

set_zeroes(matric) ==
    LET rows == 1..Len(matric)
        cols == 1..Len(matric[1])
        inner == (rows \ {1}) \X (cols \ {1})
        first_row_zero == \E j \in cols : matric[1][j] = 0
        first_col_zero == \E i \in rows : matric[i][1] = 0
        marks == UNION {{<<1, c[2]>>, <<c[1], 1>>} : c \in {x \in inner : matric[x[1]][x[2]] = 0}}
        marked == Cleared(matric, marks)
        columns == Cleared(marked, {c \in inner : marked[1][c[2]] = 0})
        both == Cleared(columns, {c \in inner : columns[c[1]][1] = 0})
    IN  IF matric = <<>> \/ matric[1] = <<>> THEN Panic
        ELSE Cleared(both, {c \in rows \X cols : \/ c[1] = 1 /\ first_row_zero
                                                 \/ c[2] = 1 /\ first_col_zero})

IsZeroed(m, out) ==
    IF m = <<>> \/ m[1] = <<>> THEN out = Panic
    ELSE out = Cleared(m, {c \in (1..Len(m)) \X (1..Len(m[1])) :
                              \/ \E k \in 1..Len(m[1]) : m[c[1]][k] = 0
                              \/ \E k \in 1..Len(m) : m[k][c[2]] = 0})

ZeroesTests ==
    {FromTest(<<<<1, 1, 1>>, <<1, 0, 1>>, <<1, 1, 1>>>>,
              <<<<1, 0, 1>>, <<0, 0, 0>>, <<1, 0, 1>>>>),
     FromTest(<<<<0, 1, 2, 0>>, <<3, 4, 5, 2>>, <<1, 3, 1, 5>>>>,
              <<<<0, 0, 0, 0>>, <<0, 4, 5, 0>>, <<0, 3, 1, 0>>>>)}

-----------------------------------------------------------------------------
(* lc_128: a hash map gives its keys in any order *)

\* A key takes what follows it, until a key that was already taken; runs that
\* were taken before come with their lengths
longest_consecutive_initial(keys) ==
    LET nums == ToSet(keys)
        Take[t \in [key : Int, run : Nat, accessed : SUBSET nums, num : [nums -> Nat]]] ==
            IF t.key \in nums \ t.accessed
            THEN Take[[key |-> t.key + 1, run |-> t.run + t.num[t.key],
                       accessed |-> t.accessed \cup {t.key}, num |-> t.num]]
            ELSE t
        Visit(st, key) ==
            LET end == Take[[key |-> key + 1, run |-> 1,
                             accessed |-> st.accessed, num |-> st.num]]
            IN  [num |-> [st.num EXCEPT ![key] = end.run],
                 accessed |-> end.accessed,
                 output |-> Max({st.output, end.run})]
        start == [num |-> [k \in nums |-> 1], accessed |-> {}, output |-> 0]
    IN  IF I32Max \in nums THEN Panic ELSE FoldLeft(Visit, start, keys).output

longest_consecutive(keys) ==
    LET nums == ToSet(keys)
        Above[k \in Int] == IF k \in nums THEN Above[k + 1] ELSE k
        overflows == \E key \in nums : key - 1 < I32Min \/ Above[key] > I32Max
        Visit(output, key) ==
            IF key - 1 \in nums THEN output ELSE Max({output, Above[key + 1] - key})
    IN  IF overflows THEN Panic ELSE FoldLeft(Visit, 0, keys)

LongestRun(nums) ==
    Max({0} \cup {p[2] - p[1] + 1 : p \in {q \in nums \X nums : q[1]..q[2] \subseteq nums}})

\* The longest run of consecutive integers, whatever the order of the keys
IsLongestRun(keys, out) == out = LongestRun(ToSet(keys))

ConsecutiveTests == {FromTest(<<0, -1, 1>>, 3)}

-----------------------------------------------------------------------------
(* lc_230: the nodes of a tree are the numbers 1 to n, 0 is None *)

kth_smallest(tree, k0) ==
    LET nodes == DOMAIN tree.val
        next(w) == IF w.root # 0
                   THEN [root |-> tree.left[w.root], stack |-> Append(w.stack, w.root), k |-> w.k]
                   ELSE [root |-> tree.right[Last(w.stack)], stack |-> Front(w.stack), k |-> w.k - 1]
        Walk[w \in [root : nodes \cup {0}, stack : Seq(nodes), k : Int]] ==
            IF w.root # 0 THEN Walk[next(w)]
            ELSE IF w.stack = <<>> THEN Panic
            ELSE IF w.k = 1 THEN tree.val[Last(w.stack)]
            ELSE Walk[next(w)]
    IN  Walk[[root |-> tree.root, stack |-> <<>>, k |-> k0]]

\* The search tree of the nodes 1 to n, in the order of their values, in which
\* p says how near to the root a node is
SearchTree(p, val) ==
    LET nodes == DOMAIN p
        top(S) == IF S = {} THEN 0 ELSE CHOOSE u \in S : \A v \in S : p[u] <= p[v]
        under(u, S) == {v \in S : \A w \in Min({u, v})..Max({u, v}) : p[u] <= p[w]}
    IN  [root |-> top(nodes),
         left |-> [u \in nodes |-> top(under(u, 1..(u - 1)))],
         right |-> [u \in nodes |-> top(under(u, (u + 1)..Len(p)))],
         val |-> val]

\* There is no k-th value: the code unwraps None
IsKthSmallest(in, out) ==
    LET vals == ToSet(in[1].val) IN
    IF in[2] \notin 1..Cardinality(vals) THEN out = Panic
    ELSE out \in vals /\ Cardinality({v \in vals : v <= out}) = in[2]

KthTests == {FromTest(<<SearchTree(<<2, 3, 1, 4>>, <<1, 2, 3, 4>>), 2>>, 2)}
=============================================================================
