-------------------------- MODULE Functions_proofs --------------------------
(***************************************************************************)
(* Proofs about the functions of Leetcode, Plugins and Lessons: what each  *)
(* returns for every input.  A loop is shown to end because something gets *)
(* smaller, which gives the recursive function that models it; what it     *)
(* keeps then says what it returns (IsLoop, Kept, LoopEnds).  A fold goes  *)
(* through states, one per element (States).                               *)
(***************************************************************************)
EXTENDS Algorithms, SequenceLemmas, FiniteSetTheorems

-----------------------------------------------------------------------------
(* lc_53 *)

Plus == [p \in Int \X Int |-> p[1] + p[2]]

LEMMA TotalStates ==
    ASSUME NEW s \in Seq(Int)
    PROVE  \E st : States(st, Int, Plus, 0, s) /\ Total(s) = st[Len(s)]
<1>0. s \in Seq(Int) /\ DOMAIN s = 1..Len(s) /\ Len(s) \in Nat
      /\ \A k \in 1..Len(s) : s[k] \in Int
    OBVIOUS
<1>1. Plus \in [Int \X Int -> Int]
    BY DEF Plus
<1>2. \A x \in Int, y \in Int : Plus[<<x, y>>] = x + y
    BY DEF Plus
<1>3. 0 \in Int
    OBVIOUS
<1> DEFINE Is(it) == it = [S \in SUBSET (DOMAIN s) |->
                              IF S = {} THEN 0 ELSE it[S \ {Max(S)}] + s[Max(S)]]
           fold == CHOOSE it : Is(it)
<1>4. \E it : Is(it)
    <2>1. PICK it \in [SUBSET (1..Len(s)) -> Int] : Folds(it, Int, Plus, 0, s)
        BY <1>0, <1>1, <1>3, FoldExists, Zenon
    <2>2. ASSUME NEW S \in SUBSET (1..Len(s)), S # {}
          PROVE  it[S] = it[S \ {Max(S)}] + s[Max(S)]
        <3>1. Max(S) \in 1..Len(s)
            BY <1>0, <2>2, LastPlace
        <3>2. it[S \ {Max(S)}] \in Int /\ s[Max(S)] \in Int
            BY <1>0, <3>1
        <3>3. it[S] = Plus[<<it[S \ {Max(S)}], s[Max(S)]>>]
            BY <2>1, <2>2, <3>2 DEF Folds
        <3> QED BY <1>2, <3>2, <3>3
    <2>3. Is(it)
        BY <1>0, <2>1, <2>2 DEF Folds
    <2> QED BY <2>3
<1>5. Is(fold)
    <2> HIDE DEF Is
    <2> QED BY <1>4
<1>6. Total(s) = fold[1..Len(s)]
    <2>1. Total(s) = fold[DOMAIN s]
        BY Zenon DEF Total, FoldLeft, MapThenFoldSet
    <2> HIDE DEF fold
    <2> QED BY <1>0, <2>1
<1> HIDE DEF fold
<1>7. Folds(fold, Int, Plus, 0, s)
    <2>1. fold[{}] = 0
        BY <1>5
    <2>2. ASSUME NEW S \in SUBSET (1..Len(s)), S # {}, fold[S \ {Max(S)}] \in Int
          PROVE  fold[S] = Plus[<<fold[S \ {Max(S)}], s[Max(S)]>>]
        <3>1. s[Max(S)] \in Int
            BY <1>0, <2>2, LastPlace
        <3>2. fold[S] = fold[S \ {Max(S)}] + s[Max(S)]
            BY <1>0, <1>5, <2>2
        <3> QED BY <1>2, <2>2, <3>1, <3>2
    <2> QED BY <2>1, <2>2 DEF Folds
<1>8. LastState(fold[1..Len(s)], Int, Plus, 0, s)
    BY <1>0, <1>1, <1>3, <1>7, FoldStates, Zenon
<1> QED BY <1>6, <1>8 DEF LastState

BestSums == [pre : Int, ans : Int]

NextSum == [p \in BestSums \X Int |->
               [pre |-> Max({p[2], p[1].pre + p[2]}),
                ans |-> Max({p[1].ans, Max({p[2], p[1].pre + p[2]})})]]

LEMMA NextSumType == NextSum \in [BestSums \X Int -> BestSums]
<1>1. ASSUME NEW x \in Int, NEW y \in Int PROVE Max({x, y}) \in Int
    BY MaxOfTwo
<1>2. ASSUME NEW p \in BestSums \X Int PROVE NextSum[p] \in BestSums
    <2>1. p[2] \in Int /\ p[1].pre \in Int /\ p[1].ans \in Int
        BY DEF BestSums
    <2>2. Max({p[2], p[1].pre + p[2]}) \in Int
        BY <1>1, <2>1
    <2>3. Max({p[1].ans, Max({p[2], p[1].pre + p[2]})}) \in Int
        BY <1>1, <2>1, <2>2
    <2> QED BY <2>2, <2>3 DEF NextSum, BestSums
<1> QED BY <1>2 DEF NextSum

LEMMA KadaneStates ==
    ASSUME NEW nums \in Seq(Int), nums # <<>>
    PROVE  \E st : States(st, BestSums, NextSum, [pre |-> 0, ans |-> nums[1]], nums) /\ max_sub_array(nums) = st[Len(nums)].ans
<1>0. nums \in Seq(Int) /\ DOMAIN nums = 1..Len(nums) /\ Len(nums) \in Nat
      /\ \A k \in 1..Len(nums) : nums[k] \in Int
    OBVIOUS
<1>1. NextSum \in [BestSums \X Int -> BestSums]
    BY NextSumType
<1>2. \A x \in BestSums, y \in Int : NextSum[<<x, y>>] = [pre |-> Max({y, x.pre + y}), ans |-> Max({x.ans, Max({y, x.pre + y})})]
    BY DEF NextSum
<1>3. [pre |-> 0, ans |-> nums[1]] \in BestSums
    BY DEF BestSums
<1> DEFINE Is(it) == it = [S \in SUBSET (DOMAIN nums) |->
                              IF S = {} THEN [pre |-> 0, ans |-> nums[1]] ELSE [pre |-> Max({nums[Max(S)], it[S \ {Max(S)}].pre + nums[Max(S)]}), ans |-> Max({it[S \ {Max(S)}].ans, Max({nums[Max(S)], it[S \ {Max(S)}].pre + nums[Max(S)]})})]]
           fold == CHOOSE it : Is(it)
<1>4. \E it : Is(it)
    <2>1. PICK it \in [SUBSET (1..Len(nums)) -> BestSums] : Folds(it, BestSums, NextSum, [pre |-> 0, ans |-> nums[1]], nums)
        BY <1>0, <1>1, <1>3, FoldExists, Zenon
    <2>2. ASSUME NEW S \in SUBSET (1..Len(nums)), S # {}
          PROVE  it[S] = [pre |-> Max({nums[Max(S)], it[S \ {Max(S)}].pre + nums[Max(S)]}), ans |-> Max({it[S \ {Max(S)}].ans, Max({nums[Max(S)], it[S \ {Max(S)}].pre + nums[Max(S)]})})]
        <3>1. Max(S) \in 1..Len(nums)
            BY <1>0, <2>2, LastPlace
        <3>2. it[S \ {Max(S)}] \in BestSums /\ nums[Max(S)] \in Int
            BY <1>0, <3>1
        <3>3. it[S] = NextSum[<<it[S \ {Max(S)}], nums[Max(S)]>>]
            BY <2>1, <2>2, <3>2 DEF Folds
        <3> QED BY <1>2, <3>2, <3>3
    <2>3. Is(it)
        BY <1>0, <2>1, <2>2 DEF Folds
    <2> QED BY <2>3
<1>5. Is(fold)
    <2> HIDE DEF Is
    <2> QED BY <1>4
<1>6. max_sub_array(nums) = fold[1..Len(nums)].ans
    <2>1. max_sub_array(nums) = fold[DOMAIN nums].ans
        BY Zenon DEF max_sub_array, FoldLeft, MapThenFoldSet
    <2> HIDE DEF fold
    <2> QED BY <1>0, <2>1
<1> HIDE DEF fold
<1>7. Folds(fold, BestSums, NextSum, [pre |-> 0, ans |-> nums[1]], nums)
    <2>1. fold[{}] = [pre |-> 0, ans |-> nums[1]]
        BY <1>5
    <2>2. ASSUME NEW S \in SUBSET (1..Len(nums)), S # {}, fold[S \ {Max(S)}] \in BestSums
          PROVE  fold[S] = NextSum[<<fold[S \ {Max(S)}], nums[Max(S)]>>]
        <3>1. nums[Max(S)] \in Int
            BY <1>0, <2>2, LastPlace
        <3>2. fold[S] = [pre |-> Max({nums[Max(S)], fold[S \ {Max(S)}].pre + nums[Max(S)]}), ans |-> Max({fold[S \ {Max(S)}].ans, Max({nums[Max(S)], fold[S \ {Max(S)}].pre + nums[Max(S)]})})]
            BY <1>0, <1>5, <2>2
        <3> QED BY <1>2, <2>2, <3>1, <3>2
    <2> QED BY <2>1, <2>2 DEF Folds
<1>8. LastState(fold[1..Len(nums)], BestSums, NextSum, [pre |-> 0, ans |-> nums[1]], nums)
    BY <1>0, <1>1, <1>3, <1>7, FoldStates, Zenon
<1> QED BY <1>6, <1>8 DEF LastState

\* The sum of the elements from i + 1 to j
LEMMA TotalOfPart ==
    ASSUME NEW s \in Seq(Int), NEW P, States(P, Int, Plus, 0, s),
           NEW i \in 0..Len(s), NEW j \in i..Len(s)
    PROVE  Total(SubSeq(s, i + 1, j)) = P[j] - P[i]
<1> DEFINE t == SubSeq(s, i + 1, j)
           Q == [k \in 0..Len(t) |-> P[i + k] - P[i]]
<1>1. t \in Seq(Int) /\ Len(t) = j - i /\ \A k \in 1..Len(t) : t[k] = s[i + k]
    BY PartAt
<1>2. \A k \in 0..Len(s) : P[k] \in Int
    BY DEF States
<1>3. \A k \in 0..Len(t) : i + k \in 0..Len(s)
    BY <1>1
<1> HIDE DEF t
<1>4. Q \in [0..Len(t) -> Int] /\ \A k \in 0..Len(t) : Q[k] = P[i + k] - P[i]
    <2>1. \A k \in 0..Len(t) : P[i + k] - P[i] \in Int
        <3>1. P[i] \in Int
            BY <1>2
        <3>2. \A k \in 0..Len(t) : P[i + k] \in Int
            BY <1>2, <1>3
        <3> QED BY <3>1, <3>2
    <2> QED BY <2>1
<1>5. Q[0] = 0
    BY <1>1, <1>2, <1>4
<1>6. ASSUME NEW k \in 1..Len(t) PROVE Q[k] = Plus[<<Q[k - 1], t[k]>>]
    <2>1. /\ i + k \in 1..Len(s) /\ k - 1 \in 0..Len(t) /\ k \in 0..Len(t) /\ i + (k - 1) = (i + k) - 1
          /\ i + (k - 1) \in 0..Len(s) /\ s[i + k] \in Int
        BY <1>1, <1>3, SMTT(30)
    <2>2. P[i + k] = Plus[<<P[(i + k) - 1], s[i + k]>>]
        BY <2>1 DEF States
    <2>3. P[i + k] = P[i + (k - 1)] + s[i + k]
        BY <1>2, <2>1, <2>2 DEF Plus
    <2>4. Q[k] = P[i + k] - P[i] /\ Q[k - 1] = P[i + (k - 1)] - P[i] /\ t[k] = s[i + k]
        BY <1>1, <1>4, <2>1
    <2>5. Q[k] = Q[k - 1] + t[k] /\ Q[k - 1] \in Int /\ t[k] \in Int
        <3> HIDE DEF Q
        <3> DEFINE x == P[i]
                   y == P[i + (k - 1)]
                   z == s[i + k]
        <3>1. x \in Int /\ y \in Int /\ z \in Int
            BY <1>2, <2>1
        <3>2. Q[k] = (y + z) - x /\ Q[k - 1] = y - x /\ t[k] = z
            BY <2>3, <2>4
        <3> HIDE DEF x, y, z
        <3> QED BY <3>1, <3>2
    <2> HIDE DEF Q
    <2> QED BY <2>5 DEF Plus
<1>7. States(Q, Int, Plus, 0, t)
    <2> HIDE DEF Q
    <2> QED BY <1>4, <1>5, <1>6 DEF States
<1>8. PICK st : States(st, Int, Plus, 0, t) /\ Total(t) = st[Len(t)]
    BY <1>1, TotalStates
<1>9. st[Len(t)] = Q[Len(t)]
    <2> HIDE DEF Q
    <2>1. Len(t) \in Nat /\ Len(t) \in 0..Len(t)
        BY <1>1
    <2>2. \A k \in 0..Len(t) : st[k] = Q[k]
        BY <1>7, <1>8, <2>1, StatesAgree
    <2> QED BY <2>1, <2>2
<1>10. Q[Len(t)] = P[j] - P[i]
    BY <1>1, <1>4
<1> QED BY <1>8, <1>9, <1>10 DEF t

\* The best sum that ends at place k, and the best up to there
Kadane(P, st, n, k) ==
    /\ k = 0 => st[k].pre = 0
    /\ k > 0 => \E a \in 0..(k - 1) : st[k].pre = P[k] - P[a]
    /\ \A a \in 0..(k - 1) : P[k] - P[a] <= st[k].pre
    /\ \E a \in 0..n, b \in 0..n : a < b /\ st[k].ans = P[b] - P[a]
    /\ \A a \in 0..k, b \in 0..k : a < b => P[b] - P[a] <= st[k].ans

LEMMA KadaneStep ==
    ASSUME NEW n \in Nat \ {0}, NEW P \in [0..n -> Int], NEW num \in Int, NEW k \in 0..(n - 1),
           NEW st \in [0..n -> BestSums],
           P[k + 1] = P[k] + num, Kadane(P, st, n, k), st[k + 1] = NextSum[<<st[k], num>>]
    PROVE  Kadane(P, st, n, k + 1)
<1> DEFINE pre == st[k].pre
           ans == st[k].ans
           pre1 == st[k + 1].pre
           ans1 == st[k + 1].ans
<1>1. k \in 0..n /\ k + 1 \in 0..n /\ (k + 1) - 1 = k /\ k \in Int /\ k >= 0
    OBVIOUS
<1>2. pre \in Int /\ ans \in Int /\ P[k] \in Int /\ P[k + 1] \in Int
    BY <1>1 DEF BestSums
<1>3. pre1 = Max({num, pre + num}) /\ ans1 = Max({ans, pre1})
    <2>1. st[k] \in BestSums
        BY <1>1
    <2>2. NextSum[<<st[k], num>>] = [pre |-> Max({num, pre + num}),
                                     ans |-> Max({ans, Max({num, pre + num})})]
        BY <2>1 DEF NextSum
    <2> QED BY <2>2
<1> HIDE DEF pre, ans, pre1, ans1
<1>4. pre1 = (IF num >= pre + num THEN num ELSE pre + num) /\ pre1 \in Int
    <2>1. pre + num \in Int
        BY <1>2
    <2>2. pre1 = (IF num >= pre + num THEN num ELSE pre + num)
        BY <1>3, <2>1, MaxOfTwo
    <2> QED BY <2>1, <2>2
<1>5. ans1 = (IF ans >= pre1 THEN ans ELSE pre1) /\ ans1 \in Int
    BY <1>2, <1>3, <1>4, MaxOfTwo
<1>6. \E a \in 0..k : pre1 = P[k + 1] - P[a]
    <2>1. CASE pre1 = num
        <3>1. pre1 = P[k + 1] - P[k] /\ k \in 0..k
            BY <1>1, <1>2, <2>1
        <3> QED BY <3>1
    <2>2. CASE pre1 = pre + num /\ k > 0
        <3>1. PICK a \in 0..(k - 1) : pre = P[k] - P[a]
            BY <2>2 DEF Kadane, pre
        <3>2. a \in 0..k /\ a \in 0..n
            BY <1>1
        <3>3. P[a] \in Int
            BY <3>2
        <3> DEFINE p == P[k]
                   q == P[k + 1]
                   r == P[a]
        <3>5. p \in Int /\ r \in Int /\ pre1 = pre + num /\ pre = p - r /\ q = p + num
            BY <1>2, <2>2, <3>1, <3>3
        <3> HIDE DEF p, q, r
        <3>4. pre1 = q - r
            BY <3>5
        <3> USE DEF p, q, r
        <3> QED BY <3>2, <3>4
    <2>3. k = 0 => pre = 0
        BY DEF Kadane, pre
    <2> QED BY <1>1, <1>2, <1>4, <2>1, <2>2, <2>3
<1>7. ASSUME NEW a \in 0..k PROVE P[k + 1] - P[a] <= pre1
    <2>0. P[a] \in Int
        BY <1>1
    <2>1. CASE a = k
        BY <1>2, <1>4, <2>1
    <2>2. CASE a # k
        <3>1. a \in 0..(k - 1)
            BY <1>1, <2>2
        <3>2. P[k] - P[a] <= pre
            BY <3>1 DEF Kadane, pre
        <3> QED BY <1>2, <1>4, <2>0, <3>2, SMTT(30)
    <2> QED BY <2>1, <2>2
<1>8. \E a \in 0..n, b \in 0..n : a < b /\ ans1 = P[b] - P[a]
    <2>1. CASE ans1 = ans
        BY <2>1 DEF Kadane, ans
    <2>2. CASE ans1 = pre1
        <3>1. PICK a \in 0..k : pre1 = P[k + 1] - P[a]
            BY <1>6
        <3>2. a \in 0..n /\ k + 1 \in 0..n /\ a < k + 1
            BY <1>1
        <3> QED BY <2>2, <3>1, <3>2
    <2> QED BY <1>5, <2>1, <2>2
<1>9. ASSUME NEW a \in 0..(k + 1), NEW b \in 0..(k + 1), a < b PROVE P[b] - P[a] <= ans1
    <2>0. P[b] - P[a] \in Int /\ ans <= ans1 /\ pre1 <= ans1
        <3>1. a \in 0..n /\ b \in 0..n
            BY <1>1
        <3>2. P[a] \in Int /\ P[b] \in Int
            BY <3>1
        <3> QED BY <1>2, <1>4, <1>5, <3>2, SMTT(30)
    <2>1. CASE b = k + 1
        <3>1. a \in 0..k
            BY <1>9, <2>1
        <3>2. P[b] - P[a] <= pre1
            BY <1>7, <2>1, <3>1
        <3> QED BY <1>2, <1>4, <1>5, <2>0, <3>2, SMTT(30)
    <2>2. CASE b # k + 1
        <3>1. a \in 0..k /\ b \in 0..k
            BY <1>9, <2>2
        <3>2. P[b] - P[a] <= ans
            BY <1>9, <3>1 DEF Kadane, ans
        <3> QED BY <1>2, <1>4, <1>5, <2>0, <3>2, SMTT(30)
    <2> QED BY <2>1, <2>2
<1> HIDE DEF Kadane
<1>10. /\ k + 1 > 0 /\ ~(k + 1 = 0)
       /\ \E a \in 0..((k + 1) - 1) : st[k + 1].pre = P[k + 1] - P[a]
       /\ \A a \in 0..((k + 1) - 1) : P[k + 1] - P[a] <= st[k + 1].pre
    BY <1>1, <1>6, <1>7 DEF pre1
<1> QED BY <1>8, <1>9, <1>10 DEF Kadane, ans1

\* max_sub_array (lc_53) returns the largest sum of a part that is not empty, for
\* every vector, and panics without numbers.
THEOREM MaxSubArrayIsLargest == \A nums \in Seq(Int) : IsLargestSum(nums, max_sub_array(nums))
<1> SUFFICES ASSUME NEW nums \in Seq(Int), nums # <<>>
             PROVE  IsLargestSum(nums, max_sub_array(nums))
    BY DEF IsLargestSum, max_sub_array
<1> DEFINE n == Len(nums)
<1>0. n \in Nat \ {0} /\ \A k \in 1..n : nums[k] \in Int
    OBVIOUS
<1>1. PICK P : States(P, Int, Plus, 0, nums)
    BY TotalStates
<1>2. PICK st : /\ States(st, BestSums, NextSum, [pre |-> 0, ans |-> nums[1]], nums)
                /\ max_sub_array(nums) = st[n].ans
    BY KadaneStates
<1> HIDE DEF n
<1>3. /\ P \in [0..n -> Int] /\ st \in [0..n -> BestSums] /\ P[0] = 0
      /\ st[0] = [pre |-> 0, ans |-> nums[1]]
      /\ \A k \in 1..n : st[k] = NextSum[<<st[k - 1], nums[k]>>]
      /\ \A k \in 1..n : P[k] = Plus[<<P[k - 1], nums[k]>>]
    BY <1>1, <1>2 DEF States, n
<1>4. ASSUME NEW k \in 0..(n - 1) PROVE P[k + 1] = P[k] + nums[k + 1]
    <2>1. k + 1 \in 1..n /\ (k + 1) - 1 = k /\ k \in 0..n
        BY <1>0
    <2>2. P[k + 1] = Plus[<<P[k], nums[k + 1]>>]
        BY <1>3, <2>1
    <2>3. P[k] \in Int /\ nums[k + 1] \in Int
        BY <1>0, <1>3, <2>1
    <2> QED BY <2>2, <2>3 DEF Plus
<1>5. Kadane(P, st, n, 0)
    <2>1. P[1] = P[0] + nums[1]
        BY <1>0, <1>4
    <2>2. nums[1] = P[1] - P[0] /\ 0 \in 0..n /\ 1 \in 0..n
        BY <1>0, <1>3, <2>1
    <2>3. st[0].pre = 0 /\ st[0].ans = P[1] - P[0]
        BY <1>3, <2>2
    <2>4. \A a \in 0..0, b \in 0..0 : ~(a < b)
        OBVIOUS
    <2>5. \A a \in 0..(0 - 1) : FALSE
        OBVIOUS
    <2> QED BY <2>2, <2>3, <2>4, <2>5 DEF Kadane
<1>6. Kadane(P, st, n, n)
    <2> DEFINE T == {k \in Nat : k \in 0..n => Kadane(P, st, n, k)}
    <2>1. 0 \in T
        BY <1>5
    <2>2. ASSUME NEW k \in T PROVE k + 1 \in T
        <3> SUFFICES ASSUME k + 1 \in 0..n PROVE Kadane(P, st, n, k + 1)
            OBVIOUS
        <3>1. k \in 0..(n - 1) /\ k + 1 \in 1..n /\ (k + 1) - 1 = k /\ Kadane(P, st, n, k)
            BY <1>0
        <3>2. st[k + 1] = NextSum[<<st[k], nums[k + 1]>>] /\ nums[k + 1] \in Int
            BY <1>0, <1>3, <3>1
        <3> QED BY <1>0, <1>3, <1>4, <3>1, <3>2, KadaneStep
    <2>3. T = Nat
        <3>1. T \in SUBSET Nat
            OBVIOUS
        <3> HIDE DEF T
        <3> QED BY <2>1, <2>2, <3>1, SetInduction
    <2> QED BY <1>0, <2>3
<1> DEFINE sums == {Total(t) : t \in SubSeqs(nums) \ {<<>>}}
<1>7. ASSUME NEW a \in 0..n, NEW b \in 0..n, a < b PROVE P[b] - P[a] \in sums
    <2>1. b \in a..n /\ SubSeq(nums, a + 1, b) # <<>>
        <3>1. Len(SubSeq(nums, a + 1, b)) = b - a
            BY <1>0, <1>7 DEF n
        <3> QED BY <1>0, <1>7, <3>1
    <2>2. Total(SubSeq(nums, a + 1, b)) = P[b] - P[a]
        BY <1>1, <2>1, TotalOfPart DEF n
    <2>3. SubSeq(nums, a + 1, b) \in SubSeqs(nums)
        BY DEF SubSeqs, n
    <2> QED BY <2>1, <2>2, <2>3
<1>8. ASSUME NEW x \in sums PROVE \E a \in 0..n, b \in 0..n : a < b /\ x = P[b] - P[a]
    <2>1. PICK t \in SubSeqs(nums) \ {<<>>} : x = Total(t)
        OBVIOUS
    <2>2. PICK a \in 0..n, b \in 0..n : t = SubSeq(nums, a + 1, b)
        BY <2>1 DEF SubSeqs, n
    <2>3. a < b
        <3> SUFFICES ASSUME ~(a < b) PROVE FALSE
            OBVIOUS
        <3>1. t = <<>>
            BY <1>0, <2>2 DEF n
        <3> QED BY <2>1, <3>1
    <2>4. b \in a..n
        BY <1>0, <2>3
    <2>5. x = P[b] - P[a]
        BY <1>1, <2>1, <2>2, <2>4, TotalOfPart DEF n
    <2> QED BY <2>3, <2>5
<1>9. Max(sums) = st[n].ans
    <2>1. PICK a \in 0..n, b \in 0..n : a < b /\ st[n].ans = P[b] - P[a]
        BY <1>6 DEF Kadane
    <2>2. st[n].ans \in sums
        BY <1>7, <2>1
    <2>3. ASSUME NEW x \in sums PROVE x \in Int /\ st[n].ans >= x
        <3>1. PICK c \in 0..n, d \in 0..n : c < d /\ x = P[d] - P[c]
            BY <1>8
        <3>2. x \in Int
            <4>1. P[c] \in Int /\ P[d] \in Int
                BY <1>3
            <4> QED BY <3>1, <4>1
        <3>3. x <= st[n].ans
            BY <1>6, <3>1 DEF Kadane
        <3>4. st[n].ans \in Int
            <4>1. P[a] \in Int /\ P[b] \in Int
                BY <1>3
            <4> QED BY <2>1, <4>1
        <3> QED BY <3>2, <3>3, <3>4
    <2> HIDE DEF sums
    <2>4. sums \in SUBSET Int
        BY <2>3
    <2> QED BY <2>2, <2>3, <2>4, MaxIs
<1> QED BY <1>2, <1>9 DEF IsLargestSum, n

-----------------------------------------------------------------------------
(* lc_11 *)

Intervals(h) == [left : 1..Len(h), right : 1..Len(h)]

Narrower(h, p) == IF h[p.left] < h[p.right] THEN [p EXCEPT !.left = @ + 1]
                                            ELSE [p EXCEPT !.right = @ - 1]

\* What the loop returns from an interval on
IsBest(best, h) ==
    best = [p \in Intervals(h) |-> IF p.left >= p.right THEN 0
                                   ELSE Max({Area(h, p.left, p.right), best[Narrower(h, p)]})]

LEMMA NarrowerIs ==
    ASSUME NEW h \in Seq(Nat), NEW p \in Intervals(h), p.left < p.right
    PROVE  /\ Narrower(h, p) \in Intervals(h)
           /\ Narrower(h, p) = IF h[p.left] < h[p.right]
                               THEN [left |-> p.left + 1, right |-> p.right]
                               ELSE [left |-> p.left, right |-> p.right - 1]
<1>1. /\ p.left \in 1..Len(h) /\ p.right \in 1..Len(h) /\ Len(h) \in Nat
      /\ p = [left |-> p.left, right |-> p.right]
    BY DEF Intervals
<1>2. p.left + 1 \in 1..Len(h) /\ p.right - 1 \in 1..Len(h)
    BY <1>1
<1>3. Narrower(h, p) = IF h[p.left] < h[p.right]
                       THEN [left |-> p.left + 1, right |-> p.right]
                       ELSE [left |-> p.left, right |-> p.right - 1]
    BY <1>1 DEF Narrower
<1> QED BY <1>1, <1>2, <1>3 DEF Intervals

LEMMA AreaType ==
    ASSUME NEW h \in Seq(Nat), NEW i \in 1..Len(h), NEW j \in 1..Len(h)
    PROVE  /\ Min({h[i], h[j]}) \in Nat /\ Area(h, i, j) \in Int
           /\ Min({h[i], h[j]}) = IF h[i] <= h[j] THEN h[i] ELSE h[j]
<1>1. h[i] \in Nat /\ h[j] \in Nat /\ i \in Int /\ j \in Int
    OBVIOUS
<1>2. Min({h[i], h[j]}) = IF h[i] <= h[j] THEN h[i] ELSE h[j]
    BY <1>1, MinOfTwo
<1>3. Min({h[i], h[j]}) \in Nat
    BY <1>1, <1>2
<1>4. Area(h, i, j) \in Int
    BY <1>1, <1>3 DEF Area
<1> QED BY <1>2, <1>3, <1>4

LEMMA BestExists ==
    ASSUME NEW h \in Seq(Nat)
    PROVE  \E best : IsBest(best, h)
<1> DEFINE S == Intervals(h)
           done == {p \in S : p.left >= p.right}
           base == [p \in S |-> 0]
           next == [p \in S |-> IF p \in done THEN p ELSE Narrower(h, p)]
           H == [q \in S \X Int |-> Max({Area(h, q[1].left, q[1].right), q[2]})]
           m == [p \in S |-> IF p \in done THEN 0 ELSE p.right - p.left]
<1>0. \A p \in S : p.left \in 1..Len(h) /\ p.right \in 1..Len(h)
    BY DEF Intervals
<1>1. done \in SUBSET S /\ base \in [S -> Int]
    OBVIOUS
<1>2. next \in [S -> S]
    <2>1. ASSUME NEW p \in S PROVE next[p] \in S
        <3>1. CASE p \in done
            BY <3>1
        <3>2. CASE p \notin done
            <4>1. p.left < p.right
                BY <1>0, <3>2
            <4>2. Narrower(h, p) \in S
                BY <4>1, NarrowerIs
            <4> QED BY <3>2, <4>2
        <3> QED BY <3>1, <3>2
    <2> QED BY <2>1
<1>3. H \in [S \X Int -> Int]
    <2>1. ASSUME NEW q \in S \X Int PROVE H[q] \in Int
        <3>1. q[2] \in Int /\ Area(h, q[1].left, q[1].right) \in Int
            BY <1>0, AreaType
        <3>2. Max({Area(h, q[1].left, q[1].right), q[2]}) \in Int
            BY <3>1, MaxOfTwo
        <3> QED BY <3>2
    <2>2. H = [q \in S \X Int |-> H[q]]
        OBVIOUS
    <2> HIDE DEF H, S
    <2> QED BY <2>1, <2>2
<1>4. m \in [S -> Nat]
    <2>1. ASSUME NEW p \in S, p \notin done PROVE p.right - p.left \in Nat
        BY <1>0, <2>1
    <2> QED BY <2>1
<1>5. ASSUME NEW p \in S \ done PROVE m[next[p]] < m[p]
    <2>1. p.left < p.right /\ next[p] = Narrower(h, p)
        BY <1>0
    <2>2. /\ Narrower(h, p) \in S
          /\ Narrower(h, p).right - Narrower(h, p).left = p.right - p.left - 1
        <3>1. p.left \in Int /\ p.right \in Int
            BY <1>0
        <3>2. Narrower(h, p) = IF h[p.left] < h[p.right]
                               THEN [left |-> p.left + 1, right |-> p.right]
                               ELSE [left |-> p.left, right |-> p.right - 1]
            BY <2>1, NarrowerIs
        <3>3. Narrower(h, p) \in S
            BY <2>1, NarrowerIs
        <3> QED BY <3>1, <3>2, <3>3
    <2>3. m[p] = p.right - p.left
        OBVIOUS
    <2>4. m[Narrower(h, p)] = IF Narrower(h, p) \in done THEN 0 ELSE p.right - p.left - 1
        BY <2>2
    <2> HIDE DEF m, next
    <2> QED BY <1>0, <2>1, <2>3, <2>4
<1> HIDE DEF S, done, base, next, H, m
<1>6. \E best \in [S -> Int] : \A p \in S : Solves(best, p, done, base, next, H)
    BY <1>1, <1>2, <1>3, <1>4, <1>5, RecursionExists, Zenon
<1>7. PICK best \in [S -> Int] : \A p \in S : Solves(best, p, done, base, next, H)
    BY <1>6
<1>8. ASSUME NEW p \in S
      PROVE  best[p] = IF p.left >= p.right THEN 0
                       ELSE Max({Area(h, p.left, p.right), best[Narrower(h, p)]})
    <2>1. CASE p.left >= p.right
        BY <1>7, <2>1 DEF Solves, done, base
    <2>2. CASE ~(p.left >= p.right)
        <3>1. next[p] = Narrower(h, p) /\ next[p] \in S
            BY <1>2, <2>2 DEF next, done
        <3>2. best[p] = H[<<p, best[next[p]]>>]
            BY <1>7, <2>2 DEF Solves, done
        <3>3. best[next[p]] \in Int
            BY <3>1
        <3>4. H[<<p, best[next[p]]>>] = Max({Area(h, p.left, p.right), best[next[p]]})
            BY <3>3 DEF H
        <3> QED BY <2>2, <3>1, <3>2, <3>4
    <2> QED BY <2>1, <2>2
<1> QED BY <1>7, <1>8 DEF IsBest, S

LEMMA MaxAreaIsBest ==
    ASSUME NEW h \in Seq(Nat), h # <<>>
    PROVE  \E best : IsBest(best, h) /\ max_area(h) = best[[left |-> 1, right |-> Len(h)]]
<1> DEFINE loop == CHOOSE best : IsBest(best, h)
<1>1. IsBest(loop, h)
    BY BestExists
<1>2. DOMAIN h = 1..Len(h)
    OBVIOUS
<1>3. max_area(h) = loop[[left |-> 1, right |-> Len(h)]]
    BY <1>2, Zenon DEF max_area, IsBest, Area, Narrower, Intervals
<1> QED BY <1>1, <1>3

\* best is the largest area between two lines of the interval, or 0
BestOf(h, p, x) ==
    /\ x \in Nat
    /\ \A i \in p.left..p.right, j \in p.left..p.right : i < j => Area(h, i, j) <= x
    /\ x # 0 => \E i \in p.left..p.right, j \in p.left..p.right : i < j /\ Area(h, i, j) = x

LEMMA ProductOrder ==
    ASSUME NEW a \in Nat, NEW b \in Nat, NEW c \in Nat, NEW d \in Nat, a <= c, b <= d
    PROVE  a * b <= c * d
<1>1. PICK e \in Nat : c = a + e
    <2>1. c - a \in Nat /\ c = a + (c - a)
        OBVIOUS
    <2> QED BY <2>1
<1>2. PICK f \in Nat : d = b + f
    <2>1. d - b \in Nat /\ d = b + (d - b)
        OBVIOUS
    <2> QED BY <2>1
<1>3. c * d = a * b + a * f + e * b + e * f
    BY <1>1, <1>2
<1>4. a * f \in Nat /\ e * b \in Nat /\ e * f \in Nat /\ a * b \in Nat
    OBVIOUS
<1> QED BY <1>3, <1>4

\* The lines between, with the lower of the two ends, hold no more than the ends
LEMMA LowerEnd ==
    ASSUME NEW h \in Seq(Nat), NEW l \in 1..Len(h), NEW r \in 1..Len(h), l < r
    PROVE  /\ h[l] <= h[r] => \A j \in l..r : l < j => Area(h, l, j) <= Area(h, l, r)
           /\ h[r] <= h[l] => \A i \in l..r : i < r => Area(h, i, r) <= Area(h, l, r)
<1>1. \A i \in l..r : i \in 1..Len(h) /\ h[i] \in Nat
    OBVIOUS
<1>2. ASSUME h[l] <= h[r], NEW j \in l..r, l < j PROVE Area(h, l, j) <= Area(h, l, r)
    <2>0. j \in 1..Len(h) /\ h[l] \in Nat /\ h[j] \in Nat
        BY <1>1
    <2>1. Min({h[l], h[j]}) = IF h[l] <= h[j] THEN h[l] ELSE h[j]
        BY <2>0, MinOfTwo
    <2>3. Min({h[l], h[r]}) = h[l]
        BY <1>2, <2>0, <1>1, MinOfTwo
    <2>4. Min({h[l], h[j]}) \in Nat /\ Min({h[l], h[j]}) <= h[l]
        BY <2>0, <2>1
    <2>2. j - l \in Nat /\ r - l \in Nat /\ j - l <= r - l /\ h[l] \in Nat
        BY <1>1, <1>2
    <2>5. (j - l) * Min({h[l], h[j]}) <= (r - l) * h[l]
        BY <2>2, <2>4, ProductOrder
    <2> QED BY <2>3, <2>5 DEF Area
<1>3. ASSUME h[r] <= h[l], NEW i \in l..r, i < r PROVE Area(h, i, r) <= Area(h, l, r)
    <2>0. i \in 1..Len(h) /\ h[r] \in Nat /\ h[i] \in Nat /\ h[l] \in Nat
        BY <1>1
    <2>1. Min({h[i], h[r]}) = IF h[i] <= h[r] THEN h[i] ELSE h[r]
        BY <2>0, MinOfTwo
    <2>3. Min({h[l], h[r]}) = h[r]
        <3>1. Min({h[l], h[r]}) = IF h[l] <= h[r] THEN h[l] ELSE h[r]
            BY <2>0, MinOfTwo
        <3> QED BY <1>3, <2>0, <3>1
    <2>4. Min({h[i], h[r]}) \in Nat /\ Min({h[i], h[r]}) <= h[r]
        BY <2>0, <2>1
    <2>2. r - i \in Nat /\ r - l \in Nat /\ r - i <= r - l /\ h[r] \in Nat
        BY <1>1, <1>3
    <2>5. (r - i) * Min({h[i], h[r]}) <= (r - l) * h[r]
        BY <2>2, <2>4, ProductOrder
    <2> QED BY <2>3, <2>5 DEF Area
<1> QED BY <1>2, <1>3

LEMMA BestStep ==
    ASSUME NEW h \in Seq(Nat), NEW p \in Intervals(h), p.left < p.right,
           NEW x, BestOf(h, Narrower(h, p), x)
    PROVE  BestOf(h, p, Max({Area(h, p.left, p.right), x}))
<1> DEFINE l == p.left
           r == p.right
           q == Narrower(h, p)
           y == Max({Area(h, l, r), x})
<1>1. l \in 1..Len(h) /\ r \in 1..Len(h) /\ l < r /\ \A i \in l..r : i \in 1..Len(h) /\ h[i] \in Nat
    BY DEF Intervals
<1>2. q = IF h[l] < h[r] THEN [left |-> l + 1, right |-> r] ELSE [left |-> l, right |-> r - 1]
    BY NarrowerIs
<1>3. Area(h, l, r) \in Nat
    <2>1. Min({h[l], h[r]}) \in Nat /\ r - l \in Nat
        BY <1>1, AreaType, SMTT(30)
    <2> QED BY <2>1 DEF Area
<1>4. x \in Nat
    BY DEF BestOf
<1>5. y \in Nat /\ x <= y /\ Area(h, l, r) <= y /\ (y = x \/ y = Area(h, l, r))
    BY <1>3, <1>4, MaxOfTwo
<1> HIDE DEF l, r, q, y
<1>6. ASSUME NEW i \in l..r, NEW j \in l..r, i < j PROVE Area(h, i, j) <= y
    <2>0. Area(h, i, j) \in Int
        BY <1>1, AreaType
    <2>1. CASE i \in q.left..q.right /\ j \in q.left..q.right
        <3>1. Area(h, i, j) <= x
            BY <1>6, <2>1 DEF BestOf, q
        <3> QED BY <1>4, <1>5, <2>0, <3>1
    <2>2. CASE h[l] < h[r] /\ i = l
        <3>1. h[l] <= h[r] /\ l < j
            BY <1>1, <1>6, <2>2
        <3>2. Area(h, i, j) <= Area(h, l, r)
            BY <1>1, <2>2, <3>1, LowerEnd
        <3> QED BY <1>3, <1>5, <2>0, <3>2
    <2>3. CASE ~(h[l] < h[r]) /\ j = r
        <3>1. h[r] <= h[l] /\ i < r
            BY <1>1, <1>6, <2>3
        <3>2. Area(h, i, j) <= Area(h, l, r)
            BY <1>1, <2>3, <3>1, LowerEnd
        <3> QED BY <1>3, <1>5, <2>0, <3>2
    <2>4. h[l] < h[r] /\ i # l => i \in q.left..q.right /\ j \in q.left..q.right
        BY <1>1, <1>2, <1>6
    <2>5. ~(h[l] < h[r]) /\ j # r => i \in q.left..q.right /\ j \in q.left..q.right
        BY <1>1, <1>2, <1>6
    <2> QED BY <2>1, <2>2, <2>3, <2>4, <2>5
<1>7. ASSUME y # 0 PROVE \E i \in l..r, j \in l..r : i < j /\ Area(h, i, j) = y
    <2>1. CASE y = Area(h, l, r)
        <3>1. l \in l..r /\ r \in l..r
            BY <1>1
        <3> QED BY <1>1, <2>1, <3>1
    <2>2. CASE y = x
        <3>1. PICK i \in q.left..q.right, j \in q.left..q.right : i < j /\ Area(h, i, j) = x
            BY <1>7, <2>2 DEF BestOf, q
        <3>2. i \in l..r /\ j \in l..r
            BY <1>1, <1>2
        <3> QED BY <2>2, <3>1, <3>2
    <2> QED BY <1>5, <2>1, <2>2
<1> QED BY <1>5, <1>6, <1>7 DEF BestOf, l, r, y

LEMMA BestIsBest ==
    ASSUME NEW h \in Seq(Nat), NEW best, IsBest(best, h), NEW p \in Intervals(h)
    PROVE  BestOf(h, p, best[p])
<1> DEFINE S == Intervals(h)
           m == [i \in S |-> IF i.left >= i.right THEN 0 ELSE i.right - i.left]
           Q == {i \in S : ~BestOf(h, i, best[i])}
<1>0. \A i \in S : i.left \in 1..Len(h) /\ i.right \in 1..Len(h)
    BY DEF Intervals
<1>1. m \in [S -> Nat]
    <2>1. ASSUME NEW i \in S, ~(i.left >= i.right) PROVE i.right - i.left \in Nat
        BY <1>0, <2>1
    <2> QED BY <2>1
<1>2. ASSUME NEW i \in S, \A j \in S : m[j] < m[i] => j \notin Q PROVE i \notin Q
    <2>1. CASE i.left >= i.right
        <3>1. best[i] = 0
            BY <2>1 DEF IsBest
        <3>2. \A a \in i.left..i.right, b \in i.left..i.right : ~(a < b)
            BY <1>0, <2>1
        <3> QED BY <3>1, <3>2 DEF BestOf
    <2>2. CASE ~(i.left >= i.right)
        <3>0. i.left < i.right /\ i.left \in Int /\ i.right \in Int
            BY <1>0, <2>2
        <3>1. Narrower(h, i) \in S
            BY <3>0, NarrowerIs
        <3>2. Narrower(h, i) = IF h[i.left] < h[i.right]
                               THEN [left |-> i.left + 1, right |-> i.right]
                               ELSE [left |-> i.left, right |-> i.right - 1]
            BY <3>0, NarrowerIs
        <3>3. m[i] = i.right - i.left /\ m[Narrower(h, i)] < m[i]
            <4>1. m[i] = i.right - i.left
                BY <2>2
            <4>2. m[Narrower(h, i)] = 0 \/ m[Narrower(h, i)] = i.right - i.left - 1
                BY <3>0, <3>1, <3>2
            <4> HIDE DEF m
            <4> QED BY <3>0, <4>1, <4>2
        <3>4. BestOf(h, Narrower(h, i), best[Narrower(h, i)])
            BY <1>2, <3>1, <3>3
        <3>5. best[i] = Max({Area(h, i.left, i.right), best[Narrower(h, i)]})
            BY <2>2 DEF IsBest
        <3> QED BY <3>0, <3>4, <3>5, BestStep
    <2> QED BY <2>1, <2>2
<1>3. Q = {}
    <2>1. Q \in SUBSET S
        OBVIOUS
    <2> HIDE DEF Q, S, m
    <2> QED BY <1>1, <1>2, <2>1, LeastMeasure
<1> QED BY <1>3

\* max_area (lc_11) returns the area of the largest container of any two lines,
\* for every vector of heights, and panics without lines.
THEOREM MaxAreaIsLargest == \A h \in Seq(Nat) : IsLargest(h, max_area(h))
<1>0. IsLargest(<<>>, max_area(<<>>))
    BY DEF IsLargest, max_area
<1> SUFFICES ASSUME NEW h \in Seq(Nat), h # <<>> PROVE IsLargest(h, max_area(h))
    BY <1>0
<1> DEFINE n == Len(h)
           whole == [left |-> 1, right |-> n]
           areas == {0} \cup {Area(h, i, j) : i, j \in DOMAIN h}
<1>9. n \in Nat \ {0} /\ DOMAIN h = 1..n
    OBVIOUS
<1>1. PICK best : IsBest(best, h) /\ max_area(h) = best[whole]
    BY MaxAreaIsBest
<1> DEFINE x == best[whole]
<1>2. whole \in Intervals(h) /\ whole.left = 1 /\ whole.right = n
    BY <1>9 DEF Intervals
<1>3. BestOf(h, whole, x)
    BY <1>1, <1>2, BestIsBest
<1> HIDE DEF whole, x
<1>4. /\ x \in Nat
      /\ \A i \in 1..n, j \in 1..n : i < j => Area(h, i, j) <= x
      /\ x # 0 => \E i \in 1..n, j \in 1..n : i < j /\ Area(h, i, j) = x
    BY <1>2, <1>3 DEF BestOf
<1>10. 0 \in areas
    OBVIOUS
<1>5. \A a \in areas : a = 0 \/ \E i \in 1..n, j \in 1..n : a = Area(h, i, j)
    BY <1>9
<1>6. x \in areas
    <2>1. \A i \in 1..n, j \in 1..n : Area(h, i, j) \in areas
        BY <1>9
    <2> HIDE DEF areas
    <2> QED BY <1>4, <1>10, <2>1
<1>7. ASSUME NEW i \in 1..n, NEW j \in 1..n PROVE Area(h, i, j) \in Int /\ Area(h, i, j) <= x
    <2>1. Area(h, i, j) \in Int /\ Min({h[i], h[j]}) \in Nat
        BY AreaType
    <2>2. CASE i < j
        BY <1>4, <2>1, <2>2
    <2>3. CASE ~(i < j)
        <3> DEFINE y == Min({h[i], h[j]})
                   w == i - j
        <3>1. w \in Nat /\ y \in Nat /\ Area(h, i, j) = (-w) * y
            BY <1>9, <2>1, <2>3 DEF Area
        <3> HIDE DEF w, y
        <3>2. (-w) * y = -(w * y) /\ w * y \in Nat
            BY <3>1
        <3> QED BY <1>4, <2>1, <3>1, <3>2, SMTT(30)
    <2> QED BY <2>2, <2>3
<1>8. Max(areas) = x
    <2> HIDE DEF areas
    <2>1. areas \in SUBSET Int /\ \A a \in areas : x >= a
        BY <1>4, <1>5, <1>7
    <2> QED BY <1>6, <2>1, MaxIs
<1>11. IsLargest(h, max_area(h)) <=> max_area(h) = Max(areas)
    BY DEF IsLargest
<1> QED BY <1>1, <1>8, <1>11 DEF x

-----------------------------------------------------------------------------
(* lc_41 *)

\* The places that do not hold their number
Wrong(a) == {k \in DOMAIN a : a[k] # k}

LEMMA FewerWrong ==
    ASSUME NEW a \in Seq(Int), NEW b \in Seq(Int), Len(a) = Len(b),
           \A k \in 1..Len(a) : a[k] = k => b[k] = k,
           NEW t \in 1..Len(a), a[t] # t, b[t] = t
    PROVE  Cardinality(Wrong(b)) < Cardinality(Wrong(a))
<1>1. /\ DOMAIN a = 1..Len(a) /\ DOMAIN b = 1..Len(a) /\ Len(a) \in Int /\ 1 \in Int
      /\ Wrong(a) \in SUBSET (1..Len(a)) /\ Wrong(b) \in SUBSET Wrong(a)
      /\ t \in Wrong(a) /\ t \notin Wrong(b)
    BY DEF Wrong
<1>2. IsFiniteSet(1..Len(a))
    BY <1>1, FS_Interval
<1>3. IsFiniteSet(Wrong(a))
    BY <1>1, <1>2, FS_Subset
<1>4. Cardinality(Wrong(b)) <= Cardinality(Wrong(a)) /\ Cardinality(Wrong(b)) # Cardinality(Wrong(a))
      /\ IsFiniteSet(Wrong(b))
    BY <1>1, <1>3, FS_Subset
<1>5. Cardinality(Wrong(b)) \in Nat /\ Cardinality(Wrong(a)) \in Nat
    BY <1>3, <1>4, FS_CardinalityType
<1> QED BY <1>4, <1>5

LEMMA WrongType ==
    ASSUME NEW a \in Seq(Int)
    PROVE  Cardinality(Wrong(a)) \in Nat
<1>1. DOMAIN a = 1..Len(a) /\ Len(a) \in Int /\ 1 \in Int /\ Wrong(a) \in SUBSET (1..Len(a))
    BY DEF Wrong
<1>2. IsFiniteSet(1..Len(a))
    BY <1>1, FS_Interval
<1>3. IsFiniteSet(Wrong(a))
    BY <1>1, <1>2, FS_Subset
<1> QED BY <1>3, FS_CardinalityType

\* Every number of the vector that has a place is at it
LEMMA GapIsMissing ==
    ASSUME NEW nums \in Seq(Int), NEW a \in Seq(Int), Len(a) = Len(nums),
           \A x \in 1..Len(nums) : a[x] = x <=> x \in ToSet(nums),
           (\A x \in 1..Len(nums) : a[x] = x) => Len(nums) + 1 \notin ToSet(nums)
    PROVE  IsFirstMissing(nums, FirstGap(a))
<1> DEFINE n == Len(nums)
           gaps == {n + 1} \cup {i \in 1..n : a[i] # i}
           missing == (1..(n + 1)) \ ToSet(nums)
<1>1. n \in Nat /\ DOMAIN a = 1..n
    OBVIOUS
<1>2. FirstGap(a) = Min(gaps)
    BY <1>1 DEF FirstGap
<1> HIDE DEF n
<1>3. gaps \in SUBSET Int /\ gaps # {} /\ \A i \in gaps : 1 <= i
    BY <1>1
<1>4. Min(gaps) \in gaps /\ \A i \in gaps : Min(gaps) <= i
    <2> HIDE DEF gaps
    <2>1. 1 \in Int
        OBVIOUS
    <2> QED BY <1>3, <2>1, MinExists
<1>5. missing \in SUBSET Int
    BY <1>1
<1>6. Min(gaps) \in missing
    <2>1. CASE Min(gaps) \in 1..n
        BY <1>1, <1>4, <2>1 DEF n
    <2>2. CASE Min(gaps) = n + 1
        <3>1. \A x \in 1..n : x \notin gaps
            BY <1>1, <1>4, <2>2
        <3>2. \A x \in 1..n : a[x] = x
            BY <3>1
        <3> QED BY <1>1, <2>2, <3>2 DEF n
    <2> QED BY <1>4, <2>1, <2>2
<1>7. ASSUME NEW i \in missing PROVE i \in gaps
    BY <1>1, <1>7 DEF n
<1>8. Min(missing) = Min(gaps)
    <2> HIDE DEF gaps, missing
    <2>1. \A i \in missing : Min(gaps) <= i
        BY <1>4, <1>7
    <2> QED BY <1>5, <1>6, <2>1, MinIs
<1> QED BY <1>2, <1>8 DEF IsFirstMissing, n

\* The loop of first_missing_positive, at place i of the vector a
Swaps(p) == p.a[p.i] \in 1..Len(p.a) /\ p.a[p.a[p.i]] # p.a[p.i]

Swapped(p) == IF Swaps(p)
              THEN [p EXCEPT !.a = [@ EXCEPT ![p.a[p.i]] = p.a[p.i],
                                             ![p.i] = p.a[p.a[p.i]]]]
              ELSE [p EXCEPT !.i = @ + 1]

Places == [a : Seq(Int), i : Nat \ {0}]

IsPlace(f) == f = [p \in Places |-> IF p.i > Len(p.a) THEN p.a ELSE f[Swapped(p)]]

LEMMA SwappedIs ==
    ASSUME NEW p \in Places, ~(p.i > Len(p.a))
    PROVE  /\ Swapped(p) \in Places
           /\ Swaps(p) =>
                 /\ Swapped(p).i = p.i /\ Len(Swapped(p).a) = Len(p.a)
                 /\ p.a[p.i] # p.i
                 /\ \A k \in 1..Len(p.a) :
                       Swapped(p).a[k] = IF k = p.i THEN p.a[p.a[p.i]]
                                         ELSE IF k = p.a[p.i] THEN k ELSE p.a[k]
           /\ ~Swaps(p) => Swapped(p).i = p.i + 1 /\ Swapped(p).a = p.a
<1> DEFINE a == p.a
           i == p.i
           v == a[i]
           b == [a EXCEPT ![v] = v, ![i] = a[v]]
<1>1. a \in Seq(Int) /\ i \in 1..Len(a) /\ i \in Nat \ {0} /\ DOMAIN a = 1..Len(a) /\ Len(a) \in Nat
      /\ p = [a |-> a, i |-> i]
    BY DEF Places
<1>2. CASE Swaps(p)
    <2>1. v \in 1..Len(a) /\ a[v] # v /\ v # i
        BY <1>2 DEF Swaps
    <2>2. Swapped(p) = [a |-> b, i |-> i]
        BY <1>1, <1>2 DEF Swapped
    <2> HIDE DEF v, i, a
    <2>3. \A k \in 1..Len(a) : b[k] = IF k = i THEN a[v] ELSE IF k = v THEN k ELSE a[k]
        BY <1>1, <2>1
    <2>4. b \in Seq(Int) /\ Len(b) = Len(a)
        BY <1>1, <2>1
    <2> HIDE DEF b
    <2>5. Swapped(p) \in Places /\ Swapped(p).a = b /\ Swapped(p).i = i
        BY <1>1, <2>2, <2>4 DEF Places
    <2> QED BY <1>2, <2>1, <2>3, <2>4, <2>5 DEF a, i, v
<1>3. CASE ~Swaps(p)
    <2>1. Swapped(p) = [a |-> a, i |-> i + 1]
        BY <1>1, <1>3 DEF Swapped
    <2> QED BY <1>1, <1>3, <2>1 DEF Places
<1> QED BY <1>2, <1>3

PlaceDone == {p \in Places : p.i > Len(p.a)}

PlaceBase == [p \in Places |-> p.a]

PlaceNext == [p \in Places |-> IF p \in PlaceDone THEN p ELSE Swapped(p)]

PlaceLeft == [p \in Places |-> Cardinality(Wrong(p.a)) + IF p \in PlaceDone THEN 0 ELSE Len(p.a) + 1 - p.i]

LEMMA PlaceLoop ==
    /\ IsLoop(Places, PlaceDone, PlaceNext, PlaceLeft)
    /\ PlaceBase \in [Places -> Seq(Int)]
    /\ \A p \in Places \ PlaceDone : PlaceNext[p] = Swapped(p) /\ Swapped(p) \in Places
<1>1. PlaceDone \in SUBSET Places /\ PlaceBase \in [Places -> Seq(Int)]
    BY DEF PlaceDone, PlaceBase, Places
<1>2. ASSUME NEW p \in Places \ PlaceDone PROVE Swapped(p) \in Places /\ PlaceNext[p] = Swapped(p)
    BY SwappedIs DEF PlaceDone, PlaceNext
<1>3. PlaceNext \in [Places -> Places]
    BY <1>2 DEF PlaceNext
<1>4. ASSUME NEW p \in Places
      PROVE  /\ Cardinality(Wrong(p.a)) \in Nat
             /\ p \notin PlaceDone => Len(p.a) + 1 - p.i \in Nat \ {0}
    <2>1. p.a \in Seq(Int) /\ p.i \in Nat /\ Len(p.a) \in Nat
        BY DEF Places
    <2>2. p \notin PlaceDone => Len(p.a) + 1 - p.i \in Nat \ {0}
        BY <2>1 DEF PlaceDone
    <2> QED BY <2>1, <2>2, WrongType
<1>5. PlaceLeft \in [Places -> Nat]
    BY <1>4 DEF PlaceLeft
<1>6. ASSUME NEW p \in Places \ PlaceDone PROVE PlaceLeft[PlaceNext[p]] < PlaceLeft[p]
    <2> DEFINE q == Swapped(p)
    <2>1. q \in Places /\ PlaceNext[p] = q
        BY <1>2
    <2>2. p.a \in Seq(Int) /\ q.a \in Seq(Int) /\ p.i \in 1..Len(p.a) /\ Len(p.a) \in Nat
        BY <2>1 DEF Places, PlaceDone
    <2>3. /\ PlaceLeft[p] = Cardinality(Wrong(p.a)) + (Len(p.a) + 1 - p.i)
          /\ PlaceLeft[q] = Cardinality(Wrong(q.a)) + IF q \in PlaceDone THEN 0 ELSE Len(q.a) + 1 - q.i
        BY <2>1 DEF PlaceLeft
    <2>4. CASE Swaps(p)
        <3>1. /\ q.i = p.i /\ Len(q.a) = Len(p.a) /\ p.a[p.i] # p.i
              /\ \A k \in 1..Len(p.a) : q.a[k] = IF k = p.i THEN p.a[p.a[p.i]]
                                                 ELSE IF k = p.a[p.i] THEN k ELSE p.a[k]
            BY <2>4, SwappedIs DEF PlaceDone
        <3>2. p.a[p.i] \in 1..Len(p.a) /\ p.a[p.a[p.i]] # p.a[p.i]
            BY <2>4 DEF Swaps
        <3> HIDE DEF q
        <3>3. /\ \A k \in 1..Len(p.a) : p.a[k] = k => q.a[k] = k
              /\ q.a[p.a[p.i]] = p.a[p.i]
            BY <2>2, <3>1, <3>2
        <3>4. Cardinality(Wrong(q.a)) < Cardinality(Wrong(p.a))
            BY <2>2, <3>1, <3>2, <3>3, FewerWrong
        <3>5. q \notin PlaceDone
            BY <2>2, <3>1 DEF PlaceDone
        <3> QED BY <1>4, <2>1, <2>2, <2>3, <3>1, <3>4, <3>5
    <2>5. CASE ~Swaps(p)
        <3>1. q.i = p.i + 1 /\ q.a = p.a
            BY <2>5, SwappedIs DEF PlaceDone
        <3> HIDE DEF q
        <3> QED BY <1>4, <2>1, <2>2, <2>3, <3>1
    <2> QED BY <2>4, <2>5
<1> QED BY <1>1, <1>2, <1>3, <1>5, <1>6 DEF IsLoop

LEMMA PlaceEquation ==
    ASSUME NEW f
    PROVE  IsPlace(f) <=> f = [p \in Places |-> f[p]] /\ Loops(f, Places, PlaceDone, PlaceBase, PlaceNext)
<1>1. ASSUME NEW p \in Places
      PROVE  (IF p.i > Len(p.a) THEN p.a ELSE f[Swapped(p)])
                = IF p \in PlaceDone THEN PlaceBase[p] ELSE f[PlaceNext[p]]
    BY DEF PlaceDone, PlaceBase, PlaceNext
<1> QED BY <1>1 DEF IsPlace, Loops

\* What the loop keeps: the numbers of the vector, and those before place i settled
PlaceKeeps(nums, p) ==
    /\ Len(p.a) = Len(nums)
    /\ ToSet(p.a) = ToSet(nums)
    /\ \A j \in 1..Len(p.a) : j < p.i /\ p.a[j] \in 1..Len(p.a) => p.a[p.a[j]] = p.a[j]

LEMMA PlaceKept ==
    ASSUME NEW nums \in Seq(Int), NEW p \in Places \ PlaceDone, PlaceKeeps(nums, p)
    PROVE  PlaceKeeps(nums, Swapped(p))
<1> DEFINE a == p.a
           i == p.i
           v == a[i]
           q == Swapped(p)
           b == q.a
           n == Len(a)
<1>1. a \in Seq(Int) /\ i \in 1..n /\ DOMAIN a = 1..n /\ n \in Nat /\ n = Len(nums)
    BY DEF Places, PlaceDone, PlaceKeeps
<1>2. q \in Places /\ b \in Seq(Int)
    BY SwappedIs DEF PlaceDone, Places
<1>3. CASE Swaps(p)
    <2>1. /\ q.i = i /\ Len(b) = n /\ v # i
          /\ \A k \in 1..n : b[k] = IF k = i THEN a[v] ELSE IF k = v THEN k ELSE a[k]
        BY <1>3, SwappedIs DEF PlaceDone
    <2>2. v \in 1..n /\ a[v] # v
        BY <1>3 DEF Swaps
    <2>3. \A j \in 1..n : j < i /\ a[j] \in 1..n => a[a[j]] = a[j]
        BY DEF PlaceKeeps
    <2>4. ToSet(a) = ToSet(nums)
        BY DEF PlaceKeeps
    <2>5. DOMAIN b = 1..n
        BY <1>2, <2>1
    <2> HIDE DEF a, i, b, n, q
    <2>6. ToSet(b) = ToSet(a)
        <3>1. ASSUME NEW k \in 1..n PROVE \E j \in 1..n : b[k] = a[j]
            BY <1>1, <2>1, <2>2
        <3>2. ASSUME NEW k \in 1..n PROVE \E j \in 1..n : a[k] = b[j]
            <4>1. CASE k = i
                BY <2>1, <2>2, <4>1
            <4>2. CASE k = v
                BY <1>1, <2>1, <2>2, <4>2
            <4>3. CASE k # i /\ k # v
                BY <2>1, <4>3
            <4> QED BY <4>1, <4>2, <4>3
        <3> HIDE DEF v
        <3>3. ASSUME NEW x PROVE x \in ToSet(a) <=> \E k \in 1..n : a[k] = x
            BY <1>1, ToSetIs DEF n
        <3>4. ASSUME NEW x PROVE x \in ToSet(b) <=> \E k \in 1..n : b[k] = x
            BY <1>2, <2>1, ToSetIs
        <3>5. ASSUME NEW x PROVE x \in ToSet(b) <=> x \in ToSet(a)
            BY <3>1, <3>2, <3>3, <3>4
        <3> QED BY <3>5
    <2>7. ASSUME NEW j \in 1..n, j < i, b[j] \in 1..n PROVE b[b[j]] = b[j]
        <3>1. CASE j = v
            BY <2>1, <2>7, <3>1
        <3>2. CASE j # v
            <4>1. b[j] = a[j] /\ a[a[j]] = a[j]
                BY <1>1, <2>1, <2>3, <2>7, <3>2
            <4>2. a[j] # v /\ a[j] # i
                BY <1>1, <2>1, <2>2, <4>1
            <4> QED BY <2>1, <2>7, <4>1, <4>2
        <3> QED BY <3>1, <3>2
    <2>8. /\ Len(b) = Len(nums) /\ ToSet(b) = ToSet(nums)
          /\ \A j \in 1..Len(b) : j < q.i /\ b[j] \in 1..Len(b) => b[b[j]] = b[j]
        BY <1>1, <2>1, <2>4, <2>6, <2>7
    <2> QED BY <2>8 DEF PlaceKeeps, b, q
<1>4. CASE ~Swaps(p)
    <2>1. q.i = i + 1 /\ b = a
        BY <1>4, SwappedIs DEF PlaceDone
    <2>2. v \in 1..n => a[v] = v
        BY <1>4 DEF Swaps
    <2>3. /\ \A j \in 1..n : j < i /\ a[j] \in 1..n => a[a[j]] = a[j]
          /\ ToSet(a) = ToSet(nums)
        BY DEF PlaceKeeps
    <2> HIDE DEF a, i, b, n, q
    <2>4. \A j \in 1..n : j < i + 1 => j < i \/ j = i
        BY <1>1
    <2>5. \A j \in 1..n : j < i + 1 /\ a[j] \in 1..n => a[a[j]] = a[j]
        BY <2>2, <2>3, <2>4
    <2>6. /\ Len(b) = Len(nums) /\ ToSet(b) = ToSet(nums)
          /\ \A j \in 1..Len(b) : j < q.i /\ b[j] \in 1..Len(b) => b[b[j]] = b[j]
        BY <1>1, <2>1, <2>3, <2>5 DEF n
    <2> QED BY <2>6 DEF PlaceKeeps, b, q
<1> QED BY <1>3, <1>4

\* first_missing_positive (lc_41) returns the smallest positive number that is
\* not in the vector, for every vector of integers.
THEOREM FirstMissingIsFirst ==
    \A nums \in Seq(Int) : IsFirstMissing(nums, first_missing_positive(nums))
<1> SUFFICES ASSUME NEW nums \in Seq(Int)
             PROVE  IsFirstMissing(nums, first_missing_positive(nums))
    OBVIOUS
<1> DEFINE f == CHOOSE f : IsPlace(f)
           start == [a |-> nums, i |-> 1]
           Q == {p \in Places : PlaceKeeps(nums, p)}
<1>1. IsPlace(f)
    <2>1. PICK g \in [Places -> Seq(Int)] : Loops(g, Places, PlaceDone, PlaceBase, PlaceNext)
        BY PlaceLoop, LoopExists
    <2>2. IsPlace(g)
        BY <2>1, PlaceEquation
    <2> QED BY <2>2
<1>2. first_missing_positive(nums) = FirstGap(f[start])
    BY Zenon DEF first_missing_positive, IsPlace, Places, Swapped, Swaps
<1> HIDE DEF f
<1>3. Loops(f, Places, PlaceDone, PlaceBase, PlaceNext)
    BY <1>1, PlaceEquation
<1>4. start \in Q
    BY DEF Places, PlaceKeeps
<1>5. \A p \in Q \ PlaceDone : PlaceNext[p] \in Q
    <2>1. ASSUME NEW p \in Q \ PlaceDone PROVE PlaceNext[p] \in Q
        <3>1. PlaceNext[p] = Swapped(p) /\ PlaceNext[p] \in Places
            BY PlaceLoop
        <3>2. PlaceKeeps(nums, Swapped(p))
            BY PlaceKept
        <3> QED BY <3>1, <3>2
    <2> QED BY <2>1
<1>6. PICK e \in Q \cap PlaceDone : f[start] = PlaceBase[e]
    <2>1. Kept(Q, Places, PlaceDone, PlaceNext)
        BY <1>5 DEF Kept
    <2> HIDE DEF start, Q
    <2> QED BY <1>3, <1>4, <2>1, PlaceLoop, LoopEnds
<1> DEFINE a == e.a
           n == Len(nums)
<1>7. /\ f[start] = a /\ a \in Seq(Int) /\ Len(a) = n /\ ToSet(a) = ToSet(nums) /\ n \in Nat
      /\ DOMAIN a = 1..n /\ \A x \in 1..n : a[x] \in Int
      /\ \A j \in 1..n : a[j] \in 1..n => a[a[j]] = a[j]
    <2>1. e \in Places /\ PlaceKeeps(nums, e) /\ e.i > Len(e.a)
        BY DEF PlaceDone
    <2>2. f[start] = a
        BY <1>6, <2>1 DEF PlaceBase
    <2>3. a \in Seq(Int) /\ e.i \in Nat /\ Len(a) = n /\ ToSet(a) = ToSet(nums)
        BY <2>1 DEF Places, PlaceKeeps
    <2>4. n \in Nat /\ \A j \in 1..n : j < e.i
        BY <2>1, <2>3
    <2>5. \A j \in 1..n : a[j] \in 1..n => a[a[j]] = a[j]
        BY <2>1, <2>3, <2>4 DEF PlaceKeeps
    <2>6. DOMAIN a = 1..n /\ \A x \in 1..n : a[x] \in Int
        BY <2>3
    <2> HIDE DEF a, n
    <2> QED BY <2>2, <2>3, <2>4, <2>5, <2>6
<1> HIDE DEF a, start
<1>8. ASSUME NEW x \in 1..n PROVE a[x] = x <=> x \in ToSet(nums)
    <2>1. x \in ToSet(a) <=> \E k \in 1..n : a[k] = x
        BY <1>7, ToSetIs
    <2> QED BY <1>7, <1>8, <2>1
<1>9. (\A x \in 1..n : a[x] = x) => n + 1 \notin ToSet(nums)
    <2>1. n + 1 \in ToSet(a) <=> \E k \in 1..n : a[k] = n + 1
        BY <1>7, ToSetIs
    <2> HIDE DEF n
    <2> QED BY <1>7, <2>1
<1> QED BY <1>2, <1>7, <1>8, <1>9, GapIsMissing

-----------------------------------------------------------------------------
(* lc_41, the simple way *)

Indices(s) == [i \in DOMAIN s |-> i]

LEMMA IndicesAre ==
    ASSUME NEW S, NEW s \in Seq(S)
    PROVE  /\ Indices(s) \in Seq(1..Len(s)) /\ Len(Indices(s)) = Len(s)
           /\ \A k \in 1..Len(s) : Indices(s)[k] = k
           /\ DOMAIN Indices(s) = 1..Len(Indices(s)) /\ Len(Indices(s)) \in Nat
           /\ \A k \in 1..Len(Indices(s)) : Indices(s)[k] \in 1..Len(s)
<1>1. /\ Indices(s) \in Seq(1..Len(s)) /\ Len(Indices(s)) = Len(s)
      /\ \A k \in 1..Len(s) : Indices(s)[k] = k
    BY DEF Indices
<1> QED BY <1>1

\* n places do not hold n + 1 numbers
LEMMA OneIsMissing ==
    ASSUME NEW nums \in Seq(Int)
    PROVE  \E x \in 1..(Len(nums) + 1) : x \notin ToSet(nums)
<1> DEFINE n == Len(nums)
           place == [x \in 1..(n + 1) |-> CHOOSE k \in 1..n : nums[k] = x]
<1> SUFFICES ASSUME \A x \in 1..(n + 1) : x \in ToSet(nums) PROVE FALSE
    OBVIOUS
<1>1. n \in Nat
    OBVIOUS
<1>2. ASSUME NEW x \in 1..(n + 1) PROVE place[x] \in 1..n /\ nums[place[x]] = x
    <2>1. \E k \in 1..n : nums[k] = x
        BY ToSetIs
    <2> QED BY <2>1
<1>3. place \in [1..(n + 1) -> 1..n]
    BY <1>2
<1>4. /\ IsFiniteSet(1..n) /\ Cardinality(1..n) = n
      /\ IsFiniteSet(1..(n + 1)) /\ Cardinality(1..(n + 1)) = n + 1
    <2>1. 1 \in Int /\ n \in Int /\ n + 1 \in Int
        BY <1>1
    <2> HIDE DEF n
    <2>2. IsFiniteSet(1..n) /\ Cardinality(1..n) = IF 1 > n THEN 0 ELSE n - 1 + 1
        BY <2>1, FS_Interval
    <2>3. IsFiniteSet(1..(n + 1)) /\ Cardinality(1..(n + 1)) = IF 1 > n + 1 THEN 0 ELSE (n + 1) - 1 + 1
        BY <2>1, FS_Interval
    <2> QED BY <1>1, <2>2, <2>3
<1>5. \E x, y \in 1..(n + 1) : x # y /\ place[x] = place[y]
    <2>1. Cardinality(1..n) < Cardinality(1..(n + 1))
        BY <1>1, <1>4
    <2> HIDE DEF place, n
    <2> QED BY <1>3, <1>4, <2>1, FS_PigeonHole
<1> HIDE DEF place
<1> QED BY <1>2, <1>5

Vectors(n) == {a \in Seq(Int) : Len(a) = n}

Pushes == [a : Seq(Int), i : Nat, cur : Int]

Pushing(p) == p.cur > p.i /\ p.cur <= Len(p.a) /\ p.a[p.cur] # p.cur

Pushed(p) == [a |-> [p.a EXCEPT ![p.cur] = p.cur], i |-> p.i, cur |-> p.a[p.cur]]

Ended(p) == IF p.cur \in 1..p.i THEN [p.a EXCEPT ![p.cur] = p.cur] ELSE p.a

IsPush(f) == f = [p \in Pushes |->
                    IF p.cur \in 1..p.i THEN [p.a EXCEPT ![p.cur] = p.cur]
                    ELSE IF p.cur > p.i /\ p.cur <= Len(p.a) /\ p.a[p.cur] # p.cur
                    THEN f[Pushed(p)]
                    ELSE p.a]

PushLoop == CHOOSE f : IsPush(f)

PushDone == {p \in Pushes : ~Pushing(p)}

PushBase == [p \in Pushes |-> Ended(p)]

PushNext == [p \in Pushes |-> IF p \in PushDone THEN p ELSE Pushed(p)]

PushLeft == [p \in Pushes |-> Cardinality(Wrong(p.a))]

LEMMA PushedIs ==
    ASSUME NEW p \in Pushes, Pushing(p)
    PROVE  /\ Pushed(p) \in Pushes /\ p.cur \in 1..Len(p.a)
           /\ Pushed(p).i = p.i /\ Pushed(p).cur = p.a[p.cur] /\ Len(Pushed(p).a) = Len(p.a)
           /\ \A k \in 1..Len(p.a) : Pushed(p).a[k] = IF k = p.cur THEN k ELSE p.a[k]
<1> DEFINE a == p.a
           cur == p.cur
           b == [a EXCEPT ![cur] = cur]
           c == a[cur]
<1>1. a \in Seq(Int) /\ p.i \in Nat /\ cur \in Int /\ Len(a) \in Nat
      /\ p = [a |-> a, i |-> p.i, cur |-> cur]
    BY DEF Pushes
<1>2. cur \in 1..Len(a)
    BY <1>1 DEF Pushing
<1>5. Pushed(p) = [a |-> b, i |-> p.i, cur |-> c]
    BY DEF Pushed
<1> HIDE DEF a, cur
<1>3. b \in Seq(Int) /\ Len(b) = Len(a) /\ c \in Int
    BY <1>1, <1>2
<1>4. \A k \in 1..Len(a) : b[k] = IF k = cur THEN k ELSE a[k]
    BY <1>1, <1>2
<1> HIDE DEF b, c
<1>6. Pushed(p) \in Pushes
    BY <1>1, <1>3, <1>5 DEF Pushes
<1> QED BY <1>2, <1>3, <1>4, <1>5, <1>6 DEF c, a, cur

LEMMA EndedIs ==
    ASSUME NEW p \in Pushes
    PROVE  /\ Ended(p) \in Seq(Int) /\ Len(Ended(p)) = Len(p.a)
           /\ \A k \in 1..Len(p.a) : Ended(p)[k] = IF p.cur \in 1..p.i /\ k = p.cur THEN k ELSE p.a[k]
<1> DEFINE a == p.a
           cur == p.cur
           b == [a EXCEPT ![cur] = cur]
<1>1. a \in Seq(Int) /\ p.i \in Nat /\ cur \in Int /\ DOMAIN a = 1..Len(a)
    BY DEF Pushes
<1>2. Ended(p) = IF cur \in 1..p.i THEN b ELSE a
    BY DEF Ended
<1> HIDE DEF a, cur
<1>3. b \in Seq(Int) /\ Len(b) = Len(a)
    <2>1. CASE cur \in 1..Len(a)
        BY <1>1, <2>1
    <2>2. CASE cur \notin 1..Len(a)
        <3>1. b = a
            BY <1>1, <2>2
        <3> QED BY <1>1, <3>1
    <2> QED BY <2>1, <2>2
<1>4. \A k \in 1..Len(a) : b[k] = IF k = cur THEN k ELSE a[k]
    BY <1>1
<1> HIDE DEF b
<1> QED BY <1>1, <1>2, <1>3, <1>4 DEF a, cur

LEMMA PushIsLoop ==
    /\ IsLoop(Pushes, PushDone, PushNext, PushLeft)
    /\ PushBase \in [Pushes -> Seq(Int)]
    /\ \A p \in Pushes \ PushDone : PushNext[p] = Pushed(p) /\ Pushed(p) \in Pushes
<1>1. PushDone \in SUBSET Pushes /\ PushBase \in [Pushes -> Seq(Int)]
    BY EndedIs DEF PushDone, PushBase
<1>2. ASSUME NEW p \in Pushes \ PushDone PROVE Pushed(p) \in Pushes /\ PushNext[p] = Pushed(p)
    BY PushedIs DEF PushDone, PushNext
<1>3. PushNext \in [Pushes -> Pushes]
    BY <1>2 DEF PushNext
<1>4. PushLeft \in [Pushes -> Nat]
    BY WrongType DEF PushLeft, Pushes
<1>5. ASSUME NEW p \in Pushes \ PushDone PROVE PushLeft[PushNext[p]] < PushLeft[p]
    <2> DEFINE q == Pushed(p)
    <2>1. Pushing(p)
        BY DEF PushDone
    <2>2. /\ q \in Pushes /\ p.cur \in 1..Len(p.a) /\ Len(q.a) = Len(p.a)
          /\ \A k \in 1..Len(p.a) : q.a[k] = IF k = p.cur THEN k ELSE p.a[k]
        BY <2>1, PushedIs
    <2>3. PushNext[p] = q
        BY <1>2
    <2> HIDE DEF q
    <2>4. p.a \in Seq(Int) /\ q.a \in Seq(Int)
        BY <2>2 DEF Pushes
    <2>5. p.a[p.cur] # p.cur
        BY <2>1 DEF Pushing
    <2>6. \A k \in 1..Len(p.a) : p.a[k] = k => q.a[k] = k
        BY <2>2
    <2>7. q.a[p.cur] = p.cur
        BY <2>2
    <2>8. Cardinality(Wrong(q.a)) < Cardinality(Wrong(p.a))
        BY <2>2, <2>4, <2>5, <2>6, <2>7, FewerWrong
    <2> QED BY <2>2, <2>3, <2>8 DEF PushLeft
<1> QED BY <1>1, <1>2, <1>3, <1>4, <1>5 DEF IsLoop

LEMMA PushEquation ==
    ASSUME NEW f
    PROVE  IsPush(f) <=> f = [p \in Pushes |-> f[p]] /\ Loops(f, Pushes, PushDone, PushBase, PushNext)
<1>1. ASSUME NEW p \in Pushes
      PROVE  (IF p.cur \in 1..p.i THEN [p.a EXCEPT ![p.cur] = p.cur]
              ELSE IF p.cur > p.i /\ p.cur <= Len(p.a) /\ p.a[p.cur] # p.cur
              THEN f[Pushed(p)]
              ELSE p.a)
                = IF p \in PushDone THEN PushBase[p] ELSE f[PushNext[p]]
    <2>1. p.cur \in Int /\ p.i \in Nat
        BY DEF Pushes
    <2>2. CASE p.cur \in 1..p.i
        <3>1. ~Pushing(p)
            BY <2>1, <2>2 DEF Pushing
        <3>2. p \in PushDone /\ PushBase[p] = Ended(p) /\ Ended(p) = [p.a EXCEPT ![p.cur] = p.cur]
            BY <2>2, <3>1 DEF PushDone, PushBase, Ended
        <3> QED BY <2>1, <2>2, <3>1, <3>2 DEF Pushing
    <2>3. CASE Pushing(p)
        <3>1. p.cur \notin 1..p.i
            BY <2>1, <2>3 DEF Pushing
        <3>2. p \notin PushDone /\ PushNext[p] = Pushed(p)
            BY <2>3 DEF PushDone, PushNext
        <3> QED BY <2>3, <3>1, <3>2 DEF Pushing
    <2>4. CASE p.cur \notin 1..p.i /\ ~Pushing(p)
        <3>1. p \in PushDone /\ PushBase[p] = p.a
            BY <2>4 DEF PushDone, PushBase, Ended
        <3> QED BY <2>4, <3>1 DEF Pushing
    <2> QED BY <2>2, <2>3, <2>4
<1> QED BY <1>1 DEF IsPush, Loops

LEMMA PushLoops == Loops(PushLoop, Pushes, PushDone, PushBase, PushNext)
<1>1. PICK g \in [Pushes -> Seq(Int)] : Loops(g, Pushes, PushDone, PushBase, PushNext)
    BY PushIsLoop, LoopExists
<1>2. IsPush(g)
    BY <1>1, PushEquation
<1>3. IsPush(PushLoop)
    BY <1>2 DEF PushLoop
<1> QED BY <1>3, PushEquation

\* The numbers up to n of the vector are at their places, or behind place i
Settled(nums, a, i) ==
    /\ a \in Vectors(Len(nums))
    /\ \A k \in 1..Len(nums) : a[k] \in ToSet(nums)
    /\ \A x \in 1..Len(nums) :
          x \in ToSet(nums) => a[x] = x \/ \E j \in 1..Len(nums) : j > i /\ a[j] = x

PushKeeps(nums, i, p) ==
    /\ p.i = i /\ p.a \in Vectors(Len(nums))
    /\ p.cur \in ToSet(nums)
    /\ \A k \in 1..Len(nums) : p.a[k] \in ToSet(nums)
    /\ \A x \in 1..Len(nums) :
          x \in ToSet(nums) => \/ p.a[x] = x
                               \/ \E j \in 1..Len(nums) : j > i /\ p.a[j] = x
                               \/ x = p.cur

LEMMA PushKept ==
    ASSUME NEW nums \in Seq(Int), NEW i \in Nat, NEW p \in Pushes, Pushing(p), PushKeeps(nums, i, p)
    PROVE  PushKeeps(nums, i, Pushed(p))
<1> DEFINE a == p.a
           b == Pushed(p).a
           cur == p.cur
           next == Pushed(p).cur
           n == Len(nums)
<1>1. /\ a \in Seq(Int) /\ Len(a) = n /\ n \in Nat /\ cur \in Int
      /\ p.i = i /\ cur \in ToSet(nums) /\ \A k \in 1..n : a[k] \in ToSet(nums)
    BY DEF PushKeeps, Vectors, Pushes
<1>2. \A x \in 1..n : x \in ToSet(nums) => \/ a[x] = x
                                           \/ \E j \in 1..n : j > i /\ a[j] = x
                                           \/ x = cur
    BY DEF PushKeeps
<1>3. /\ b \in Seq(Int) /\ cur \in 1..n /\ Pushed(p).i = i /\ next = a[cur] /\ Len(b) = n
      /\ \A k \in 1..n : b[k] = IF k = cur THEN k ELSE a[k]
    BY <1>1, PushedIs DEF Pushes
<1>4. a[cur] # cur /\ cur > i
    BY <1>1 DEF Pushing
<1> HIDE DEF a, b, cur, next, n
<1>5. ASSUME NEW x \in 1..n, x \in ToSet(nums)
      PROVE  b[x] = x \/ (\E j \in 1..n : j > i /\ b[j] = x) \/ x = next
    <2>1. CASE a[x] = x
        BY <1>3, <2>1
    <2>2. CASE x = cur
        BY <1>3, <2>2
    <2>3. ASSUME NEW j \in 1..n, j > i, a[j] = x
          PROVE  (\E k \in 1..n : k > i /\ b[k] = x) \/ x = next
        BY <1>3, <2>3
    <2> QED BY <1>2, <1>5, <2>1, <2>2, <2>3
<1>6. next \in ToSet(nums) /\ \A k \in 1..n : b[k] \in ToSet(nums)
    BY <1>1, <1>3
<1> QED BY <1>3, <1>5, <1>6 DEF PushKeeps, Vectors, b, next, n

LEMMA EndSettles ==
    ASSUME NEW nums \in Seq(Int), NEW i \in Nat, NEW p \in Pushes, ~Pushing(p), PushKeeps(nums, i, p),
           i <= Len(nums)
    PROVE  Settled(nums, Ended(p), i)
<1> DEFINE a == p.a
           b == Ended(p)
           cur == p.cur
           n == Len(nums)
<1>1. /\ a \in Seq(Int) /\ Len(a) = n /\ n \in Nat /\ cur \in Int
      /\ p.i = i /\ cur \in ToSet(nums) /\ \A k \in 1..n : a[k] \in ToSet(nums)
    BY DEF PushKeeps, Vectors, Pushes
<1>2. \A x \in 1..n : x \in ToSet(nums) => \/ a[x] = x
                                           \/ \E j \in 1..n : j > i /\ a[j] = x
                                           \/ x = cur
    BY DEF PushKeeps
<1>3. /\ b \in Seq(Int) /\ Len(b) = n
      /\ \A k \in 1..n : b[k] = IF cur \in 1..i /\ k = cur THEN k ELSE a[k]
    BY <1>1, EndedIs
<1>4. ~(cur > i /\ cur <= n /\ a[cur] # cur)
    BY <1>1 DEF Pushing
<1> HIDE DEF a, b, cur, n
<1>5. ASSUME NEW x \in 1..n, x \in ToSet(nums)
      PROVE  b[x] = x \/ \E j \in 1..n : j > i /\ b[j] = x
    <2>1. CASE a[x] = x
        BY <1>3, <2>1
    <2>2. CASE x = cur
        BY <1>1, <1>3, <1>4, <2>2
    <2>3. ASSUME NEW j \in 1..n, j > i, a[j] = x PROVE \E k \in 1..n : k > i /\ b[k] = x
        BY <1>3, <2>3
    <2> QED BY <1>2, <1>5, <2>1, <2>2, <2>3
<1>6. \A k \in 1..n : b[k] \in ToSet(nums)
    BY <1>1, <1>3
<1> QED BY <1>3, <1>5, <1>6 DEF Settled, Vectors, b, n

\* What visiting a place does
Visited(n) == [q \in Vectors(n) \X (1..n) |->
                  IF q[1][q[2]] = q[2] THEN q[1]
                  ELSE PushLoop[[a |-> q[1], i |-> q[2], cur |-> q[1][q[2]]]]]

LEMMA PushEnds ==
    ASSUME NEW p \in Pushes, NEW Q, Kept(Q, Pushes, PushDone, PushNext), p \in Q
    PROVE  \E e \in Pushes : e \in Q /\ ~Pushing(e) /\ PushLoop[p] = Ended(e)
<1>1. PICK e \in Q \cap PushDone : PushLoop[p] = PushBase[e]
    BY PushIsLoop, PushLoops, LoopEnds
<1>2. e \in Pushes /\ ~Pushing(e) /\ PushBase[e] = Ended(e)
    BY DEF PushDone, PushBase
<1> QED BY <1>1, <1>2

LEMMA VisitedType ==
    ASSUME NEW n \in Nat
    PROVE  Visited(n) \in [Vectors(n) \X (1..n) -> Vectors(n)]
<1>1. ASSUME NEW a \in Vectors(n), NEW i \in 1..n
      PROVE  PushLoop[[a |-> a, i |-> i, cur |-> a[i]]] \in Vectors(n)
    <2> DEFINE p == [a |-> a, i |-> i, cur |-> a[i]]
               Q == {q \in Pushes : Len(q.a) = n}
    <2>1. p \in Pushes /\ p \in Q
        BY DEF Pushes, Vectors
    <2>2. Kept(Q, Pushes, PushDone, PushNext)
        <3>1. ASSUME NEW q \in Q \ PushDone PROVE PushNext[q] \in Q
            <4>1. Pushing(q)
                BY DEF PushDone
            <4>2. PushNext[q] = Pushed(q) /\ Pushed(q) \in Pushes
                BY PushIsLoop
            <4>3. Len(Pushed(q).a) = n
                BY <4>1, PushedIs
            <4> QED BY <4>2, <4>3
        <3> QED BY <3>1 DEF Kept
    <2> HIDE DEF p
    <2>3. PICK e \in Pushes : e \in Q /\ PushLoop[p] = Ended(e)
        <3> HIDE DEF Q
        <3> QED BY <2>1, <2>2, PushEnds
    <2>4. Ended(e) \in Seq(Int) /\ Len(Ended(e)) = n
        BY <2>3, EndedIs
    <2> QED BY <2>3, <2>4 DEF Vectors, p
<1> QED BY <1>1 DEF Visited

LEMMA VisitSettles ==
    ASSUME NEW nums \in Seq(Int), NEW i \in 1..Len(nums), NEW a, Settled(nums, a, i - 1)
    PROVE  Settled(nums, Visited(Len(nums))[<<a, i>>], i)
<1> DEFINE n == Len(nums)
           p == [a |-> a, i |-> i, cur |-> a[i]]
           Q == {q \in Pushes : PushKeeps(nums, i, q)}
<1>1. a \in Vectors(n) /\ a \in Seq(Int) /\ Len(a) = n /\ n \in Nat /\ i \in Nat
    BY DEF Settled, Vectors
<1>2. Visited(n)[<<a, i>>] = IF a[i] = i THEN a ELSE PushLoop[p]
    BY <1>1 DEF Visited
<1>3. /\ \A k \in 1..n : a[k] \in ToSet(nums)
      /\ \A x \in 1..n : x \in ToSet(nums) => a[x] = x \/ \E j \in 1..n : j > i - 1 /\ a[j] = x
    BY DEF Settled
<1> HIDE DEF n
<1>4. \A x \in 1..n : x \in ToSet(nums) => \/ a[x] = x
                                           \/ \E j \in 1..n : j > i /\ a[j] = x
                                           \/ x = a[i]
    <2>1. \A j \in 1..n : j > i - 1 => j > i \/ j = i
        BY <1>1
    <2> QED BY <1>3, <2>1
<1>5. CASE a[i] = i
    BY <1>1, <1>2, <1>3, <1>4, <1>5 DEF Settled, n
<1>6. CASE a[i] # i
    <2>1. p \in Pushes /\ PushKeeps(nums, i, p)
        <3>1. /\ p \in Pushes /\ p.i = i /\ p.a = a /\ p.cur = a[i] /\ a[i] \in ToSet(nums)
              /\ a \in Vectors(Len(nums))
            BY <1>1, <1>3 DEF Pushes, n
        <3> HIDE DEF p
        <3> QED BY <1>3, <1>4, <3>1 DEF PushKeeps, n
    <2>2. Kept(Q, Pushes, PushDone, PushNext)
        <3>1. ASSUME NEW q \in Q \ PushDone PROVE PushNext[q] \in Q
            <4>1. Pushing(q) /\ PushKeeps(nums, i, q)
                BY DEF PushDone
            <4>2. PushNext[q] = Pushed(q) /\ Pushed(q) \in Pushes
                BY PushIsLoop
            <4>3. PushKeeps(nums, i, Pushed(q))
                BY <1>1, <4>1, PushKept
            <4> QED BY <4>2, <4>3
        <3> QED BY <3>1 DEF Kept
    <2>3. PICK e \in Pushes : e \in Q /\ ~Pushing(e) /\ PushLoop[p] = Ended(e)
        <3>1. p \in Q
            BY <2>1
        <3> HIDE DEF p, Q
        <3> QED BY <2>1, <2>2, <3>1, PushEnds
    <2>4. Settled(nums, Ended(e), i)
        <3>1. PushKeeps(nums, i, e) /\ i <= Len(nums)
            BY <1>1, <2>3 DEF n
        <3> QED BY <1>1, <2>3, <3>1, EndSettles
    <2> QED BY <1>2, <1>6, <2>3, <2>4 DEF n
<1> QED BY <1>5, <1>6

LEMMA SimpleStates ==
    ASSUME NEW nums \in Seq(Int)
    PROVE  \E st : States(st, Vectors(Len(nums)), Visited(Len(nums)), nums, Indices(nums)) /\ first_missing_positive_simple_to_understand(nums) = FirstGap(st[Len(Indices(nums))])
<1>0. Indices(nums) \in Seq((1..Len(nums))) /\ DOMAIN Indices(nums) = 1..Len(Indices(nums)) /\ Len(Indices(nums)) \in Nat
      /\ \A k \in 1..Len(Indices(nums)) : Indices(nums)[k] \in (1..Len(nums))
    BY IndicesAre
<1>1. Visited(Len(nums)) \in [Vectors(Len(nums)) \X (1..Len(nums)) -> Vectors(Len(nums))]
    <2>1. Len(nums) \in Nat
        OBVIOUS
    <2> QED BY <2>1, VisitedType
<1>2. \A x \in Vectors(Len(nums)), y \in (1..Len(nums)) : Visited(Len(nums))[<<x, y>>] = (IF x[y] = y THEN x ELSE PushLoop[[a |-> x, i |-> y, cur |-> x[y]]])
    BY DEF Visited
<1>3. nums \in Vectors(Len(nums))
    BY DEF Vectors
<1> DEFINE Is(it) == it = [S \in SUBSET (DOMAIN Indices(nums)) |->
                              IF S = {} THEN nums ELSE (IF it[S \ {Max(S)}][Indices(nums)[Max(S)]] = Indices(nums)[Max(S)] THEN it[S \ {Max(S)}] ELSE PushLoop[[a |-> it[S \ {Max(S)}], i |-> Indices(nums)[Max(S)], cur |-> it[S \ {Max(S)}][Indices(nums)[Max(S)]]]])]
           fold == CHOOSE it : Is(it)
<1>4. \E it : Is(it)
    <2>1. PICK it \in [SUBSET (1..Len(Indices(nums))) -> Vectors(Len(nums))] : Folds(it, Vectors(Len(nums)), Visited(Len(nums)), nums, Indices(nums))
        BY <1>0, <1>1, <1>3, FoldExists, Zenon
    <2>2. ASSUME NEW S \in SUBSET (1..Len(Indices(nums))), S # {}
          PROVE  it[S] = (IF it[S \ {Max(S)}][Indices(nums)[Max(S)]] = Indices(nums)[Max(S)] THEN it[S \ {Max(S)}] ELSE PushLoop[[a |-> it[S \ {Max(S)}], i |-> Indices(nums)[Max(S)], cur |-> it[S \ {Max(S)}][Indices(nums)[Max(S)]]]])
        <3>1. Max(S) \in 1..Len(Indices(nums))
            BY <1>0, <2>2, LastPlace
        <3>2. it[S \ {Max(S)}] \in Vectors(Len(nums)) /\ Indices(nums)[Max(S)] \in (1..Len(nums))
            BY <1>0, <3>1
        <3>3. it[S] = Visited(Len(nums))[<<it[S \ {Max(S)}], Indices(nums)[Max(S)]>>]
            BY <2>1, <2>2, <3>2 DEF Folds
        <3> QED BY <1>2, <3>2, <3>3
    <2>3. Is(it)
        BY <1>0, <2>1, <2>2 DEF Folds
    <2> QED BY <2>3
<1>5. Is(fold)
    <2> HIDE DEF Is
    <2> QED BY <1>4
<1>6. first_missing_positive_simple_to_understand(nums) = FirstGap(fold[1..Len(Indices(nums))])
    <2>1. first_missing_positive_simple_to_understand(nums) = FirstGap(fold[DOMAIN Indices(nums)])
        BY Zenon DEF first_missing_positive_simple_to_understand, FoldLeftDomain, Indices, PushLoop, IsPush, Pushes, Pushed, FoldLeft, MapThenFoldSet
    <2> HIDE DEF fold
    <2> QED BY <1>0, <2>1
<1> HIDE DEF fold
<1>7. Folds(fold, Vectors(Len(nums)), Visited(Len(nums)), nums, Indices(nums))
    <2>1. fold[{}] = nums
        BY <1>5
    <2>2. ASSUME NEW S \in SUBSET (1..Len(Indices(nums))), S # {}, fold[S \ {Max(S)}] \in Vectors(Len(nums))
          PROVE  fold[S] = Visited(Len(nums))[<<fold[S \ {Max(S)}], Indices(nums)[Max(S)]>>]
        <3>1. Indices(nums)[Max(S)] \in (1..Len(nums))
            BY <1>0, <2>2, LastPlace
        <3>2. fold[S] = (IF fold[S \ {Max(S)}][Indices(nums)[Max(S)]] = Indices(nums)[Max(S)] THEN fold[S \ {Max(S)}] ELSE PushLoop[[a |-> fold[S \ {Max(S)}], i |-> Indices(nums)[Max(S)], cur |-> fold[S \ {Max(S)}][Indices(nums)[Max(S)]]]])
            BY <1>0, <1>5, <2>2, ZenonT(40)
        <3> QED BY <1>2, <2>2, <3>1, <3>2
    <2> QED BY <2>1, <2>2 DEF Folds
<1>8. LastState(fold[1..Len(Indices(nums))], Vectors(Len(nums)), Visited(Len(nums)), nums, Indices(nums))
    BY <1>0, <1>1, <1>3, <1>7, FoldStates, Zenon
<1> QED BY <1>6, <1>8 DEF LastState

\* So does first_missing_positive_simple_to_understand.
THEOREM SimpleFirstMissingIsFirst ==
    \A nums \in Seq(Int) :
        IsFirstMissing(nums, first_missing_positive_simple_to_understand(nums))
<1> SUFFICES ASSUME NEW nums \in Seq(Int)
             PROVE  IsFirstMissing(nums, first_missing_positive_simple_to_understand(nums))
    OBVIOUS
<1> DEFINE n == Len(nums)
<1>1. PICK st : /\ States(st, Vectors(n), Visited(n), nums, Indices(nums))
                /\ first_missing_positive_simple_to_understand(nums) = FirstGap(st[Len(Indices(nums))])
    BY SimpleStates
<1>2. Len(Indices(nums)) = n /\ n \in Nat /\ \A k \in 1..n : Indices(nums)[k] = k
    BY IndicesAre
<1>3. st[0] = nums /\ \A k \in 1..n : st[k] = Visited(n)[<<st[k - 1], k>>]
    BY <1>1, <1>2 DEF States
<1>4. Settled(nums, nums, 0)
    <2>1. \A k \in 1..n : nums[k] \in ToSet(nums)
        BY ToSetIs
    <2>2. \A x \in 1..n : x \in ToSet(nums) => \E j \in 1..n : j > 0 /\ nums[j] = x
        BY <1>2, ToSetIs
    <2> QED BY <2>1, <2>2 DEF Settled, Vectors
<1>5. Settled(nums, st[n], n)
    <2> DEFINE T == {k \in Nat : k \in 0..n => Settled(nums, st[k], k)}
    <2>1. 0 \in T
        BY <1>3, <1>4
    <2>2. ASSUME NEW k \in T PROVE k + 1 \in T
        <3> SUFFICES ASSUME k + 1 \in 0..n PROVE Settled(nums, st[k + 1], k + 1)
            OBVIOUS
        <3>1. k + 1 \in 1..n /\ (k + 1) - 1 = k /\ Settled(nums, st[k], k)
            BY <1>2
        <3>2. st[k + 1] = Visited(n)[<<st[k], k + 1>>]
            BY <1>3, <3>1
        <3> QED BY <3>1, <3>2, VisitSettles
    <2>3. T = Nat
        <3>1. T \in SUBSET Nat
            OBVIOUS
        <3> HIDE DEF T
        <3> QED BY <2>1, <2>2, <3>1, SetInduction
    <2> QED BY <1>2, <2>3
<1> DEFINE a == st[n]
<1>6. /\ a \in Seq(Int) /\ Len(a) = n
      /\ \A k \in 1..n : a[k] \in ToSet(nums)
      /\ \A x \in 1..n : x \in ToSet(nums) => a[x] = x
    <2>1. \A j \in 1..n : ~(j > n)
        BY <1>2
    <2> QED BY <1>5, <2>1 DEF Settled, Vectors
<1> HIDE DEF a, n
<1>7. \A x \in 1..n : a[x] = x <=> x \in ToSet(nums)
    BY <1>6
<1>8. (\A x \in 1..n : a[x] = x) => n + 1 \notin ToSet(nums)
    <2>1. PICK x \in 1..(n + 1) : x \notin ToSet(nums)
        BY OneIsMissing DEF n
    <2> QED BY <1>2, <1>7, <2>1
<1> QED BY <1>1, <1>2, <1>6, <1>7, <1>8, GapIsMissing DEF a, n

-----------------------------------------------------------------------------
(* lc_73 *)

\* m is a matrix of r rows and k columns
Shape(m, r, k) ==
    /\ m = [i \in 1..r |-> m[i]]
    /\ \A i \in 1..r : m[i] = [j \in 1..k |-> m[i][j]]

LEMMA ClearedIs ==
    ASSUME NEW m, NEW r, NEW k, Shape(m, r, k), NEW cells
    PROVE  /\ Shape(Cleared(m, cells), r, k)
           /\ \A i \in 1..r, j \in 1..k :
                 Cleared(m, cells)[i][j] = IF <<i, j>> \in cells THEN 0 ELSE m[i][j]
<1> DEFINE row(i) == [j \in 1..k |-> IF <<i, j>> \in cells THEN 0 ELSE m[i][j]]
<1>1. DOMAIN m = 1..r /\ \A i \in 1..r : DOMAIN m[i] = 1..k
    BY DEF Shape
<1>2. Cleared(m, cells) = [i \in 1..r |-> row(i)]
    BY <1>1 DEF Cleared
<1>3. \A i \in 1..r : Cleared(m, cells)[i] = row(i)
    BY <1>2
<1>4. \A i \in 1..r, j \in 1..k : row(i)[j] = IF <<i, j>> \in cells THEN 0 ELSE m[i][j]
    OBVIOUS
<1>5. \A i \in 1..r : row(i) = [j \in 1..k |-> row(i)[j]]
    OBVIOUS
<1> DEFINE out == Cleared(m, cells)
<1> HIDE DEF row, out
<1>6. Shape(out, r, k)
    BY <1>2, <1>3, <1>5 DEF Shape, out
<1>7. \A i \in 1..r, j \in 1..k : out[i][j] = IF <<i, j>> \in cells THEN 0 ELSE m[i][j]
    BY <1>3, <1>4 DEF out
<1> QED BY <1>6, <1>7 DEF out

LEMMA SameMatrix ==
    ASSUME NEW m, NEW out, NEW r, NEW k, Shape(m, r, k), Shape(out, r, k),
           \A i \in 1..r, j \in 1..k : m[i][j] = out[i][j]
    PROVE  m = out
<1>1. ASSUME NEW i \in 1..r PROVE m[i] = out[i]
    <2>1. m[i] = [j \in 1..k |-> m[i][j]] /\ out[i] = [j \in 1..k |-> out[i][j]]
        BY DEF Shape
    <2>2. [j \in 1..k |-> m[i][j]] = [j \in 1..k |-> out[i][j]]
        OBVIOUS
    <2> QED BY <2>1, <2>2
<1>2. m = [i \in 1..r |-> m[i]] /\ out = [i \in 1..r |-> out[i]]
    BY DEF Shape
<1>3. [i \in 1..r |-> m[i]] = [i \in 1..r |-> out[i]]
    BY <1>1
<1> QED BY <1>2, <1>3

\* The vectors of vectors that are matrices
Matrix(m) == m \in Seq(Seq(Int)) /\ \A i \in 1..Len(m) : Len(m[i]) = Len(m[1])

\* set_zeroes (lc_73) clears the rows and the columns of all zeroes, and nothing
\* else, for every matrix.
THEOREM SetZeroesIsZeroed == \A m : Matrix(m) => IsZeroed(m, set_zeroes(m))
<1> SUFFICES ASSUME NEW m, Matrix(m) PROVE IsZeroed(m, set_zeroes(m))
    BY SMTT(30)
<1>0. CASE m = <<>> \/ m[1] = <<>>
    BY <1>0, ZenonT(40) DEF IsZeroed, set_zeroes
<1> SUFFICES ASSUME m # <<>>, m[1] # <<>> PROVE IsZeroed(m, set_zeroes(m))
    BY <1>0
<1> DEFINE r == Len(m)
           k == Len(m[1])
           rows == 1..r
           cols == 1..k
           inner == (rows \ {1}) \X (cols \ {1})
           first_row_zero == \E j \in cols : m[1][j] = 0
           first_col_zero == \E i \in rows : m[i][1] = 0
           marks == UNION {{<<1, c[2]>>, <<c[1], 1>>} : c \in {x \in inner : m[x[1]][x[2]] = 0}}
           marked == Cleared(m, marks)
           colsCleared == {c \in inner : marked[1][c[2]] = 0}
           columns == Cleared(marked, colsCleared)
           rowsCleared == {c \in inner : columns[c[1]][1] = 0}
           both == Cleared(columns, rowsCleared)
           firsts == {c \in rows \X cols : (c[1] = 1 /\ first_row_zero) \/ (c[2] = 1 /\ first_col_zero)}
           zeroes == {c \in rows \X cols : (\E x \in cols : m[c[1]][x] = 0) \/ (\E x \in rows : m[x][c[2]] = 0)}
           out == Cleared(both, firsts)
<1>1. r \in Nat \ {0} /\ k \in Nat \ {0} /\ 1 \in rows /\ 1 \in cols
    BY DEF Matrix
<1>2. Shape(m, r, k)
    <2>1. m \in Seq(Seq(Int)) /\ \A i \in 1..r : Len(m[i]) = k
        BY DEF Matrix
    <2>2. \A i \in 1..r : m[i] \in Seq(Int)
        BY <2>1
    <2> HIDE DEF k
    <2>3. \A i \in 1..r : m[i] = [j \in 1..k |-> m[i][j]]
        BY <2>1, <2>2
    <2>4. m = [i \in 1..r |-> m[i]]
        BY <2>1
    <2> QED BY <2>3, <2>4 DEF Shape
<1>3. set_zeroes(m) = out
    BY Zenon DEF set_zeroes
<1>4. IsZeroed(m, set_zeroes(m)) <=> set_zeroes(m) = Cleared(m, zeroes)
    BY Zenon DEF IsZeroed
<1>5. /\ \A i \in rows \ {1} : <<i, 1>> \in marks <=> \E x \in cols \ {1} : m[i][x] = 0
      /\ \A j \in cols \ {1} : <<1, j>> \in marks <=> \E x \in rows \ {1} : m[x][j] = 0
      /\ <<1, 1>> \notin marks
      /\ \A c \in inner : c \notin marks
    <2>1. ASSUME NEW c
          PROVE  c \in marks <=> \E x \in rows \ {1}, y \in cols \ {1} :
                                    m[x][y] = 0 /\ (c = <<1, y>> \/ c = <<x, 1>>)
        <3> DEFINE zero == {x \in inner : m[x[1]][x[2]] = 0}
        <3>1. \A x \in zero : x \in inner /\ m[x[1]][x[2]] = 0
            OBVIOUS
        <3>2. \A x \in inner : m[x[1]][x[2]] = 0 => x \in zero
            OBVIOUS
        <3>3. c \in marks <=> \E x \in zero : c \in {<<1, x[2]>>, <<x[1], 1>>}
            <4> HIDE DEF zero
            <4>1. marks = UNION {{<<1, d[2]>>, <<d[1], 1>>} : d \in zero}
                BY Zenon DEF zero
            <4> HIDE DEF marks
            <4> QED BY <4>1
        <3> HIDE DEF marks, zero, rows, cols
        <3>4. ASSUME NEW x \in rows \ {1}, NEW y \in cols \ {1}, m[x][y] = 0
              PROVE  <<x, y>> \in zero /\ <<x, y>>[1] = x /\ <<x, y>>[2] = y
            BY <3>2, <3>4
        <3>5. \A x \in zero : x[1] \in rows \ {1} /\ x[2] \in cols \ {1}
            BY <3>1
        <3> HIDE DEF inner
        <3>6. ASSUME c \in marks
              PROVE  \E x \in rows \ {1}, y \in cols \ {1} : m[x][y] = 0 /\ (c = <<1, y>> \/ c = <<x, 1>>)
            <4>1. PICK z \in zero : c \in {<<1, z[2]>>, <<z[1], 1>>}
                BY <3>3, <3>6
            <4>2. c = <<1, z[2]>> \/ c = <<z[1], 1>>
                BY <4>1
            <4>3. z[1] \in rows \ {1} /\ z[2] \in cols \ {1} /\ m[z[1]][z[2]] = 0
                BY <3>1, <3>5
            <4> QED BY <4>2, <4>3
        <3>7. ASSUME NEW x \in rows \ {1}, NEW y \in cols \ {1}, m[x][y] = 0, c = <<1, y>> \/ c = <<x, 1>>
              PROVE  c \in marks
            <4> DEFINE z == <<x, y>>
            <4>1. z \in zero /\ z[1] = x /\ z[2] = y
                BY <3>4, <3>7
            <4> HIDE DEF z
            <4>2. c \in {<<1, z[2]>>, <<z[1], 1>>}
                BY <3>7, <4>1
            <4> QED BY <3>3, <4>1, <4>2
        <3> QED BY <3>6, <3>7
    <2> HIDE DEF marks, rows, cols
    <2>2. ASSUME NEW i \in rows \ {1} PROVE <<i, 1>> \in marks <=> \E y \in cols \ {1} : m[i][y] = 0
        <3>1. \A x \in rows \ {1}, y \in cols \ {1} :
                 (<<i, 1>> = <<1, y>> \/ <<i, 1>> = <<x, 1>>) <=> x = i
            OBVIOUS
        <3> QED BY <2>1, <3>1
    <2>3. ASSUME NEW j \in cols \ {1} PROVE <<1, j>> \in marks <=> \E x \in rows \ {1} : m[x][j] = 0
        <3>1. \A x \in rows \ {1}, y \in cols \ {1} :
                 (<<1, j>> = <<1, y>> \/ <<1, j>> = <<x, 1>>) <=> y = j
            OBVIOUS
        <3> QED BY <2>1, <3>1
    <2>4. <<1, 1>> \notin marks
        BY <2>1
    <2>5. ASSUME NEW c \in inner PROVE c \notin marks
        <3>1. \A x \in rows \ {1}, y \in cols \ {1} : c # <<1, y>> /\ c # <<x, 1>>
            OBVIOUS
        <3> QED BY <2>1, <3>1
    <2> QED BY <2>2, <2>3, <2>4, <2>5
<1>6. /\ \A i \in rows \ {1}, j \in cols \ {1} : <<i, j>> \in inner
      /\ \A i \in rows, j \in cols : <<i, j>> \in inner => i # 1 /\ j # 1
    OBVIOUS
<1>7. /\ \A i \in rows, j \in cols : <<i, j>> \in colsCleared <=> <<i, j>> \in inner /\ marked[1][j] = 0
      /\ \A i \in rows, j \in cols : <<i, j>> \in rowsCleared <=> <<i, j>> \in inner /\ columns[i][1] = 0
      /\ \A i \in rows, j \in cols : <<i, j>> \in firsts <=> (i = 1 /\ first_row_zero) \/ (j = 1 /\ first_col_zero)
      /\ \A i \in rows, j \in cols : <<i, j>> \in zeroes <=>
            (\E x \in cols : m[i][x] = 0) \/ (\E x \in rows : m[x][j] = 0)
    <2> HIDE DEF marked, columns, rows, cols, inner, first_row_zero, first_col_zero
    <2>1. \A i \in rows, j \in cols : <<i, j>> \in colsCleared <=> <<i, j>> \in inner /\ marked[1][j] = 0
        OBVIOUS
    <2>2. \A i \in rows, j \in cols : <<i, j>> \in rowsCleared <=> <<i, j>> \in inner /\ columns[i][1] = 0
        OBVIOUS
    <2>3. \A i \in rows, j \in cols : <<i, j>> \in firsts <=> (i = 1 /\ first_row_zero) \/ (j = 1 /\ first_col_zero)
        OBVIOUS
    <2>4. \A i \in rows, j \in cols : <<i, j>> \in zeroes <=>
            (\E x \in cols : m[i][x] = 0) \/ (\E x \in rows : m[x][j] = 0)
        OBVIOUS
    <2> QED BY <2>1, <2>2, <2>3, <2>4
<1> HIDE DEF marks, colsCleared, rowsCleared, firsts, zeroes, inner
<1>8. Shape(marked, r, k) /\ \A i \in rows, j \in cols :
          marked[i][j] = IF <<i, j>> \in marks THEN 0 ELSE m[i][j]
    BY <1>2, ClearedIs
<1> HIDE DEF marked
<1>9. Shape(columns, r, k) /\ \A i \in rows, j \in cols :
          columns[i][j] = IF <<i, j>> \in colsCleared THEN 0 ELSE marked[i][j]
    BY <1>8, ClearedIs
<1> HIDE DEF columns
<1>10. Shape(both, r, k) /\ \A i \in rows, j \in cols :
          both[i][j] = IF <<i, j>> \in rowsCleared THEN 0 ELSE columns[i][j]
    BY <1>9, ClearedIs
<1> HIDE DEF both
<1>11. Shape(out, r, k) /\ \A i \in rows, j \in cols :
          out[i][j] = IF <<i, j>> \in firsts THEN 0 ELSE both[i][j]
    BY <1>10, ClearedIs
<1>12. Shape(Cleared(m, zeroes), r, k) /\ \A i \in rows, j \in cols :
          Cleared(m, zeroes)[i][j] = IF <<i, j>> \in zeroes THEN 0 ELSE m[i][j]
    BY <1>2, ClearedIs
<1> HIDE DEF out, rows, cols
<1>13. ASSUME NEW j \in cols \ {1} PROVE marked[1][j] = 0 <=> \E x \in rows : m[x][j] = 0
    <2>1. marked[1][j] = IF <<1, j>> \in marks THEN 0 ELSE m[1][j]
        BY <1>1, <1>8
    <2>2. <<1, j>> \in marks <=> \E x \in rows \ {1} : m[x][j] = 0
        BY <1>5
    <2>3. (\E x \in rows : m[x][j] = 0) <=> m[1][j] = 0 \/ \E x \in rows \ {1} : m[x][j] = 0
        BY <1>1
    <2> QED BY <2>1, <2>2, <2>3
<1>14. ASSUME NEW i \in rows \ {1} PROVE columns[i][1] = 0 <=> \E x \in cols : m[i][x] = 0
    <2>0. columns[i][1] = marked[i][1]
        BY <1>1, <1>6, <1>7, <1>9
    <2>1. marked[i][1] = IF <<i, 1>> \in marks THEN 0 ELSE m[i][1]
        BY <1>1, <1>8
    <2>2. <<i, 1>> \in marks <=> \E x \in cols \ {1} : m[i][x] = 0
        BY <1>5
    <2>3. (\E x \in cols : m[i][x] = 0) <=> m[i][1] = 0 \/ \E x \in cols \ {1} : m[i][x] = 0
        BY <1>1
    <2> QED BY <2>0, <2>1, <2>2, <2>3
<1>15. ASSUME NEW i \in rows, NEW j \in cols PROVE out[i][j] = Cleared(m, zeroes)[i][j]
    <2>1. CASE i # 1 /\ j # 1
        <3>1. <<i, j>> \notin firsts /\ <<i, j>> \in inner /\ <<i, j>> \notin marks
            BY <1>5, <1>6, <1>7, <2>1
        <3>2. <<i, j>> \in colsCleared <=> \E x \in rows : m[x][j] = 0
            BY <1>7, <1>13, <2>1, <3>1
        <3>3. <<i, j>> \in rowsCleared <=> \E x \in cols : m[i][x] = 0
            BY <1>7, <1>14, <2>1, <3>1
        <3> QED BY <1>7, <1>8, <1>9, <1>10, <1>11, <1>12, <3>1, <3>2, <3>3
    <2>2. CASE i = 1 /\ j # 1
        <3>1. <<i, j>> \notin inner
            BY <1>6, <2>2
        <3>2. both[i][j] = marked[i][j]
            BY <1>7, <1>9, <1>10, <3>1
        <3>3. <<i, j>> \in firsts <=> \E x \in cols : m[i][x] = 0
            BY <1>7, <2>2
        <3>4. marked[i][j] = 0 <=> \E x \in rows : m[x][j] = 0
            BY <1>13, <2>2
        <3> QED BY <1>7, <1>8, <1>11, <1>12, <3>2, <3>3, <3>4
    <2>3. CASE i # 1 /\ j = 1
        <3>1. <<i, j>> \notin inner
            BY <1>6, <2>3
        <3>2. both[i][j] = marked[i][j] /\ columns[i][j] = marked[i][j]
            BY <1>7, <1>9, <1>10, <3>1
        <3>3. <<i, j>> \in firsts <=> \E x \in rows : m[x][j] = 0
            BY <1>7, <2>3
        <3>4. marked[i][j] = 0 <=> \E x \in cols : m[i][x] = 0
            BY <1>14, <2>3, <3>2
        <3> QED BY <1>7, <1>8, <1>11, <1>12, <3>2, <3>3, <3>4
    <2>4. CASE i = 1 /\ j = 1
        <3>1. <<i, j>> \notin inner /\ <<i, j>> \notin marks
            BY <1>5, <1>6, <2>4
        <3>2. both[i][j] = m[i][j]
            BY <1>7, <1>8, <1>9, <1>10, <3>1
        <3>3. <<i, j>> \in firsts <=> <<i, j>> \in zeroes
            BY <1>7, <2>4
        <3> QED BY <1>11, <1>12, <3>2, <3>3
    <2> QED BY <2>1, <2>2, <2>3, <2>4
<1>16. out = Cleared(m, zeroes)
    BY <1>11, <1>12, <1>15, SameMatrix DEF rows, cols
<1> QED BY <1>3, <1>4, <1>16

-----------------------------------------------------------------------------
(* lc_128 *)

Keys == I32Min..I32Max

\* The consecutive integers from a to b are all in nums
Run(nums, a, b) == a <= b /\ \A x \in a..b : x \in nums

\* The longest of the runs that nothing comes before is the longest of all
LEMMA LongestRunIs ==
    ASSUME NEW nums \in SUBSET Keys, NEW x \in Nat,
           x = 0 \/ \E a \in nums, b \in nums : Run(nums, a, b) /\ x = b - a + 1,
           \A a \in nums, b \in nums : Run(nums, a, b) /\ a - 1 \notin nums => b - a + 1 <= x
    PROVE  LongestRun(nums) = x
<1> DEFINE pairs == {q \in nums \X nums : q[1]..q[2] \subseteq nums}
           lengths == {0} \cup {p[2] - p[1] + 1 : p \in pairs}
<1>0. I32Min \in Int /\ I32Max \in Int /\ \A a \in nums : a \in Int /\ I32Min <= a /\ a <= I32Max
    BY WidthAssumption DEF Keys, I32Min
<1>1. \A p \in pairs : p[1] \in nums /\ p[2] \in nums /\ \A y \in p[1]..p[2] : y \in nums
    OBVIOUS
<1>2. \A a \in nums, b \in nums : Run(nums, a, b) => <<a, b>> \in pairs
    BY DEF Run
<1>3. ASSUME NEW a \in nums, NEW b \in nums, Run(nums, a, b) PROVE b - a + 1 <= x
    <2> DEFINE starts == {c \in nums : c <= a /\ \A y \in c..a : y \in nums}
    <2>1. starts \in SUBSET Int /\ a \in starts /\ \A c \in starts : I32Min <= c
        BY <1>0
    <2> DEFINE c == Min(starts)
    <2>2. c \in starts /\ \A d \in starts : c <= d
        <3> HIDE DEF starts
        <3> QED BY <1>0, <2>1, MinExists
    <2> HIDE DEF c
    <2>3. c \in nums /\ c \in Int /\ a \in Int /\ b \in Int /\ c <= a /\ \A y \in c..a : y \in nums
        BY <1>0, <2>2
    <2>4. c - 1 \notin nums
        <3> SUFFICES ASSUME c - 1 \in nums PROVE FALSE
            OBVIOUS
        <3>1. \A y \in (c - 1)..a : y = c - 1 \/ y \in c..a
            BY <2>3
        <3>2. c - 1 \in starts
            BY <2>3, <3>1
        <3> HIDE DEF starts
        <3> QED BY <2>2, <2>3, <3>2
    <2>5. Run(nums, c, b)
        <3>1. a <= b /\ \A y \in a..b : y \in nums
            BY <1>3 DEF Run
        <3>2. \A y \in c..b : y \in c..a \/ y \in a..b
            BY <2>3
        <3> QED BY <2>3, <3>1, <3>2 DEF Run
    <2>6. b - c + 1 <= x
        BY <2>3, <2>4, <2>5
    <2> QED BY <2>3, <2>6
<1> HIDE DEF pairs
<1>4. ASSUME NEW y \in lengths PROVE y \in Int /\ x >= y
    <2>1. CASE y = 0
        BY <2>1
    <2>2. ASSUME NEW p \in pairs, y = p[2] - p[1] + 1 PROVE y \in Int /\ x >= y
        <3>1. p[1] \in nums /\ p[2] \in nums /\ p[1] \in Int /\ p[2] \in Int
            BY <1>0, <1>1
        <3>2. CASE p[1] <= p[2]
            <4>1. Run(nums, p[1], p[2])
                BY <1>1, <3>2 DEF Run
            <4>2. p[2] - p[1] + 1 <= x
                BY <1>3, <3>1, <4>1
            <4> QED BY <2>2, <3>1, <4>2
        <3>3. CASE ~(p[1] <= p[2])
            BY <2>2, <3>1, <3>3
        <3> QED BY <3>2, <3>3
    <2> QED BY <2>1, <2>2
<1>5. x \in lengths
    <2>1. ASSUME NEW a \in nums, NEW b \in nums, Run(nums, a, b) PROVE b - a + 1 \in lengths
        <3> DEFINE p == <<a, b>>
        <3>1. p \in pairs /\ p[1] = a /\ p[2] = b
            BY <1>2, <2>1
        <3> HIDE DEF p
        <3> QED BY <3>1
    <2> HIDE DEF lengths
    <2>2. 0 \in lengths
        BY DEF lengths
    <2> QED BY <2>1, <2>2
<1>6. LongestRun(nums) = Max(lengths)
    BY Zenon DEF LongestRun, pairs
<1>7. Max(lengths) = x
    <2> HIDE DEF lengths
    <2>1. lengths \in SUBSET Int
        BY <1>4
    <2> QED BY <1>4, <1>5, <2>1, MaxIs
<1> QED BY <1>6, <1>7

LEMMA KeysFinite ==
    ASSUME NEW nums \in SUBSET Keys
    PROVE  IsFiniteSet(nums)
<1>1. I32Min \in Int /\ I32Max \in Int
    BY WidthAssumption DEF I32Min
<1>2. IsFiniteSet(I32Min..I32Max)
    BY <1>1, FS_Interval
<1> QED BY <1>2, FS_Subset DEF Keys

LEMMA KeysOf ==
    ASSUME NEW keys \in Seq(Keys)
    PROVE  /\ ToSet(keys) \in SUBSET Keys
           /\ keys \in Seq(ToSet(keys))
           /\ \A x \in ToSet(keys) : x \in Int /\ I32Min <= x /\ x <= I32Max
           /\ I32Min \in Int /\ I32Max \in Int
<1>1. ASSUME NEW x \in ToSet(keys) PROVE x \in Keys
    <2>1. PICK k \in 1..Len(keys) : keys[k] = x
        BY ToSetIs
    <2> QED BY <2>1
<1>2. \A k \in 1..Len(keys) : keys[k] \in ToSet(keys)
    BY ToSetIs
<1>3. keys \in Seq(ToSet(keys))
    BY <1>2
<1> QED BY <1>1, <1>3, WidthAssumption DEF Keys, I32Min

\* The first integer from k on that is not in nums
IsAbove(f, nums) == f = [k \in Int |-> IF k \in nums THEN f[k + 1] ELSE k]

AboveDone(nums) == Int \ nums

AboveBase == [k \in Int |-> k]

AboveNext == [k \in Int |-> k + 1]

AboveLeft(nums) == [k \in Int |-> Cardinality({x \in nums : x >= k})]

LEMMA AboveIsLoop ==
    ASSUME NEW nums \in SUBSET Keys
    PROVE  IsLoop(Int, AboveDone(nums), AboveNext, AboveLeft(nums))
<1> DEFINE rest(k) == {x \in nums : x >= k}
<1>0. \A x \in nums : x \in Int
    BY WidthAssumption DEF Keys, I32Min
<1>1. \A k \in Int : IsFiniteSet(rest(k))
    <2>1. \A k \in Int : rest(k) \in SUBSET Keys
        OBVIOUS
    <2> HIDE DEF rest
    <2> QED BY <2>1, KeysFinite
<1>2. \A k \in Int : Cardinality(rest(k)) \in Nat
    <2> HIDE DEF rest
    <2> QED BY <1>1, FS_CardinalityType
<1>3. ASSUME NEW k \in Int, k \in nums PROVE Cardinality(rest(k + 1)) < Cardinality(rest(k))
    <2>0. \A x \in Int : x >= k + 1 <=> x >= k /\ x # k
        BY <1>3
    <2>1. k \in rest(k) /\ rest(k + 1) = rest(k) \ {k} /\ k + 1 \in Int
        <3>1. k \in rest(k) /\ k + 1 \in Int
            BY <1>3
        <3>2. ASSUME NEW x PROVE x \in rest(k + 1) <=> x \in rest(k) \ {k}
            BY <1>0, <2>0
        <3> QED BY <3>1, <3>2
    <2> HIDE DEF rest
    <2>2. Cardinality(rest(k) \ {k}) = Cardinality(rest(k)) - 1
        BY <1>1, <2>1, FS_RemoveElement
    <2> QED BY <1>2, <2>1, <2>2
<1>4. AboveLeft(nums) \in [Int -> Nat] /\ \A k \in Int : AboveLeft(nums)[k] = Cardinality(rest(k))
    BY <1>2 DEF AboveLeft
<1>5. AboveNext \in [Int -> Int] /\ \A k \in Int : AboveNext[k] = k + 1
    BY DEF AboveNext
<1> HIDE DEF rest
<1>6. ASSUME NEW k \in Int \ AboveDone(nums) PROVE AboveLeft(nums)[AboveNext[k]] < AboveLeft(nums)[k]
    <2>1. k \in nums /\ k \in Int /\ k + 1 \in Int
        BY DEF AboveDone
    <2> QED BY <1>3, <1>4, <1>5, <2>1
<1> QED BY <1>4, <1>5, <1>6 DEF IsLoop, AboveDone

LEMMA AboveEquation ==
    ASSUME NEW f, NEW nums \in SUBSET Keys
    PROVE  IsAbove(f, nums) <=> f = [k \in Int |-> f[k]] /\ Loops(f, Int, AboveDone(nums), AboveBase, AboveNext)
<1>1. ASSUME NEW k \in Int
      PROVE  (IF k \in nums THEN f[k + 1] ELSE k)
                = IF k \in AboveDone(nums) THEN AboveBase[k] ELSE f[AboveNext[k]]
    BY DEF AboveDone, AboveBase, AboveNext
<1> QED BY <1>1 DEF IsAbove, Loops

LEMMA AboveExists ==
    ASSUME NEW nums \in SUBSET Keys
    PROVE  \E f : IsAbove(f, nums)
<1>0. AboveBase \in [Int -> Int]
    BY DEF AboveBase
<1>1. PICK g \in [Int -> Int] : Loops(g, Int, AboveDone(nums), AboveBase, AboveNext)
    BY <1>0, AboveIsLoop, LoopExists
<1>2. IsAbove(g, nums)
    BY <1>1, AboveEquation
<1> QED BY <1>2

LEMMA AboveEnds ==
    ASSUME NEW nums \in SUBSET Keys, NEW f, IsAbove(f, nums), NEW Q, Kept(Q, Int, AboveDone(nums), AboveNext)
    PROVE  \A k \in Q : \E e \in Q \cap AboveDone(nums) : f[k] = AboveBase[e]
<1>1. Loops(f, Int, AboveDone(nums), AboveBase, AboveNext)
    BY AboveEquation
<1>2. IsLoop(Int, AboveDone(nums), AboveNext, AboveLeft(nums))
    BY AboveIsLoop
<1> QED BY <1>1, <1>2, LoopEnds

LEMMA AboveIs ==
    ASSUME NEW nums \in SUBSET Keys, NEW f, IsAbove(f, nums), NEW k \in Int
    PROVE  f[k] \in Int /\ f[k] >= k /\ f[k] \notin nums /\ \A x \in k..(f[k] - 1) : x \in nums
<1> DEFINE Q == {y \in Int : y >= k /\ \A x \in k..(y - 1) : x \in nums}
<1>1. Kept(Q, Int, AboveDone(nums), AboveNext)
    <2>1. ASSUME NEW y \in Q \ AboveDone(nums) PROVE AboveNext[y] \in Q
        <3>1. y \in nums /\ y \in Int /\ AboveNext[y] = y + 1
            BY DEF AboveDone, AboveNext
        <3>2. \A x \in k..((y + 1) - 1) : x \in k..(y - 1) \/ x = y
            BY <3>1
        <3> QED BY <3>1, <3>2
    <2> QED BY <2>1 DEF Kept
<1>2. k \in Q
    OBVIOUS
<1>4. PICK e \in Q \cap AboveDone(nums) : f[k] = AboveBase[e]
    <2> HIDE DEF Q
    <2>1. \A y \in Q : \E e \in Q \cap AboveDone(nums) : f[y] = AboveBase[e]
        BY <1>1, AboveEnds
    <2> QED BY <1>2, <2>1, Zenon
<1>5. f[k] = e /\ e \notin nums
    BY <1>4 DEF AboveBase, AboveDone
<1> QED BY <1>5

AboveLoop(nums) == CHOOSE f : IsAbove(f, nums)

LEMMA AboveLoopIs ==
    ASSUME NEW nums \in SUBSET Keys, NEW k \in Int
    PROVE  /\ AboveLoop(nums)[k] \in Int /\ AboveLoop(nums)[k] >= k /\ AboveLoop(nums)[k] \notin nums
           /\ \A x \in k..(AboveLoop(nums)[k] - 1) : x \in nums
<1>1. IsAbove(AboveLoop(nums), nums)
    BY AboveExists DEF AboveLoop
<1> QED BY <1>1, AboveIs

Counted(nums) == [q \in Nat \X nums |->
                     IF q[2] - 1 \in nums THEN q[1]
                     ELSE Max({q[1], AboveLoop(nums)[q[2] + 1] - q[2]})]

LEMMA CountedType ==
    ASSUME NEW nums \in SUBSET Keys
    PROVE  /\ Counted(nums) \in [Nat \X nums -> Nat]
           /\ \A n \in Nat, key \in nums :
                 key - 1 \notin nums =>
                    LET run == AboveLoop(nums)[key + 1] - key IN
                    /\ run \in Nat
                    /\ Counted(nums)[<<n, key>>] = IF n >= run THEN n ELSE run
<1>1. ASSUME NEW n \in Nat, NEW key \in nums
      PROVE  LET run == AboveLoop(nums)[key + 1] - key IN
             run \in Nat /\ Max({n, run}) \in Nat /\ Max({n, run}) = IF n >= run THEN n ELSE run
    <2> DEFINE run == AboveLoop(nums)[key + 1] - key
    <2>1. key \in Int
        BY WidthAssumption DEF Keys, I32Min
    <2>2. AboveLoop(nums)[key + 1] \in Int /\ AboveLoop(nums)[key + 1] >= key + 1
        BY <2>1, AboveLoopIs
    <2>3. run \in Nat
        BY <2>1, <2>2
    <2> HIDE DEF run
    <2>4. Max({n, run}) = IF n >= run THEN n ELSE run
        BY <2>3, MaxOfTwo
    <2>5. run \in Nat /\ Max({n, run}) \in Nat /\ Max({n, run}) = IF n >= run THEN n ELSE run
        BY <2>3, <2>4
    <2> QED BY <2>5 DEF run
<1>2. ASSUME NEW q \in Nat \X nums PROVE Counted(nums)[q] \in Nat
    <2>1. q[1] \in Nat /\ q[2] \in nums
        OBVIOUS
    <2>2. Max({q[1], AboveLoop(nums)[q[2] + 1] - q[2]}) \in Nat
        BY <1>1, <2>1
    <2> QED BY <2>1, <2>2 DEF Counted
<1>3. Counted(nums) = [q \in Nat \X nums |-> Counted(nums)[q]]
    BY DEF Counted
<1>4. Counted(nums) \in [Nat \X nums -> Nat]
    BY <1>2, <1>3
<1>5. ASSUME NEW n \in Nat, NEW key \in nums, key - 1 \notin nums
      PROVE  Counted(nums)[<<n, key>>] = Max({n, AboveLoop(nums)[key + 1] - key})
    BY <1>5 DEF Counted
<1> QED BY <1>1, <1>4, <1>5

Overflows(nums) == \E key \in nums : key - 1 < I32Min \/ AboveLoop(nums)[key] > I32Max

LEMMA ConsecutiveStates ==
    ASSUME NEW keys \in Seq(Keys), ~Overflows(ToSet(keys))
    PROVE  \E st : States(st, Nat, Counted(ToSet(keys)), 0, keys) /\ longest_consecutive(keys) = st[Len(keys)]
<1>0. keys \in Seq(ToSet(keys)) /\ DOMAIN keys = 1..Len(keys) /\ Len(keys) \in Nat
      /\ \A k \in 1..Len(keys) : keys[k] \in ToSet(keys)
    BY KeysOf
<1>1. Counted(ToSet(keys)) \in [Nat \X ToSet(keys) -> Nat]
    BY KeysOf, CountedType
<1>2. \A x \in Nat, y \in ToSet(keys) : Counted(ToSet(keys))[<<x, y>>] = (IF y - 1 \in ToSet(keys) THEN x ELSE Max({x, AboveLoop(ToSet(keys))[y + 1] - y}))
    BY DEF Counted
<1>3. 0 \in Nat
    OBVIOUS
<1> DEFINE Is(it) == it = [S \in SUBSET (DOMAIN keys) |->
                              IF S = {} THEN 0 ELSE (IF keys[Max(S)] - 1 \in ToSet(keys) THEN it[S \ {Max(S)}] ELSE Max({it[S \ {Max(S)}], AboveLoop(ToSet(keys))[keys[Max(S)] + 1] - keys[Max(S)]}))]
           fold == CHOOSE it : Is(it)
<1>4. \E it : Is(it)
    <2>1. PICK it \in [SUBSET (1..Len(keys)) -> Nat] : Folds(it, Nat, Counted(ToSet(keys)), 0, keys)
        BY <1>0, <1>1, <1>3, FoldExists, Zenon
    <2>2. ASSUME NEW S \in SUBSET (1..Len(keys)), S # {}
          PROVE  it[S] = (IF keys[Max(S)] - 1 \in ToSet(keys) THEN it[S \ {Max(S)}] ELSE Max({it[S \ {Max(S)}], AboveLoop(ToSet(keys))[keys[Max(S)] + 1] - keys[Max(S)]}))
        <3>1. Max(S) \in 1..Len(keys)
            BY <1>0, <2>2, LastPlace
        <3>2. it[S \ {Max(S)}] \in Nat /\ keys[Max(S)] \in ToSet(keys)
            BY <1>0, <3>1
        <3>3. it[S] = Counted(ToSet(keys))[<<it[S \ {Max(S)}], keys[Max(S)]>>]
            BY <2>1, <2>2, <3>2 DEF Folds
        <3> QED BY <1>2, <3>2, <3>3
    <2>3. Is(it)
        BY <1>0, <2>1, <2>2 DEF Folds
    <2> QED BY <2>3
<1>5. Is(fold)
    <2> HIDE DEF Is
    <2> QED BY <1>4
<1>6. longest_consecutive(keys) = fold[1..Len(keys)]
    <2>1. longest_consecutive(keys) = fold[DOMAIN keys]
        BY Zenon DEF longest_consecutive, AboveLoop, IsAbove, Overflows, FoldLeft, MapThenFoldSet
    <2> HIDE DEF fold
    <2> QED BY <1>0, <2>1
<1> HIDE DEF fold
<1>7. Folds(fold, Nat, Counted(ToSet(keys)), 0, keys)
    <2>1. fold[{}] = 0
        BY <1>5
    <2>2. ASSUME NEW S \in SUBSET (1..Len(keys)), S # {}, fold[S \ {Max(S)}] \in Nat
          PROVE  fold[S] = Counted(ToSet(keys))[<<fold[S \ {Max(S)}], keys[Max(S)]>>]
        <3>1. keys[Max(S)] \in ToSet(keys)
            BY <1>0, <2>2, LastPlace
        <3>2. fold[S] = (IF keys[Max(S)] - 1 \in ToSet(keys) THEN fold[S \ {Max(S)}] ELSE Max({fold[S \ {Max(S)}], AboveLoop(ToSet(keys))[keys[Max(S)] + 1] - keys[Max(S)]}))
            BY <1>0, <1>5, <2>2
        <3> QED BY <1>2, <2>2, <3>1, <3>2
    <2> QED BY <2>1, <2>2 DEF Folds
<1>8. LastState(fold[1..Len(keys)], Nat, Counted(ToSet(keys)), 0, keys)
    BY <1>0, <1>1, <1>3, <1>7, FoldStates, Zenon
<1> QED BY <1>6, <1>8 DEF LastState

LEMMA ConsecutiveOverflows ==
    ASSUME NEW keys \in Seq(Keys), Overflows(ToSet(keys))
    PROVE  longest_consecutive(keys) = Panic
BY Zenon DEF longest_consecutive, AboveLoop, IsAbove, Overflows

LEMMA OverflowsIff ==
    ASSUME NEW nums \in SUBSET Keys
    PROVE  Overflows(nums) <=> I32Min \in nums \/ I32Max \in nums
<1>0. /\ I32Min \in Int /\ I32Max \in Int
      /\ \A key \in nums : key \in Int /\ I32Min <= key /\ key <= I32Max
    BY WidthAssumption DEF Keys, I32Min
<1>1. ASSUME I32Min \in nums PROVE Overflows(nums)
    <2>1. I32Min - 1 < I32Min
        BY <1>0
    <2> QED BY <1>1, <2>1 DEF Overflows
<1>2. ASSUME I32Max \in nums PROVE Overflows(nums)
    <2>1. AboveLoop(nums)[I32Max] \in Int /\ AboveLoop(nums)[I32Max] >= I32Max /\ AboveLoop(nums)[I32Max] \notin nums
        BY <1>0, AboveLoopIs
    <2>2. AboveLoop(nums)[I32Max] > I32Max
        BY <1>0, <1>2, <2>1
    <2> QED BY <1>2, <2>2 DEF Overflows
<1>3. ASSUME Overflows(nums), I32Min \notin nums PROVE I32Max \in nums
    <2>1. PICK key \in nums : key - 1 < I32Min \/ AboveLoop(nums)[key] > I32Max
        BY <1>3 DEF Overflows
    <2>2. key \in Int /\ I32Min < key /\ key <= I32Max
        BY <1>0, <1>3
    <2>3. AboveLoop(nums)[key] \in Int /\ \A x \in key..(AboveLoop(nums)[key] - 1) : x \in nums
        BY <2>2, AboveLoopIs
    <2>4. AboveLoop(nums)[key] > I32Max
        BY <1>0, <2>1, <2>2
    <2>5. I32Max \in key..(AboveLoop(nums)[key] - 1)
        BY <1>0, <2>2, <2>3, <2>4
    <2> QED BY <2>3, <2>5
<1> QED BY <1>1, <1>2, <1>3

\* longest_consecutive (lc_128) returns the length of the longest run of
\* consecutive integers, whatever the order of the keys, as long as no end of i32
\* is among them; where one is, a build that checks for overflow panics.
THEOREM LongestConsecutiveIsLongest ==
    \A keys \in Seq(Keys) :
        IF I32Min \in ToSet(keys) \/ I32Max \in ToSet(keys)
        THEN longest_consecutive(keys) = Panic
        ELSE IsLongestRun(keys, longest_consecutive(keys))
<1> SUFFICES ASSUME NEW keys \in Seq(Keys)
             PROVE  IF I32Min \in ToSet(keys) \/ I32Max \in ToSet(keys)
                    THEN longest_consecutive(keys) = Panic
                    ELSE IsLongestRun(keys, longest_consecutive(keys))
    OBVIOUS
<1> DEFINE nums == ToSet(keys)
           n == Len(keys)
<1>1. /\ nums \in SUBSET Keys /\ keys \in Seq(nums) /\ I32Min \in Int /\ I32Max \in Int
      /\ \A x \in nums : x \in Int /\ I32Min <= x /\ x <= I32Max
    BY KeysOf
<1>2. CASE Overflows(nums)
    BY <1>1, <1>2, ConsecutiveOverflows, OverflowsIff
<1>3. CASE ~Overflows(nums)
    <2>1. I32Min \notin nums /\ I32Max \notin nums
        BY <1>1, <1>3, OverflowsIff
    <2>2. PICK st : States(st, Nat, Counted(nums), 0, keys) /\ longest_consecutive(keys) = st[n]
        BY <1>3, ConsecutiveStates
    <2>3. n \in Nat /\ (\A k \in 1..n : keys[k] \in nums) /\ \A x \in nums : \E k \in 1..n : keys[k] = x
        BY ToSetIs
    <2>4. /\ st[0] = 0 /\ \A k \in 0..n : st[k] \in Nat
          /\ \A k \in 1..n : st[k] = Counted(nums)[<<st[k - 1], keys[k]>>]
        BY <2>2 DEF States
    <2> HIDE DEF n, nums
    <2> DEFINE Inv(k) == /\ st[k] = 0 \/ \E a \in nums, b \in nums : Run(nums, a, b) /\ st[k] = b - a + 1
                         /\ \A j \in 1..k : keys[j] - 1 \notin nums =>
                                AboveLoop(nums)[keys[j] + 1] - keys[j] <= st[k]
               T == {k \in Nat : k \in 0..n => Inv(k)}
    <2>5. ASSUME NEW k \in Nat, k + 1 \in 0..n, Inv(k) PROVE Inv(k + 1)
        <3> DEFINE key == keys[k + 1]
                   above == AboveLoop(nums)[key + 1]
        <3>1. k + 1 \in 1..n /\ k \in 0..n /\ (k + 1) - 1 = k
            BY <2>3, <2>5
        <3>2. key \in nums /\ key \in Int /\ st[k] \in Nat /\ st[k + 1] \in Nat
            BY <1>1, <2>3, <2>4, <3>1
        <3>3. st[k + 1] = Counted(nums)[<<st[k], key>>]
            BY <2>4, <3>1
        <3>4. above \in Int /\ above >= key + 1 /\ \A x \in (key + 1)..(above - 1) : x \in nums
            <4>1. key + 1 \in Int
                BY <3>2
            <4> HIDE DEF key
            <4> QED BY <1>1, <4>1, AboveLoopIs
        <3>5. CASE key - 1 \in nums
            <4>1. st[k + 1] = st[k]
                BY <3>2, <3>3, <3>5 DEF Counted
            <4>2. \A j \in 1..(k + 1) : keys[j] - 1 \notin nums => j \in 1..k
                BY <3>5
            <4> HIDE DEF key, above
            <4> QED BY <2>5, <4>1, <4>2
        <3>6. CASE key - 1 \notin nums
            <4>1. above - key \in Nat /\ st[k + 1] = IF st[k] >= above - key THEN st[k] ELSE above - key
                <5> DEFINE m == st[k]
                <5>1. m \in Nat /\ key \in nums /\ key - 1 \notin nums
                    BY <3>2, <3>6
                <5> HIDE DEF key, m
                <5>2. /\ AboveLoop(nums)[key + 1] - key \in Nat
                      /\ Counted(nums)[<<m, key>>] = IF m >= AboveLoop(nums)[key + 1] - key
                                                     THEN m ELSE AboveLoop(nums)[key + 1] - key
                    BY <1>1, <5>1, CountedType
                <5> QED BY <3>3, <5>2 DEF m
            <4>2. Run(nums, key, above - 1) /\ above - 1 \in nums /\ above - key = (above - 1) - key + 1
                <5>1. \A x \in key..(above - 1) : x = key \/ x \in (key + 1)..(above - 1)
                    BY <3>2, <3>4
                <5>2. key <= above - 1 /\ above - 1 \in key..(above - 1)
                    BY <3>2, <3>4
                <5>3. \A x \in key..(above - 1) : x \in nums
                    BY <3>2, <3>4, <5>1
                <5> QED BY <3>2, <3>4, <5>2, <5>3 DEF Run
            <4>3. st[k + 1] = 0 \/ \E a \in nums, b \in nums : Run(nums, a, b) /\ st[k + 1] = b - a + 1
                <5> HIDE DEF key, above
                <5>1. CASE st[k + 1] = st[k]
                    BY <2>5, <5>1
                <5>2. CASE st[k + 1] = above - key
                    BY <3>2, <4>2, <5>2
                <5> QED BY <4>1, <5>1, <5>2
            <4>4. ASSUME NEW j \in 1..(k + 1), keys[j] - 1 \notin nums
                  PROVE  AboveLoop(nums)[keys[j] + 1] - keys[j] <= st[k + 1]
                <5>1. CASE j = k + 1
                    <6>1. above - key <= st[k + 1]
                        <7> HIDE DEF above, key
                        <7> QED BY <3>2, <4>1
                    <6> QED BY <5>1, <6>1
                <5>2. CASE j # k + 1
                    <6>1. j \in 1..k /\ j \in 1..n
                        <7>1. k \in Nat /\ j \in 1..(k + 1) /\ k + 1 <= n /\ n \in Nat
                            BY <2>3, <2>5, <3>1, <4>4
                        <7> QED BY <5>2, <7>1
                    <6> DEFINE run == AboveLoop(nums)[keys[j] + 1] - keys[j]
                    <6>2. run <= st[k]
                        BY <2>5, <4>4, <6>1
                    <6>3. run \in Int
                        <7> DEFINE y == keys[j]
                        <7>1. y \in Int /\ y + 1 \in Int
                            BY <1>1, <2>3, <6>1
                        <7> HIDE DEF y
                        <7>2. AboveLoop(nums)[y + 1] \in Int
                            BY <1>1, <7>1, AboveLoopIs
                        <7>3. AboveLoop(nums)[y + 1] - y \in Int
                            BY <7>1, <7>2
                        <7> QED BY <7>3 DEF y
                    <6> HIDE DEF run, above, key
                    <6>4. run <= st[k + 1]
                        BY <3>2, <4>1, <6>2, <6>3
                    <6> QED BY <6>4 DEF run
                <5> QED BY <5>1, <5>2
            <4> QED BY <4>3, <4>4
        <3> QED BY <3>5, <3>6
    <2>6. Inv(0)
        BY <2>4
    <2> HIDE DEF Inv
    <2>7. T = Nat
        <3>1. 0 \in T /\ T \in SUBSET Nat
            BY <2>6
        <3>2. ASSUME NEW k \in T PROVE k + 1 \in T
            <4>1. k + 1 \in 0..n => k \in 0..n
                BY <2>3
            <4> QED BY <2>5, <4>1
        <3> HIDE DEF T
        <3> QED BY <3>1, <3>2, SetInduction
    <2>8. Inv(n)
        BY <2>3, <2>7
    <2>9. ASSUME NEW a \in nums, NEW b \in nums, Run(nums, a, b), a - 1 \notin nums PROVE b - a + 1 <= st[n]
        <3>1. PICK j \in 1..n : keys[j] = a
            BY <2>3
        <3> DEFINE above == AboveLoop(nums)[a + 1]
        <3>2. above - a <= st[n]
            BY <2>8, <2>9, <3>1 DEF Inv
        <3>3. a \in Int /\ b \in Int /\ a <= b /\ \A x \in a..b : x \in nums
            BY <1>1, <2>9 DEF Run
        <3>4. above \in Int /\ above >= a + 1 /\ above \notin nums
            BY <1>1, <3>3, AboveLoopIs
        <3> HIDE DEF above
        <3>5. above > b
            BY <3>3, <3>4
        <3>6. st[n] \in Nat
            BY <2>3, <2>4
        <3> QED BY <3>2, <3>3, <3>4, <3>5, <3>6
    <2>10. LongestRun(nums) = st[n]
        <3>1. st[n] \in Nat /\ (st[n] = 0 \/ \E a \in nums, b \in nums : Run(nums, a, b) /\ st[n] = b - a + 1)
            BY <2>3, <2>4, <2>8 DEF Inv
        <3> DEFINE x == st[n]
        <3>2. \A a \in nums, b \in nums : Run(nums, a, b) /\ a - 1 \notin nums => b - a + 1 <= x
            BY <2>9
        <3> HIDE DEF x
        <3>3. LongestRun(nums) = x
            BY <1>1, <3>1, <3>2, LongestRunIs DEF x
        <3> QED BY <3>3 DEF x
    <2> QED BY <2>1, <2>2, <2>10 DEF IsLongestRun, nums
<1> QED BY <1>2, <1>3

-----------------------------------------------------------------------------
(* List[index] *)

\* The remainder of Rust differs from the number by a multiple
LEMMA RemIs ==
    ASSUME NEW len \in Nat \ {0}, NEW a \in Int
    PROVE  /\ Rem(a, len) \in Int /\ -len < Rem(a, len) /\ Rem(a, len) < len
           /\ a >= 0 => Rem(a, len) >= 0
           /\ \E q \in Int : a = len * q + Rem(a, len)
<1>1. CASE a >= 0
    <2> DEFINE q == a \div len
               x == a % len
    <2>1. q \in Int /\ x \in 0..(len - 1) /\ a = len * q + x
        BY <1>1, Division
    <2>2. Rem(a, len) = x
        BY <1>1 DEF Rem
    <2> HIDE DEF q, x
    <2>3. \E p \in Int : a = len * p + x
        BY <2>1
    <2>4. x \in Int /\ -len < x /\ x < len /\ x >= 0
        BY <2>1
    <2> QED BY <2>2, <2>3, <2>4
<1>2. CASE a < 0
    <2> DEFINE b == -a
               q == b \div len
               x == b % len
    <2>1. b \in Int /\ a = -b
        OBVIOUS
    <2>2. q \in Int /\ x \in 0..(len - 1) /\ b = len * q + x
        <3> HIDE DEF b
        <3> QED BY <2>1, Division
    <2>3. Rem(a, len) = -x
        BY <1>2 DEF Rem
    <2> HIDE DEF b, q, x
    <2>4. -q \in Int /\ a = len * (-q) + (-x)
        BY <2>1, <2>2
    <2>5. -x \in Int /\ -len < -x /\ -x < len
        BY <2>2
    <2> QED BY <1>2, <2>3, <2>4, <2>5
<1> QED BY <1>1, <1>2

\* index gives an item for every number, and its places are counted from the
\* start for numbers that are not negative, from the end for those that are.
THEOREM IndexIsIndex ==
    \A S : \A list \in Seq(S), i \in Int : IsIndex(list, i, index(list, i))
<1> SUFFICES ASSUME NEW S, NEW list \in Seq(S), NEW i \in Int PROVE IsIndex(list, i, index(list, i))
    OBVIOUS
<1>1. CASE list = <<>>
    <2>1. Len(list) = 0
        BY <1>1
    <2> QED BY <1>1, <2>1 DEF IsIndex, index
<1>2. CASE list # <<>>
    <2> DEFINE len == Len(list)
               r == Rem(i, len)
               k == Rem(len + r, len)
    <2>1. len \in Nat \ {0} /\ DOMAIN list = 1..len
        BY <1>2
    <2>2. index(list, i) = list[k + 1]
        BY <2>1 DEF index
    <2> HIDE DEF len
    <2>3. r \in Int /\ -len < r
        BY <2>1, RemIs
    <2>4. PICK p \in Int : i = len * p + r
        BY <2>1, RemIs
    <2> HIDE DEF r
    <2>5. len + r \in Int /\ len + r >= 0
        BY <2>1, <2>3
    <2>6. k \in Int /\ 0 <= k /\ k < len
        BY <2>1, <2>5, RemIs
    <2>7. PICK q \in Int : len + r = len * q + k
        BY <2>1, <2>5, RemIs
    <2> HIDE DEF k
    <2>8. i - k = len * (p + q - 1) + 0
        BY <2>1, <2>3, <2>4, <2>6, <2>7
    <2>9. (i - k) % len = 0
        <3>1. p + q - 1 \in Int /\ 0 \in 0..(len - 1)
            BY <2>1
        <3> QED BY <2>1, <2>8, <3>1, Multiple
    <2>10. k + 1 \in 1..len /\ (k + 1) - 1 = k
        BY <2>1, <2>6
    <2>11. \E j \in DOMAIN list : index(list, i) = list[j] /\ (i - (j - 1)) % len = 0
        BY <2>1, <2>2, <2>9, <2>10
    <2> QED BY <1>2, <2>11 DEF IsIndex, len
<1> QED BY <1>1, <1>2

-----------------------------------------------------------------------------
(* MyString *)

\* A string is held in place when it fits, and reads the same wherever it is
\* held.  The length is kept in a byte, which MaxLenAssumption justifies.
THEOREM MyStringIsMyString ==
    \A s \in Seq(Int) : IsMyString(s, MyString(s))
<1> SUFFICES ASSUME NEW s \in Seq(Int) PROVE IsMyString(s, MyString(s))
    OBVIOUS
<1>0. MAX_LEN \in Nat /\ MAX_LEN <= 255 /\ Len(s) \in Nat
    BY MaxLenAssumption
<1>1. CASE Len(s) <= MAX_LEN
    <2> DEFINE data == [k \in 1..MAX_LEN |-> IF k <= Len(s) THEN s[k] ELSE 0]
    <2>1. Len(s) % 256 = Len(s)
        <3> DEFINE n == Len(s)
        <3>1. n \in Nat /\ n <= MAX_LEN
            BY <1>0, <1>1
        <3> HIDE DEF n, data
        <3>2. n % 256 = n
            BY <1>0, <3>1
        <3> QED BY <3>2 DEF n
    <2>2. MyString(s) = [custom |-> [len |-> Len(s), data |-> data]]
        BY <1>1, <2>1 DEF MyString, MiniString
    <2>3. data \in Seq(Int) /\ Len(data) = MAX_LEN
        <3>1. \A k \in 1..MAX_LEN : data[k] \in Int
            OBVIOUS
        <3>2. data = [k \in 1..MAX_LEN |-> data[k]]
            OBVIOUS
        <3> HIDE DEF data
        <3> QED BY <1>0, <3>1, <3>2, FunctionIsSequence
    <2>4. \A k \in 1..Len(s) : data[k] = s[k]
        BY <1>0, <1>1
    <2> HIDE DEF data
    <2>5. SubSeq(data, 1, Len(s)) = s
        <3> DEFINE t == SubSeq(data, 1, Len(s))
        <3>1. t \in Seq(Int) /\ Len(t) = Len(s) /\ \A k \in 1..Len(s) : t[k] = data[k]
            BY <1>0, <1>1, <2>3, TakeAt
        <3> HIDE DEF t
        <3>2. t = s
            BY <2>4, <3>1, SeqEqual
        <3> QED BY <3>2 DEF t
    <2>6. deref(MyString(s)) = s /\ "custom" \in DOMAIN MyString(s)
        BY <2>2, <2>5 DEF deref
    <2> QED BY <1>1, <2>6 DEF IsMyString
<1>2. CASE ~(Len(s) <= MAX_LEN)
    <2>1. MyString(s) = [standard |-> s]
        BY <1>2 DEF MyString
    <2>2. "custom" \notin DOMAIN MyString(s)
        BY <2>1
    <2>3. MyString(s).standard = s
        BY <2>1
    <2> QED BY <1>2, <2>2, <2>3 DEF IsMyString, deref
<1> QED BY <1>1, <1>2

-----------------------------------------------------------------------------
(* WindowIter *)

Lends(n) == [lent : Seq(Int), pos : 0..n]

LendDone(n) == {w \in Lends(n) : w.pos = n \/ w.pos + 2 > Len(w.lent)}

Lent(writes, w) == [lent |-> [w.lent EXCEPT ![w.pos + 1] = writes[w.pos + 1]], pos |-> w.pos + 1]

LendBase(n) == [w \in Lends(n) |-> IF w.pos = n THEN w.lent ELSE "panic"]

LendNext(writes) == [w \in Lends(Len(writes)) |-> IF w \in LendDone(Len(writes)) THEN w ELSE Lent(writes, w)]

LendLeft(n) == [w \in Lends(n) |-> n - w.pos]

IsLend(f, writes) ==
    f = [w \in Lends(Len(writes)) |->
            IF w.pos = Len(writes) THEN w.lent
            ELSE IF w.pos + 2 > Len(w.lent) THEN "panic"
            ELSE f[Lent(writes, w)]]

LEMMA LentIs ==
    ASSUME NEW writes \in Seq(Int), NEW w \in Lends(Len(writes)) \ LendDone(Len(writes))
    PROVE  /\ Lent(writes, w) \in Lends(Len(writes))
           /\ Lent(writes, w).pos = w.pos + 1 /\ w.pos < Len(writes) /\ w.pos + 1 < Len(w.lent)
           /\ Len(Lent(writes, w).lent) = Len(w.lent)
           /\ \A k \in 1..Len(w.lent) :
                 Lent(writes, w).lent[k] = IF k = w.pos + 1 THEN writes[k] ELSE w.lent[k]
<1> DEFINE lent == w.lent
           pos == w.pos
           new == [lent EXCEPT ![pos + 1] = writes[pos + 1]]
<1>1. /\ lent \in Seq(Int) /\ pos \in 0..Len(writes) /\ pos # Len(writes) /\ ~(pos + 2 > Len(lent))
      /\ Len(writes) \in Nat /\ Len(lent) \in Nat
    BY DEF Lends, LendDone
<1>2. Lent(writes, w) = [lent |-> new, pos |-> pos + 1]
    BY DEF Lent
<1> HIDE DEF lent, pos
<1>3. pos + 1 \in 1..Len(writes) /\ pos + 1 \in 1..Len(lent) /\ pos + 1 \in 0..Len(writes) /\ pos + 1 < Len(lent)
    BY <1>1
<1>4. writes[pos + 1] \in Int
    BY <1>3
<1>5. new \in Seq(Int) /\ Len(new) = Len(lent)
    BY <1>1, <1>3, <1>4
<1>6. \A k \in 1..Len(lent) : new[k] = IF k = pos + 1 THEN writes[k] ELSE lent[k]
    BY <1>1, <1>3
<1> HIDE DEF new
<1>7. Lent(writes, w) \in Lends(Len(writes)) /\ Lent(writes, w).lent = new /\ Lent(writes, w).pos = pos + 1
    BY <1>2, <1>3, <1>5 DEF Lends
<1> QED BY <1>1, <1>3, <1>5, <1>6, <1>7 DEF lent, pos

LEMMA LendIsLoop ==
    ASSUME NEW writes \in Seq(Int)
    PROVE  IsLoop(Lends(Len(writes)), LendDone(Len(writes)), LendNext(writes), LendLeft(Len(writes)))
<1> DEFINE n == Len(writes)
<1>1. LendDone(n) \in SUBSET Lends(n) /\ n \in Nat
    BY DEF LendDone
<1>2. LendNext(writes) \in [Lends(n) -> Lends(n)]
    BY LentIs DEF LendNext
<1>3. \A w \in Lends(n) : n - w.pos \in Nat
    BY <1>1 DEF Lends
<1>4. LendLeft(n) \in [Lends(n) -> Nat] /\ \A w \in Lends(n) : LendLeft(n)[w] = n - w.pos
    BY <1>3 DEF LendLeft
<1>5. ASSUME NEW w \in Lends(n) \ LendDone(n) PROVE LendLeft(n)[LendNext(writes)[w]] < LendLeft(n)[w]
    <2> DEFINE v == Lent(writes, w)
    <2>1. v \in Lends(n) /\ v.pos = w.pos + 1 /\ LendNext(writes)[w] = v
        BY LentIs DEF LendNext
    <2> HIDE DEF v
    <2>2. n - v.pos < n - w.pos
        BY <1>1, <2>1 DEF Lends
    <2> QED BY <1>4, <2>1, <2>2
<1> QED BY <1>1, <1>2, <1>4, <1>5 DEF IsLoop

LEMMA LendEquation ==
    ASSUME NEW f, NEW writes \in Seq(Int)
    PROVE  IsLend(f, writes) <=>
              /\ f = [w \in Lends(Len(writes)) |-> f[w]]
              /\ Loops(f, Lends(Len(writes)), LendDone(Len(writes)), LendBase(Len(writes)), LendNext(writes))
<1>1. ASSUME NEW w \in Lends(Len(writes))
      PROVE  (IF w.pos = Len(writes) THEN w.lent
              ELSE IF w.pos + 2 > Len(w.lent) THEN "panic"
              ELSE f[Lent(writes, w)])
                = IF w \in LendDone(Len(writes)) THEN LendBase(Len(writes))[w] ELSE f[LendNext(writes)[w]]
    BY DEF LendDone, LendBase, LendNext
<1> QED BY <1>1 DEF IsLend, Loops

LEMMA LendExists ==
    ASSUME NEW writes \in Seq(Int)
    PROVE  \E f : IsLend(f, writes)
<1> DEFINE R == Seq(Int) \cup {"panic"}
<1>1. LendBase(Len(writes)) \in [Lends(Len(writes)) -> R]
    BY DEF LendBase, Lends
<1>2. IsLoop(Lends(Len(writes)), LendDone(Len(writes)), LendNext(writes), LendLeft(Len(writes)))
    BY LendIsLoop
<1> HIDE DEF R
<1>3. PICK g \in [Lends(Len(writes)) -> R] :
          Loops(g, Lends(Len(writes)), LendDone(Len(writes)), LendBase(Len(writes)), LendNext(writes))
    BY <1>1, <1>2, LoopExists
<1>4. IsLend(g, writes)
    BY <1>3, LendEquation
<1> QED BY <1>4

\* Every write is to a place of its own, and the code panics when there is no
\* window for it.
THEOREM WnextIsLent ==
    \A buf \in Seq(Int), writes \in Seq(Int) : IsLent(buf, writes, wnext(buf, writes))
<1> SUFFICES ASSUME NEW buf \in Seq(Int), NEW writes \in Seq(Int)
             PROVE  IsLent(buf, writes, wnext(buf, writes))
    OBVIOUS
<1> DEFINE f == CHOOSE g : IsLend(g, writes)
           n == Len(writes)
           start == [lent |-> buf, pos |-> 0]
           Q == {w \in Lends(n) : /\ Len(w.lent) = Len(buf)
                                  /\ w.pos = 0 \/ w.pos < Len(buf)
                                  /\ \A k \in 1..Len(buf) :
                                        w.lent[k] = IF k <= w.pos THEN writes[k] ELSE buf[k]}
<1>1. wnext(buf, writes) = f[start]
    BY Zenon DEF wnext, IsLend, Lends, Lent
<1>2. IsLend(f, writes)
    BY LendExists
<1> HIDE DEF f
<1>3. Loops(f, Lends(n), LendDone(n), LendBase(n), LendNext(writes))
    BY <1>2, LendEquation
<1>4. Kept(Q, Lends(n), LendDone(n), LendNext(writes))
    <2>1. ASSUME NEW w \in Q \ LendDone(n) PROVE LendNext(writes)[w] \in Q
        <3> DEFINE v == Lent(writes, w)
        <3>1. /\ v \in Lends(n) /\ v.pos = w.pos + 1 /\ w.pos + 1 < Len(w.lent) /\ Len(v.lent) = Len(w.lent)
              /\ \A k \in 1..Len(w.lent) : v.lent[k] = IF k = w.pos + 1 THEN writes[k] ELSE w.lent[k]
            BY LentIs
        <3>2. LendNext(writes)[w] = v
            BY DEF LendNext
        <3> HIDE DEF v
        <3>3. w.pos \in Nat
            BY DEF Lends
        <3>4. \A k \in 1..Len(buf) : v.lent[k] = IF k <= v.pos THEN writes[k] ELSE buf[k]
            BY <3>1, <3>3
        <3> QED BY <3>1, <3>2, <3>4
    <2> QED BY <2>1 DEF Kept
<1>5. start \in Q
    <2>1. start \in Lends(n) /\ start.pos = 0 /\ start.lent = buf
        BY DEF Lends
    <2> HIDE DEF start
    <2> QED BY <2>1
<1>6. PICK e \in Q \cap LendDone(n) : f[start] = LendBase(n)[e]
    <2>1. IsLoop(Lends(n), LendDone(n), LendNext(writes), LendLeft(n))
        BY LendIsLoop
    <2> HIDE DEF start, Q, n
    <2> QED BY <1>3, <1>4, <1>5, <2>1, LoopEnds
<1> DEFINE lent == e.lent
           pos == e.pos
<1>7. /\ lent \in Seq(Int) /\ pos \in 0..n /\ n \in Nat /\ Len(lent) = Len(buf) /\ (pos = 0 \/ pos < Len(buf))
      /\ \A k \in 1..Len(buf) : lent[k] = IF k <= pos THEN writes[k] ELSE buf[k]
      /\ pos = n \/ pos + 2 > Len(lent)
      /\ f[start] = IF pos = n THEN lent ELSE "panic"
    BY <1>6 DEF LendDone, Lends, LendBase
<1> HIDE DEF lent, pos, start
<1>8. Len(buf) \in Nat /\ (writes # <<>> <=> n # 0)
    OBVIOUS
<1>11. n \in Nat
    OBVIOUS
<1>9. CASE pos = n
    <2>1. n <= Len(buf) /\ ~(writes # <<>> /\ n >= Len(buf))
        BY <1>7, <1>8, <1>9
    <2> DEFINE rest == SubSeq(buf, n + 1, Len(buf))
    <2>2. rest \in Seq(Int) /\ Len(rest) = Len(buf) - n /\ \A k \in 1..(Len(buf) - n) : rest[k] = buf[n + k]
        <3>1. n \in 0..Len(buf)
            BY <1>8, <1>11, <2>1
        <3> HIDE DEF n
        <3> QED BY <3>1, DropAt
    <2> HIDE DEF rest
    <2>3. /\ writes \o rest \in Seq(Int) /\ Len(writes \o rest) = n + Len(rest)
          /\ \A k \in 1..n : (writes \o rest)[k] = writes[k]
          /\ \A k \in 1..Len(rest) : (writes \o rest)[n + k] = rest[k]
        BY <2>2, ConcatAt, SMTT(30)
    <2> DEFINE all == writes \o rest
    <2>4. ASSUME NEW k \in 1..Len(buf) PROVE all[k] = lent[k]
        <3>1. CASE k <= n
            BY <1>7, <1>9, <2>3, <3>1
        <3>2. CASE ~(k <= n)
            <4> DEFINE j == k - n
            <4>0. n \in Nat /\ n <= Len(buf) /\ Len(buf) \in Nat /\ k > n
                BY <1>8, <1>11, <2>1, <3>2
            <4> HIDE DEF n
            <4>1. j \in 1..(Len(buf) - n) /\ n + j = k
                BY <4>0
            <4> HIDE DEF j
            <4>2. all[n + j] = rest[j] /\ rest[j] = buf[n + j]
                BY <2>2, <2>3, <4>1
            <4> QED BY <1>7, <1>9, <3>2, <4>1, <4>2
        <3> QED BY <3>1, <3>2
    <2>5. all \in Seq(Int) /\ Len(all) = Len(buf)
        BY <1>7, <1>8, <2>2, <2>3
    <2> HIDE DEF all
    <2>6. lent = all
        BY <1>7, <2>4, <2>5, SeqEqual
    <2> QED BY <1>1, <1>7, <1>9, <2>1, <2>6 DEF IsLent, all, rest
<1>10. CASE pos # n
    <2>1. writes # <<>> /\ n >= Len(buf)
        BY <1>7, <1>8, <1>10
    <2> QED BY <1>1, <1>7, <1>10, <2>1 DEF IsLent
<1> QED BY <1>9, <1>10

-----------------------------------------------------------------------------
(* Museum *)

\* How many of the first n of s are x
CountTo(s, x, n) == Cardinality({k \in 1..n : s[k] = x})

LEMMA CountToIs ==
    ASSUME NEW s, NEW x, NEW n \in Nat
    PROVE  /\ CountTo(s, x, 0) = 0
           /\ CountTo(s, x, n) \in Nat
           /\ s[n + 1] = x => CountTo(s, x, n + 1) = CountTo(s, x, n) + 1
           /\ s[n + 1] # x => CountTo(s, x, n + 1) = CountTo(s, x, n)
<1> DEFINE K(m) == {k \in 1..m : s[k] = x}
<1>1. CountTo(s, x, 0) = 0
    <2>1. {k \in 1..0 : s[k] = x} = {}
        OBVIOUS
    <2> QED BY <2>1, FS_EmptySet DEF CountTo
<1>2. IsFiniteSet(K(n))
    <2>1. IsFiniteSet(1..n) /\ K(n) \in SUBSET (1..n)
        BY FS_Interval
    <2> QED BY <2>1, FS_Subset
<1>3. Cardinality(K(n)) \in Nat
    BY <1>2, FS_CardinalityType
<1>4. \A k \in 1..(n + 1) : k \in 1..n \/ k = n + 1
    OBVIOUS
<1>5. n + 1 \notin 1..n /\ n + 1 \in 1..(n + 1) /\ \A k \in 1..n : k \in 1..(n + 1)
    OBVIOUS
<1>6. CASE s[n + 1] = x
    <2>1. K(n + 1) = K(n) \cup {n + 1} /\ n + 1 \notin K(n)
        BY <1>4, <1>5, <1>6
    <2> HIDE DEF K
    <2>2. Cardinality(K(n + 1)) = Cardinality(K(n)) + 1
        BY <1>2, <2>1, FS_AddElement
    <2> QED BY <1>1, <1>3, <1>6, <2>2 DEF CountTo, K
<1>7. CASE s[n + 1] # x
    <2>1. K(n + 1) = K(n)
        BY <1>4, <1>5, <1>7
    <2> HIDE DEF K
    <2> QED BY <1>1, <1>3, <1>7, <2>1 DEF CountTo, K
<1> QED BY <1>6, <1>7

LEMMA CountIs ==
    ASSUME NEW S, NEW s \in Seq(S), NEW n \in 0..Len(s), NEW x
    PROVE  Count(SubSeq(s, 1, n), x) = CountTo(s, x, n)
<1> DEFINE t == SubSeq(s, 1, n)
<1>1. t \in Seq(S) /\ Len(t) = n /\ \A k \in 1..n : t[k] = s[k]
    BY TakeAt
<1> HIDE DEF t
<1>2. DOMAIN t = 1..n
    BY <1>1
<1>3. {k \in DOMAIN t : t[k] = x} = {k \in 1..n : s[k] = x}
    BY <1>1, <1>2
<1> QED BY <1>3 DEF Count, CountTo, t

LEMMA CountsAgree ==
    ASSUME NEW s, NEW t, NEW n \in Nat, NEW x, \A k \in 1..n : s[k] = t[k]
    PROVE  CountTo(s, x, n) = CountTo(t, x, n)
BY DEF CountTo

MuseumCalls == {"aquire", "drop"}

Museums == [permits : Nat, given : Seq({"None", "Ticket"})]

MuseumDoes == [q \in Museums \X MuseumCalls |->
    IF q[2] = "drop" THEN [q[1] EXCEPT !.permits = @ + 1]
    ELSE IF q[1].permits = 0 THEN [q[1] EXCEPT !.given = Append(@, "None")]
    ELSE [permits |-> q[1].permits - 1, given |-> Append(q[1].given, "Ticket")]]

LEMMA MuseumStep ==
    ASSUME NEW m \in Museums, NEW c \in MuseumCalls
    PROVE  LET w == MuseumDoes[<<m, c>>] IN
           /\ w \in Museums
           /\ c = "drop" => w.permits = m.permits + 1 /\ w.given = m.given
           /\ c = "aquire" => \/ /\ m.permits = 0 /\ w.permits = 0
                                 /\ w.given = Append(m.given, "None")
                              \/ /\ w.permits = m.permits - 1 /\ m.permits > 0
                                 /\ w.given = Append(m.given, "Ticket")
<1> DEFINE w == MuseumDoes[<<m, c>>]
<1>1. m = [permits |-> m.permits, given |-> m.given] /\ m.permits \in Nat /\ m.given \in Seq({"None", "Ticket"})
    BY DEF Museums
<1>0. \A s \in Seq({"None", "Ticket"}) : /\ Append(s, "None") \in Seq({"None", "Ticket"})
                                         /\ Append(s, "Ticket") \in Seq({"None", "Ticket"})
    OBVIOUS
<1>2. w = IF c = "drop" THEN [m EXCEPT !.permits = @ + 1]
          ELSE IF m.permits = 0 THEN [m EXCEPT !.given = Append(@, "None")]
          ELSE [permits |-> m.permits - 1, given |-> Append(m.given, "Ticket")]
    BY DEF MuseumDoes
<1> HIDE DEF w
<1>3. CASE c = "drop"
    <2>1. w = [permits |-> m.permits + 1, given |-> m.given]
        BY <1>1, <1>2, <1>3
    <2>2. w \in Museums
        BY <1>1, <2>1 DEF Museums
    <2> QED BY <1>3, <2>1, <2>2 DEF w
<1>4. CASE c = "aquire" /\ m.permits = 0
    <2>1. w = [permits |-> m.permits, given |-> Append(m.given, "None")]
        BY <1>1, <1>2, <1>4
    <2>2. w \in Museums
        BY <1>0, <1>1, <2>1 DEF Museums
    <2> QED BY <1>4, <2>1, <2>2 DEF w
<1>5. CASE c = "aquire" /\ m.permits # 0
    <2>1. w = [permits |-> m.permits - 1, given |-> Append(m.given, "Ticket")]
        BY <1>2, <1>5
    <2>2. w \in Museums
        <3>1. m.permits - 1 \in Nat
            BY <1>1, <1>5
        <3> QED BY <1>0, <1>1, <2>1, <3>1 DEF Museums
    <2> QED BY <1>1, <1>5, <2>1, <2>2 DEF w
<1> QED BY <1>3, <1>4, <1>5 DEF MuseumCalls

LEMMA MuseumStates ==
    ASSUME NEW total \in Nat, NEW calls \in Seq(MuseumCalls)
    PROVE  \E st : States(st, Museums, MuseumDoes, [permits |-> total, given |-> <<>>], calls) /\ Museum(total, calls) = st[Len(calls)]
<1>0. calls \in Seq(MuseumCalls) /\ DOMAIN calls = 1..Len(calls) /\ Len(calls) \in Nat
      /\ \A k \in 1..Len(calls) : calls[k] \in MuseumCalls
    OBVIOUS
<1>1. MuseumDoes \in [Museums \X MuseumCalls -> Museums]
    
    <2>1. ASSUME NEW m \in Museums, NEW c \in MuseumCalls PROVE MuseumDoes[<<m, c>>] \in Museums
        BY MuseumStep
    <2>2. \A q \in Museums \X MuseumCalls : q = <<q[1], q[2]>> /\ q[1] \in Museums /\ q[2] \in MuseumCalls
        OBVIOUS
    <2>3. \A q \in Museums \X MuseumCalls : MuseumDoes[q] \in Museums
        BY <2>1, <2>2, Zenon
    <2>4. DOMAIN MuseumDoes = Museums \X MuseumCalls /\ MuseumDoes = [q \in DOMAIN MuseumDoes |-> MuseumDoes[q]]
        BY DEF MuseumDoes
    <2> QED BY <2>3, <2>4
<1>2. \A x \in Museums, y \in MuseumCalls : MuseumDoes[<<x, y>>] = (IF y = "drop" THEN [x EXCEPT !.permits = @ + 1] ELSE IF x.permits = 0 THEN [x EXCEPT !.given = Append(@, "None")] ELSE [permits |-> x.permits - 1, given |-> Append(x.given, "Ticket")])
    BY DEF MuseumDoes
<1>3. [permits |-> total, given |-> <<>>] \in Museums
    BY DEF Museums
<1> DEFINE Is(it) == it = [S \in SUBSET (DOMAIN calls) |->
                              IF S = {} THEN [permits |-> total, given |-> <<>>] ELSE (IF calls[Max(S)] = "drop" THEN [it[S \ {Max(S)}] EXCEPT !.permits = @ + 1] ELSE IF it[S \ {Max(S)}].permits = 0 THEN [it[S \ {Max(S)}] EXCEPT !.given = Append(@, "None")] ELSE [permits |-> it[S \ {Max(S)}].permits - 1, given |-> Append(it[S \ {Max(S)}].given, "Ticket")])]
           fold == CHOOSE it : Is(it)
<1>4. \E it : Is(it)
    <2>1. PICK it \in [SUBSET (1..Len(calls)) -> Museums] : Folds(it, Museums, MuseumDoes, [permits |-> total, given |-> <<>>], calls)
        BY <1>0, <1>1, <1>3, FoldExists, Zenon
    <2>2. ASSUME NEW S \in SUBSET (1..Len(calls)), S # {}
          PROVE  it[S] = (IF calls[Max(S)] = "drop" THEN [it[S \ {Max(S)}] EXCEPT !.permits = @ + 1] ELSE IF it[S \ {Max(S)}].permits = 0 THEN [it[S \ {Max(S)}] EXCEPT !.given = Append(@, "None")] ELSE [permits |-> it[S \ {Max(S)}].permits - 1, given |-> Append(it[S \ {Max(S)}].given, "Ticket")])
        <3>1. Max(S) \in 1..Len(calls)
            BY <1>0, <2>2, LastPlace
        <3>2. it[S \ {Max(S)}] \in Museums /\ calls[Max(S)] \in MuseumCalls
            BY <1>0, <3>1
        <3>3. it[S] = MuseumDoes[<<it[S \ {Max(S)}], calls[Max(S)]>>]
            BY <2>1, <2>2, <3>2 DEF Folds
        <3> QED BY <1>2, <3>2, <3>3
    <2>3. Is(it)
        BY <1>0, <2>1, <2>2 DEF Folds
    <2> QED BY <2>3
<1>5. Is(fold)
    <2> HIDE DEF Is
    <2> QED BY <1>4
<1>6. Museum(total, calls) = fold[1..Len(calls)]
    <2>1. Museum(total, calls) = fold[DOMAIN calls]
        BY Zenon DEF Museum, FoldLeft, MapThenFoldSet
    <2> HIDE DEF fold
    <2> QED BY <1>0, <2>1
<1> HIDE DEF fold
<1>7. Folds(fold, Museums, MuseumDoes, [permits |-> total, given |-> <<>>], calls)
    <2>1. fold[{}] = [permits |-> total, given |-> <<>>]
        BY <1>5
    <2>2. ASSUME NEW S \in SUBSET (1..Len(calls)), S # {}, fold[S \ {Max(S)}] \in Museums
          PROVE  fold[S] = MuseumDoes[<<fold[S \ {Max(S)}], calls[Max(S)]>>]
        <3>1. calls[Max(S)] \in MuseumCalls
            BY <1>0, <2>2, LastPlace
        <3>2. fold[S] = (IF calls[Max(S)] = "drop" THEN [fold[S \ {Max(S)}] EXCEPT !.permits = @ + 1] ELSE IF fold[S \ {Max(S)}].permits = 0 THEN [fold[S \ {Max(S)}] EXCEPT !.given = Append(@, "None")] ELSE [permits |-> fold[S \ {Max(S)}].permits - 1, given |-> Append(fold[S \ {Max(S)}].given, "Ticket")])
            BY <1>0, <1>5, <2>2, ZenonT(40)
        <3> QED BY <1>2, <2>2, <3>1, <3>2
    <2> QED BY <2>1, <2>2 DEF Folds
<1>8. LastState(fold[1..Len(calls)], Museums, MuseumDoes, [permits |-> total, given |-> <<>>], calls)
    BY <1>0, <1>1, <1>3, <1>7, FoldStates, Zenon
<1> QED BY <1>6, <1>8 DEF LastState

\* There are never more tickets about than the museum has, and one is refused
\* only when all of them are, for every sequence of calls.
THEOREM MuseumIsMuseum ==
    \A total \in Nat, calls \in Seq(MuseumCalls) : IsMuseum(total, calls, Museum(total, calls))
<1> SUFFICES ASSUME NEW total \in Nat, NEW calls \in Seq(MuseumCalls)
             PROVE  IsMuseum(total, calls, Museum(total, calls))
    OBVIOUS
<1> DEFINE n == Len(calls)
           A(k) == CountTo(calls, "aquire", k)
           D(k) == CountTo(calls, "drop", k)
<1>1. PICK st : /\ States(st, Museums, MuseumDoes, [permits |-> total, given |-> <<>>], calls)
                /\ Museum(total, calls) = st[n]
    BY MuseumStates
<1>2. /\ n \in Nat /\ \A k \in 0..n : st[k] \in Museums
      /\ st[0] = [permits |-> total, given |-> <<>>]
      /\ \A k \in 1..n : calls[k] \in MuseumCalls /\ st[k] = MuseumDoes[<<st[k - 1], calls[k]>>]
    BY <1>1 DEF States
<1> HIDE DEF n
<1> DEFINE T(g, k) == CountTo(g, "Ticket", A(k))
           \* What holds after k calls
           Inv(k) == LET g == st[k].given IN
                     /\ Len(g) = A(k)
                     /\ st[k].permits = total - (T(g, k) - D(k))
                     /\ \A j \in 0..k : /\ A(j) <= A(k)
                                        /\ st[j].permits = total - (T(g, j) - D(j))
                     /\ \A j \in 1..k :
                          calls[j] = "aquire" => T(g, j) = T(g, j - 1) + 1 \/ st[j].permits = 0
<1>3. Inv(0)
    <2>1. A(0) = 0 /\ D(0) = 0 /\ \A g : CountTo(g, "Ticket", 0) = 0
        BY CountToIs
    <2>2. st[0].permits = total /\ st[0].given = <<>>
        BY <1>2
    <2>3. \A g : T(g, 0) = 0
        BY <2>1
    <2>4. 0..0 = {0} /\ 1..0 = {} /\ Len(<<>>) = 0
        OBVIOUS
    <2> HIDE DEF A, D, T
    <2> QED BY <2>1, <2>2, <2>3, <2>4
<1>4. ASSUME NEW k \in 0..n, k < n, Inv(k) PROVE Inv(k + 1)
    <2> DEFINE m == st[k]
               w == st[k + 1]
               g == m.given
               h == w.given
               c == calls[k + 1]
    <2>1. k \in Nat /\ k + 1 \in 1..n /\ (k + 1) - 1 = k
        BY <1>2, <1>4
    <2>2. m \in Museums /\ w \in Museums /\ c \in MuseumCalls /\ w = MuseumDoes[<<m, c>>]
        <3>1. k + 1 \in 0..n
            BY <2>1
        <3> QED BY <1>2, <2>1, <3>1
    <2>3. /\ A(k) \in Nat
          /\ (c = "aquire" => A(k + 1) = A(k) + 1) /\ (c # "aquire" => A(k + 1) = A(k))
          /\ D(k) \in Nat
          /\ (c = "drop" => D(k + 1) = D(k) + 1) /\ (c # "drop" => D(k + 1) = D(k))
        <3>1. k \in Nat
            BY <2>1
        <3> QED BY <3>1, CountToIs, Zenon
    <2>4. g \in Seq({"None", "Ticket"}) /\ h \in Seq({"None", "Ticket"}) /\ m.permits \in Nat /\ w.permits \in Nat
        BY <2>2 DEF Museums
    <2>5. /\ c = "drop" => w.permits = m.permits + 1 /\ h = g
          /\ c = "aquire" => \/ m.permits = 0 /\ w.permits = 0 /\ h = Append(g, "None")
                             \/ w.permits = m.permits - 1 /\ m.permits > 0 /\ h = Append(g, "Ticket")
        <3> DEFINE v == MuseumDoes[<<m, c>>]
        <3>1. v.given = h /\ v.permits = w.permits
            BY <2>2
        <3> HIDE DEF w, h
        <3>2. /\ c = "drop" => v.permits = m.permits + 1 /\ v.given = m.given
              /\ c = "aquire" => \/ m.permits = 0 /\ v.permits = 0 /\ v.given = Append(m.given, "None")
                                 \/ v.permits = m.permits - 1 /\ m.permits > 0 /\ v.given = Append(m.given, "Ticket")
            BY <2>2, MuseumStep, Zenon
        <3> HIDE DEF m, v, c
        <3> QED BY <3>1, <3>2 DEF g
    <2>6. \A i \in 1..A(k) : h[i] = g[i]
        <3>1. Len(g) = A(k)
            BY <1>4, Zenon
        <3> HIDE DEF A, D, T, m, w, g, h, c
        <3>2. \A x : \A i \in 1..Len(g) : Append(g, x)[i] = g[i]
            BY <2>4
        <3> QED BY <2>2, <2>5, <3>1, <3>2 DEF MuseumCalls
    <2>7. \A j \in 0..k : A(j) \in Nat /\ D(j) \in Nat
        <3>1. \A j \in 0..k : j \in Nat
            BY <2>1
        <3> QED BY <3>1, CountToIs, Zenon
    <2>8. ASSUME NEW j \in 0..k PROVE T(h, j) = T(g, j) /\ T(g, j) \in Nat
        <3>1. A(j) <= A(k) /\ A(j) \in Nat
            BY <1>4, <2>7
        <3> DEFINE a == A(j)
        <3>2. a \in Nat /\ \A i \in 1..a : h[i] = g[i]
            BY <2>3, <2>6, <3>1
        <3> HIDE DEF a, A, g, h
        <3>3. CountTo(h, "Ticket", a) = CountTo(g, "Ticket", a) /\ CountTo(g, "Ticket", a) \in Nat
            BY <3>2, CountsAgree, CountToIs
        <3> QED BY <3>3 DEF a
    <2>9. c = "aquire" => /\ h[A(k) + 1] = "Ticket" => T(h, k + 1) = T(h, k) + 1
                          /\ h[A(k) + 1] # "Ticket" => T(h, k + 1) = T(h, k)
        <3> DEFINE a == A(k)
        <3>1. a \in Nat /\ (c = "aquire" => A(k + 1) = a + 1)
            BY <2>3
        <3> HIDE DEF a
        <3>2. /\ h[a + 1] = "Ticket" => CountTo(h, "Ticket", a + 1) = CountTo(h, "Ticket", a) + 1
              /\ h[a + 1] # "Ticket" => CountTo(h, "Ticket", a + 1) = CountTo(h, "Ticket", a)
            BY <3>1, CountToIs, Zenon
        <3> QED BY <3>1, <3>2 DEF a
    <2>10. c = "drop" => T(h, k + 1) = T(h, k)
        BY <2>3
    <2>11. T(h, k) = T(g, k) /\ T(g, k) \in Nat /\ m.permits = total - (T(g, k) - D(k)) /\ Len(g) = A(k)
        BY <1>4, <2>1, <2>8
    <2>12. /\ \A j \in 0..k : A(j) <= A(k) /\ st[j].permits = total - (T(g, j) - D(j))
           /\ \A j \in 1..k : calls[j] = "aquire" => T(g, j) = T(g, j - 1) + 1 \/ st[j].permits = 0
        BY <1>4
    <2>13. \A j \in 0..(k + 1) : j \in 0..k \/ j = k + 1
        BY <2>1
    <2>14. \A j \in 1..(k + 1) : (j \in 1..k /\ j \in 0..k /\ j - 1 \in 0..k) \/ j = k + 1
        BY <2>1
    <2>15. c = "aquire" \/ c = "drop"
        BY <2>2 DEF MuseumCalls
    <2> HIDE DEF A, D, T, g, h, c, m, w
    <2>16. /\ Len(h) = A(k + 1) /\ A(k) <= A(k + 1)
           /\ w.permits = total - (T(h, k + 1) - D(k + 1))
           /\ c = "aquire" => T(h, k + 1) = T(h, k) + 1 \/ w.permits = 0
        <3>1. CASE c = "drop"
            <4>1. h = g /\ w.permits = m.permits + 1
                BY <2>5, <3>1
            <4>2. A(k + 1) = A(k) /\ D(k + 1) = D(k) + 1 /\ D(k) \in Nat /\ A(k) \in Nat
                BY <2>3, <3>1
            <4>3. T(h, k + 1) = T(g, k) /\ T(g, k) \in Nat /\ m.permits = total - (T(g, k) - D(k))
                BY <2>10, <2>11, <3>1
            <4>4. w.permits = total - (T(h, k + 1) - D(k + 1))
                BY <4>1, <4>2, <4>3
            <4>5. Len(h) = A(k + 1) /\ A(k) <= A(k + 1)
                BY <2>11, <4>1, <4>2
            <4> QED BY <3>1, <4>4, <4>5
        <3>2. CASE c = "aquire"
            <4>1. \A x : Len(Append(g, x)) = Len(g) + 1 /\ Append(g, x)[Len(g) + 1] = x
                BY <2>4
            <4>2. CASE m.permits = 0 /\ w.permits = 0 /\ h = Append(g, "None")
                <5>1. Len(h) = A(k) + 1 /\ h[A(k) + 1] = "None"
                    BY <2>11, <4>1, <4>2
                <5>2. T(h, k + 1) = T(h, k) /\ T(h, k) = T(g, k) /\ T(g, k) \in Nat
                    BY <2>9, <2>11, <3>2, <5>1
                <5>3. A(k + 1) = A(k) + 1 /\ D(k + 1) = D(k) /\ D(k) \in Nat /\ A(k) \in Nat
                    BY <2>3, <3>2
                <5>4. m.permits = w.permits /\ m.permits = total - (T(g, k) - D(k))
                    BY <2>11, <4>2
                <5>5. w.permits = total - (T(h, k + 1) - D(k + 1))
                    BY <5>2, <5>3, <5>4
                <5>6. A(k) <= A(k + 1) /\ Len(h) = A(k + 1)
                    BY <5>1, <5>3
                <5> QED BY <4>2, <5>5, <5>6
            <4>3. CASE w.permits = m.permits - 1 /\ m.permits > 0 /\ h = Append(g, "Ticket")
                <5>1. Len(h) = A(k) + 1 /\ h[A(k) + 1] = "Ticket"
                    BY <2>11, <4>1, <4>3
                <5> QED BY <2>3, <2>4, <2>9, <2>11, <3>2, <4>3, <5>1, SMTT(30)
            <4> QED BY <2>5, <3>2, <4>2, <4>3
        <3> QED BY <2>15, <3>1, <3>2
    <2>17. \A j \in 0..(k + 1) : A(j) <= A(k + 1) /\ st[j].permits = total - (T(h, j) - D(j))
        <3>1. ASSUME NEW j \in 0..k PROVE A(j) <= A(k + 1) /\ st[j].permits = total - (T(h, j) - D(j))
            <4>1. A(j) \in Nat /\ A(j) <= A(k) /\ T(h, j) = T(g, j) /\ st[j].permits = total - (T(g, j) - D(j))
                BY <2>7, <2>8, <2>12, Zenon
            <4>2. A(k) \in Nat /\ A(k + 1) \in Nat /\ A(k) <= A(k + 1)
                BY <2>3, <2>16
            <4> QED BY <4>1, <4>2
        <3>2. A(k + 1) <= A(k + 1) /\ st[k + 1].permits = total - (T(h, k + 1) - D(k + 1))
            BY <2>3, <2>16 DEF w
        <3> QED BY <2>13, <3>1, <3>2
    <2>18. \A j \in 1..(k + 1) : calls[j] = "aquire" => T(h, j) = T(h, j - 1) + 1 \/ st[j].permits = 0
        <3>1. ASSUME NEW j \in 1..k, j \in 0..k, j - 1 \in 0..k, calls[j] = "aquire"
              PROVE  T(h, j) = T(h, j - 1) + 1 \/ st[j].permits = 0
            BY <2>8, <2>12, <3>1
        <3>2. calls[k + 1] = "aquire" => T(h, k + 1) = T(h, (k + 1) - 1) + 1 \/ st[k + 1].permits = 0
            BY <2>1, <2>16 DEF c, w
        <3> QED BY <2>14, <3>1, <3>2
    <2> QED BY <2>16, <2>17, <2>18 DEF h, w
<1> HIDE DEF Inv
<1>5. Inv(n)
    <2> DEFINE P == {k \in 0..n : Inv(k)}
    <2>1. P \in SUBSET (0..n) /\ 0 \in P
        BY <1>2, <1>3
    <2>2. \A k \in P : k < n => k + 1 \in P
        BY <1>2, <1>4
    <2> HIDE DEF P
    <2>3. \A k \in 0..n : k \in P
        BY <1>2, <2>1, <2>2, InductionUpTo
    <2> QED BY <1>2, <2>3 DEF P
<1> DEFINE out == Museum(total, calls)
           g == out.given
<1>6. out = st[n] /\ out \in Museums /\ g \in Seq({"None", "Ticket"}) /\ out.permits \in Nat
    BY <1>1, <1>2 DEF Museums, n
<1>7. /\ Len(g) = A(n)
      /\ \A j \in 0..n : A(j) <= A(n) /\ st[j].permits = total - (T(g, j) - D(j))
      /\ \A j \in 1..n : calls[j] = "aquire" => T(g, j) = T(g, j - 1) + 1 \/ st[j].permits = 0
    BY <1>5, <1>6 DEF Inv
<1>8. ASSUME NEW k \in 0..n
      PROVE  /\ A(k) \in Nat /\ D(k) \in Nat /\ T(g, k) \in Nat
             /\ Count(SubSeq(calls, 1, k), "aquire") = A(k)
             /\ Count(SubSeq(calls, 1, k), "drop") = D(k)
             /\ Count(SubSeq(g, 1, A(k)), "Ticket") = T(g, k)
    <2>1. A(k) \in Nat /\ D(k) \in Nat
        <3>1. k \in Nat
            BY <1>2
        <3> QED BY <3>1, CountToIs, Zenon
    <2>2. Count(SubSeq(calls, 1, k), "aquire") = A(k) /\ Count(SubSeq(calls, 1, k), "drop") = D(k)
        BY CountIs DEF n
    <2> DEFINE a == A(k)
    <2>3. a \in 0..Len(g) /\ a \in Nat
        BY <1>7, <2>1
    <2> HIDE DEF a, out, A
    <2>4. Count(SubSeq(g, 1, a), "Ticket") = CountTo(g, "Ticket", a) /\ CountTo(g, "Ticket", a) \in Nat
        BY <1>6, <2>3, CountIs, CountToIs
    <2> QED BY <2>1, <2>2, <2>4 DEF a
<1>9. \A k \in 0..n : st[k].permits \in Nat
    BY <1>2 DEF Museums
<1> DEFINE aquired(k) == Count(SubSeq(calls, 1, k), "aquire")
           about(k) == Count(SubSeq(g, 1, aquired(k)), "Ticket") - Count(SubSeq(calls, 1, k), "drop")
<1>10. \A k \in 0..n : aquired(k) = A(k) /\ about(k) = T(g, k) - D(k)
    BY <1>8
<1> HIDE DEF A, D, T, g, aquired, about
<1>11. \A k \in 0..n : about(k) \in Int /\ st[k].permits = total - about(k)
    BY <1>7, <1>8, <1>10
<1>12. \A k \in 0..n : about(k) <= total
    BY <1>9, <1>11
<1>13. ASSUME NEW k \in 1..n, calls[k] = "aquire", about(k) = about(k - 1) PROVE about(k) = total
    <2>1. k \in 0..n /\ k - 1 \in 0..n
        BY <1>2
    <2>2. CASE st[k].permits = 0
        BY <1>11, <2>1, <2>2
    <2>3. CASE T(g, k) = T(g, k - 1) + 1
        <3>1. k - 1 \in Nat /\ (k - 1) + 1 = k
            BY <2>1
        <3>2. D(k) = D(k - 1)
            <4>1. calls[(k - 1) + 1] # "drop"
                          => CountTo(calls, "drop", (k - 1) + 1) = CountTo(calls, "drop", k - 1)
                BY <3>1, CountToIs, Zenon
            <4> QED BY <1>13, <3>1, <4>1 DEF D
        <3> QED BY <1>8, <1>10, <1>13, <2>1, <2>3, <3>2
    <2> QED BY <1>7, <1>13, <2>2, <2>3
<1>14. Len(g) = aquired(n) /\ out.permits = total - about(n)
    BY <1>2, <1>6, <1>7, <1>10, <1>11
<1>15. DOMAIN calls = 1..n
    BY DEF n
<1> HIDE DEF out
<1> QED BY <1>12, <1>13, <1>14, <1>15 DEF IsMuseum, aquired, about, g, n, out

-----------------------------------------------------------------------------
(* MyVecIterator *)

Upto(n) == [k \in 1..n |-> k]

LEMMA UptoIs ==
    ASSUME NEW n \in Nat
    PROVE  /\ Upto(n) \in Seq(1..n) /\ DOMAIN Upto(n) = 1..n /\ Len(Upto(n)) = n
           /\ \A k \in 1..n : Upto(n)[k] = k
<1>1. Upto(n) = [k \in 1..n |-> Upto(n)[k]] /\ \A k \in 1..n : Upto(n)[k] = k
    BY DEF Upto
<1>2. Upto(n) \in Seq(1..n) /\ Len(Upto(n)) = n
    BY <1>1, FunctionIsSequence
<1> QED BY <1>1, <1>2

Copies(s, m) == [k \in 1..m |-> s]

\* The place i of what a sequence gives when it is repeated
LEMMA CopiesFlat ==
    ASSUME NEW S, NEW s \in Seq(S), NEW m \in Nat
    PROVE  \A q \in 0..(m - 1), x \in 1..Len(s) : FlattenSeq(Copies(s, m))[Len(s) * q + x] = s[x]
<1> DEFINE L == Len(s)
           F(k) == FlattenSeq(Copies(s, k))
           P(k) == /\ F(k) \in Seq(S) /\ Len(F(k)) = L * k
                   /\ \A q \in 0..(k - 1), x \in 1..L : F(k)[L * q + x] = s[x]
           T == {k \in Nat : P(k)}
<1>0. L \in Nat
    OBVIOUS
<1>1. P(0)
    <2>1. Copies(s, 0) = <<>>
        BY DEF Copies
    <2>2. F(0) = <<>>
        BY <2>1, FlattenEmpty
    <2>3. <<>> \in Seq(S) /\ Len(<<>>) = L * 0
        BY <1>0
    <2> HIDE DEF F
    <2>4. F(0) \in Seq(S) /\ Len(F(0)) = L * 0
        BY <2>2, <2>3
    <2>5. 0..(0 - 1) = {}
        OBVIOUS
    <2> QED BY <2>4, <2>5
<1>2. ASSUME NEW k \in Nat, P(k) PROVE P(k + 1)
    <2> DEFINE c == Copies(s, k)
               d == Copies(s, k + 1)
    <2>1. s \in Streams(S)
        BY StreamsDef
    <2>2. c = [i \in 1..k |-> c[i]] /\ \A i \in 1..k : c[i] = s
        BY DEF Copies
    <2>3. c \in Seq(Streams(S)) /\ Len(c) = k
        <3> HIDE DEF c
        <3> QED BY <2>1, <2>2, FunctionIsSequence
    <2>4. Append(c, s) = d
        <3>1. Append(c, s) = [i \in 1..(k + 1) |-> IF i <= k THEN c[i] ELSE s]
            <4> HIDE DEF c
            <4> DEFINE b == Append(c, s)
                       Y == Streams(S)
            <4>1. /\ b \in Seq(Y) /\ Len(b) = k + 1
                  /\ b[k + 1] = s /\ \A i \in 1..k : b[i] = c[i]
                BY <2>1, <2>3, AppendProperties
            <4> HIDE DEF b, Y
            <4>2. b = [i \in 1..(k + 1) |-> b[i]]
                BY <4>1
            <4>3. \A i \in 1..(k + 1) : b[i] = IF i <= k THEN c[i] ELSE s
                BY <4>1
            <4> QED BY <4>2, <4>3 DEF b
        <3> QED BY <2>2, <3>1 DEF Copies
    <2>5. F(k + 1) = F(k) \o s
        <3> HIDE DEF c
        <3>1. FlattenSeq(Append(c, s)) = FlattenSeq(c) \o s
            BY <2>1, <2>3, FlattenAppend
        <3> QED BY <2>4, <3>1 DEF c
    <2> DEFINE a == F(k)
    <2>6. a \in Seq(S) /\ Len(a) = L * k /\ \A q \in 0..(k - 1), x \in 1..L : a[L * q + x] = s[x]
        BY <1>2
    <2> HIDE DEF a, F
    <2>7. /\ a \o s \in Seq(S) /\ Len(a \o s) = Len(a) + L
          /\ \A i \in 1..Len(a) : (a \o s)[i] = a[i]
          /\ \A i \in 1..L : (a \o s)[Len(a) + i] = s[i]
        <3>1. a \in Seq(S)
            BY <2>6
        <3> QED BY <3>1, ConcatAt
    <2>8. Len(a \o s) = L * (k + 1)
        <3>1. L * (k + 1) = L * k + L
            BY <1>0
        <3> QED BY <2>6, <2>7, <3>1
    <2>9. ASSUME NEW q \in 0..((k + 1) - 1), NEW x \in 1..L PROVE (a \o s)[L * q + x] = s[x]
        <3>1. CASE q = k
            BY <2>6, <2>7, <3>1
        <3>2. CASE q # k
            <4> DEFINE r == k - (q + 1)
            <4>1. r \in Nat /\ k = q + 1 + r /\ q \in Nat
                BY <3>2
            <4> HIDE DEF r
            <4>2. L * r \in Nat /\ L * q \in Nat
                BY <1>0, <4>1
            <4>3. L * k = L * q + L + L * r
                BY <1>0, <4>1
            <4> DEFINE lr == L * r
                       lq == L * q
                       lk == L * k
            <4>6. lr \in Nat /\ lq \in Nat /\ lk = lq + L + lr
                BY <4>2, <4>3
            <4> HIDE DEF lr, lq, lk
            <4>4. lq + x \in 1..lk
                BY <1>0, <4>6
            <4>5. a[L * q + x] = s[x]
                <5>1. q \in 0..(k - 1)
                    BY <4>1
                <5> QED BY <2>6, <5>1
            <4> QED BY <2>6, <2>7, <4>4, <4>5 DEF lq, lk
        <3> QED BY <3>1, <3>2
    <2> QED BY <2>5, <2>7, <2>8, <2>9 DEF a
<1> HIDE DEF P
<1>3. T = Nat
    <2>1. T \in SUBSET Nat /\ 0 \in T /\ \A k \in T : k + 1 \in T
        BY <1>1, <1>2
    <2> HIDE DEF T
    <2> QED BY <2>1, SetInduction
<1> QED BY <1>3 DEF P

Rounds(S) == [pt : Nat, out : Seq(S)]

RoundDoes(S, vec, n) == [q \in Rounds(S) \X (1..n) |->
    [pt |-> (q[1].pt + 2) % Len(vec), out |-> Append(q[1].out, vec[((q[1].pt + 2) % Len(vec)) + 1])]]

LEMMA RoundStep ==
    ASSUME NEW S, NEW vec \in Seq(S), NEW n \in Nat, vec # <<>> \/ n = 0,
           NEW it \in Rounds(S), NEW k \in 1..n
    PROVE  LET w == RoundDoes(S, vec, n)[<<it, k>>] IN
           /\ w \in Rounds(S)
           /\ w.pt = (it.pt + 2) % Len(vec) /\ w.out = Append(it.out, vec[w.pt + 1])
<1> DEFINE w == RoundDoes(S, vec, n)[<<it, k>>]
           p == (it.pt + 2) % Len(vec)
<1>1. it.pt \in Nat /\ it.out \in Seq(S)
    BY DEF Rounds
<1>2. w = [pt |-> p, out |-> Append(it.out, vec[p + 1])]
    BY DEF RoundDoes
<1>3. p \in 0..(Len(vec) - 1)
    <2>1. Len(vec) \in Nat \ {0} /\ it.pt + 2 \in Int
        BY <1>1
    <2> QED BY <2>1, Division
<1> HIDE DEF w, p
<1>4. vec[p + 1] \in S
    <2>1. p + 1 \in 1..Len(vec)
        BY <1>3
    <2> QED BY <2>1
<1>5. Append(it.out, vec[p + 1]) \in Seq(S) /\ p \in Nat
    BY <1>1, <1>3, <1>4
<1>6. w \in Rounds(S)
    BY <1>2, <1>5 DEF Rounds
<1> QED BY <1>2, <1>6 DEF w, p

LEMMA RoundStates ==
    ASSUME NEW Elt, NEW vec \in Seq(Elt), NEW n \in Nat, vec # <<>> \/ n = 0
    PROVE  \E st : States(st, Rounds(Elt), RoundDoes(Elt, vec, n), [pt |-> 0, out |-> <<>>], Upto(n)) /\ MyVecIterator(vec, n) = st[Len(Upto(n))].out
<1>0. Upto(n) \in Seq((1..n)) /\ DOMAIN Upto(n) = 1..Len(Upto(n)) /\ Len(Upto(n)) \in Nat
      /\ \A k \in 1..Len(Upto(n)) : Upto(n)[k] \in (1..n)
    BY UptoIs
<1>1. RoundDoes(Elt, vec, n) \in [Rounds(Elt) \X (1..n) -> Rounds(Elt)]
    
    <2>0. \A k \in 1..n : k \in 1..n
        OBVIOUS
    <2>1. ASSUME NEW it \in Rounds(Elt), NEW k \in 1..n PROVE RoundDoes(Elt, vec, n)[<<it, k>>] \in Rounds(Elt)
        BY RoundStep
    <2>2. \A q \in Rounds(Elt) \X (1..n) : q = <<q[1], q[2]>> /\ q[1] \in Rounds(Elt) /\ q[2] \in 1..n
        OBVIOUS
    <2>3. \A q \in Rounds(Elt) \X (1..n) : RoundDoes(Elt, vec, n)[q] \in Rounds(Elt)
        BY <2>1, <2>2, Zenon
    <2>4. /\ DOMAIN RoundDoes(Elt, vec, n) = Rounds(Elt) \X (1..n)
          /\ RoundDoes(Elt, vec, n) = [q \in DOMAIN RoundDoes(Elt, vec, n) |-> RoundDoes(Elt, vec, n)[q]]
        BY DEF RoundDoes
    <2> QED BY <2>3, <2>4
<1>2. \A x \in Rounds(Elt), y \in (1..n) : RoundDoes(Elt, vec, n)[<<x, y>>] = [pt |-> (x.pt + 2) % Len(vec), out |-> Append(x.out, vec[((x.pt + 2) % Len(vec)) + 1])]
    BY DEF RoundDoes
<1>3. [pt |-> 0, out |-> <<>>] \in Rounds(Elt)
    BY DEF Rounds
<1> DEFINE Is(it) == it = [S \in SUBSET (DOMAIN Upto(n)) |->
                              IF S = {} THEN [pt |-> 0, out |-> <<>>] ELSE [pt |-> (it[S \ {Max(S)}].pt + 2) % Len(vec), out |-> Append(it[S \ {Max(S)}].out, vec[((it[S \ {Max(S)}].pt + 2) % Len(vec)) + 1])]]
           fold == CHOOSE it : Is(it)
<1>4. \E it : Is(it)
    <2>1. PICK it \in [SUBSET (1..Len(Upto(n))) -> Rounds(Elt)] : Folds(it, Rounds(Elt), RoundDoes(Elt, vec, n), [pt |-> 0, out |-> <<>>], Upto(n))
        BY <1>0, <1>1, <1>3, FoldExists, Zenon
    <2>2. ASSUME NEW S \in SUBSET (1..Len(Upto(n))), S # {}
          PROVE  it[S] = [pt |-> (it[S \ {Max(S)}].pt + 2) % Len(vec), out |-> Append(it[S \ {Max(S)}].out, vec[((it[S \ {Max(S)}].pt + 2) % Len(vec)) + 1])]
        <3>1. Max(S) \in 1..Len(Upto(n))
            BY <1>0, <2>2, LastPlace
        <3>2. it[S \ {Max(S)}] \in Rounds(Elt) /\ Upto(n)[Max(S)] \in (1..n)
            BY <1>0, <3>1
        <3>3. it[S] = RoundDoes(Elt, vec, n)[<<it[S \ {Max(S)}], Upto(n)[Max(S)]>>]
            BY <2>1, <2>2, <3>2 DEF Folds
        <3> QED BY <1>2, <3>2, <3>3
    <2>3. Is(it)
        BY <1>0, <2>1, <2>2 DEF Folds
    <2> QED BY <2>3
<1>5. Is(fold)
    <2> HIDE DEF Is
    <2> QED BY <1>4
<1>6. MyVecIterator(vec, n) = fold[1..Len(Upto(n))].out
    <2>1. MyVecIterator(vec, n) = fold[DOMAIN Upto(n)].out
        BY vec # <<>> \/ ~(n > 0), Zenon DEF MyVecIterator, Upto, FoldLeft, MapThenFoldSet
    <2> HIDE DEF fold
    <2> QED BY <1>0, <2>1
<1> HIDE DEF fold
<1>7. Folds(fold, Rounds(Elt), RoundDoes(Elt, vec, n), [pt |-> 0, out |-> <<>>], Upto(n))
    <2>1. fold[{}] = [pt |-> 0, out |-> <<>>]
        BY <1>5
    <2>2. ASSUME NEW S \in SUBSET (1..Len(Upto(n))), S # {}, fold[S \ {Max(S)}] \in Rounds(Elt)
          PROVE  fold[S] = RoundDoes(Elt, vec, n)[<<fold[S \ {Max(S)}], Upto(n)[Max(S)]>>]
        <3>1. Upto(n)[Max(S)] \in (1..n)
            BY <1>0, <2>2, LastPlace, ZenonT(40)
        <3>2. fold[S] = [pt |-> (fold[S \ {Max(S)}].pt + 2) % Len(vec), out |-> Append(fold[S \ {Max(S)}].out, vec[((fold[S \ {Max(S)}].pt + 2) % Len(vec)) + 1])]
            BY <1>0, <1>5, <2>2, ZenonT(40)
        <3> QED BY <1>2, <2>2, <3>1, <3>2
    <2> QED BY <2>1, <2>2 DEF Folds
<1>8. LastState(fold[1..Len(Upto(n))], Rounds(Elt), RoundDoes(Elt, vec, n), [pt |-> 0, out |-> <<>>], Upto(n))
    BY <1>0, <1>1, <1>3, <1>7, FoldStates, Zenon
<1> QED BY <1>6, <1>8 DEF LastState

\* Every second number of the vector repeated, from the third on, however
\* often the iterator is asked.
THEOREM MyVecIteratorIsRound ==
    \A S : \A vec \in Seq(S), n \in Nat : IsRound(vec, n, MyVecIterator(vec, n))
<1> SUFFICES ASSUME NEW S, NEW vec \in Seq(S), NEW n \in Nat
             PROVE  IsRound(vec, n, MyVecIterator(vec, n))
    OBVIOUS
<1>1. CASE vec = <<>> /\ n > 0
    BY <1>1 DEF IsRound, MyVecIterator
<1>2. CASE ~(vec = <<>> /\ n > 0)
    <2>0. vec # <<>> \/ n = 0
        BY <1>2
    <2> DEFINE L == Len(vec)
               base == [pt |-> 0, out |-> <<>>]
    <2>1. PICK st : /\ States(st, Rounds(S), RoundDoes(S, vec, n), base, Upto(n))
                    /\ MyVecIterator(vec, n) = st[Len(Upto(n))].out
        BY <2>0, RoundStates
    <2>2. /\ st[0] = base /\ \A k \in 0..n : st[k] \in Rounds(S)
          /\ \A k \in 1..n : st[k] = RoundDoes(S, vec, n)[<<st[k - 1], k>>]
        BY <2>1, UptoIs DEF States
    <2> DEFINE at(k) == vec[((2 * k) % L) + 1]
               Inv(k) == /\ L # 0 => st[k].pt = (2 * k) % L
                         /\ Len(st[k].out) = k
                         /\ \A j \in 1..k : st[k].out[j] = at(j)
    <2>3. Inv(0)
        <3>1. st[0].pt = 0 /\ st[0].out = <<>>
            BY <2>2
        <3>2. L # 0 => (2 * 0) % L = 0
            OBVIOUS
        <3> QED BY <3>1, <3>2
    <2>4. ASSUME NEW k \in 0..n, k < n, Inv(k) PROVE Inv(k + 1)
        <3> DEFINE v == st[k]
                   w == st[k + 1]
        <3>1. k \in Nat /\ k + 1 \in 1..n /\ (k + 1) - 1 = k /\ L \in Nat \ {0}
            BY <2>0, <2>4
        <3>2. v \in Rounds(S) /\ w = RoundDoes(S, vec, n)[<<v, k + 1>>]
            BY <2>2, <3>1
        <3> DEFINE i == k + 1
                   u == RoundDoes(S, vec, n)[<<v, i>>]
        <3>0. i \in 1..n
            BY <3>1
        <3> HIDE DEF v, i, w
        <3>3. u.pt = (v.pt + 2) % L /\ u.out = Append(v.out, vec[u.pt + 1])
            <4>1. u = [pt |-> (v.pt + 2) % L, out |-> Append(v.out, vec[((v.pt + 2) % L) + 1])]
                BY <3>0, <3>2 DEF RoundDoes
            <4> HIDE DEF u
            <4> QED BY <4>1
        <3>12. w = u
            BY <3>2 DEF i
        <3>4. v.pt = (2 * k) % L /\ v.out \in Seq(S) /\ Len(v.out) = k /\ \A j \in 1..k : v.out[j] = at(j)
            BY <2>4, <3>1, <3>2 DEF Rounds, v
        <3> HIDE DEF u
        <3>5. w.pt = (v.pt + 2) % L /\ w.out = Append(v.out, vec[w.pt + 1])
            BY <3>12, <3>3
        <3> HIDE DEF L
        <3>6. (((2 * k) % L) + 2) % L = (2 * (k + 1)) % L
            <4> DEFINE a == 2 * k
                       q == a \div L
                       r == a % L
                       q2 == (r + 2) \div L
                       r2 == (r + 2) % L
            <4>1. a \in Int /\ 2 * (k + 1) = a + 2
                BY <3>1
            <4> HIDE DEF a
            <4>2. q \in Int /\ r \in 0..(L - 1) /\ a = L * q + r
                BY <3>1, <4>1, Division
            <4> HIDE DEF q, r
            <4>3. r + 2 \in Int
                BY <4>2
            <4>4. q2 \in Int /\ r2 \in 0..(L - 1) /\ r + 2 = L * q2 + r2
                BY <3>1, <4>3, Division
            <4> HIDE DEF q2, r2
            <4>5. q + q2 \in Int /\ L * (q + q2) = L * q + L * q2
                BY <3>1, <4>2, <4>4
            <4>6. a + 2 = L * (q + q2) + r2
                <5> DEFINE x == L * q
                           y == L * q2
                           z == L * (q + q2)
                <5>1. x \in Int /\ y \in Int /\ z = x + y /\ a = x + r /\ r + 2 = y + r2 /\ r2 \in Int /\ r \in Int
                    BY <3>1, <4>2, <4>4, <4>5
                <5> HIDE DEF x, y, z
                <5>2. a + 2 = z + r2
                    BY <5>1
                <5> QED BY <5>2 DEF z
            <4>7. (L * (q + q2) + r2) % L = r2
                BY <3>1, <4>4, <4>5, Multiple
            <4>8. (a + 2) % L = (r + 2) % L
                BY <4>6, <4>7 DEF r2
            <4> QED BY <4>1, <4>8 DEF r, a
        <3>7. w.pt = (2 * (k + 1)) % L
            BY <3>4, <3>5, <3>6
        <3>8. \A x : Len(Append(v.out, x)) = k + 1 /\ Append(v.out, x)[k + 1] = x /\ \A j \in 1..k : Append(v.out, x)[j] = v.out[j]
            BY <3>4
        <3>9. Len(w.out) = k + 1 /\ w.out[k + 1] = at(k + 1) /\ \A j \in 1..k : w.out[j] = at(j)
            BY <3>4, <3>5, <3>7, <3>8
        <3>10. \A j \in 1..(k + 1) : j \in 1..k \/ j = k + 1
            BY <3>1
        <3> HIDE DEF at
        <3>11. \A j \in 1..(k + 1) : w.out[j] = at(j)
            BY <3>9, <3>10, Zenon
        <3> QED BY <3>7, <3>9, <3>11 DEF w
    <2> HIDE DEF Inv
    <2>5. Inv(n)
        <3> DEFINE P == {k \in 0..n : Inv(k)}
        <3>1. P \in SUBSET (0..n) /\ 0 \in P /\ \A k \in P : k < n => k + 1 \in P
            BY <2>3, <2>4
        <3> HIDE DEF P
        <3>2. \A k \in 0..n : k \in P
            BY <3>1, InductionUpTo
        <3> QED BY <3>2 DEF P
    <2> DEFINE out == MyVecIterator(vec, n)
               repeated == FlattenSeq(Copies(vec, 2 * n + 1))
    <2>6. out = st[n].out
        BY <2>1, UptoIs
    <2>7. out \in Seq(S) /\ Len(out) = n /\ \A k \in 1..n : out[k] = at(k)
        <3>1. st[n] \in Rounds(S)
            BY <2>2
        <3>2. out \in Seq(S)
            BY <2>6, <3>1 DEF Rounds
        <3> HIDE DEF out
        <3> QED BY <2>5, <2>6, <3>2 DEF Inv
    <2> HIDE DEF out
    <2>8. ASSUME NEW k \in 1..n PROVE repeated[2 * k + 1] = at(k)
        <3> DEFINE a == 2 * k
                   q == a \div L
                   r == a % L
        <3>1. L \in Nat \ {0} /\ a \in Nat /\ a <= 2 * n
            BY <2>0
        <3> HIDE DEF a, L
        <3>2. q \in Int /\ r \in 0..(L - 1) /\ a = L * q + r
            BY <3>1, Division
        <3> HIDE DEF q, r
        <3>3. q >= 0 /\ q <= a
            <4>1. CASE q < 0
                <5>1. L * q <= -L
                    BY <3>1, <3>2, <4>1
                <5> DEFINE x == L * q
                <5>2. x \in Int /\ x <= -L /\ a = x + r
                    BY <3>1, <3>2, <5>1
                <5> HIDE DEF x
                <5> QED BY <3>1, <3>2, <5>2
            <4>2. CASE q >= 0
                <5>1. L * q >= q
                    BY <3>1, <3>2, <4>2
                <5> DEFINE x == L * q
                <5>2. x \in Int /\ x >= q /\ a = x + r
                    BY <3>1, <3>2, <5>1
                <5> HIDE DEF x
                <5> QED BY <3>1, <3>2, <4>2, <5>2
            <4> QED BY <3>2, <4>1, <4>2
        <3> DEFINE x == r + 1
                   m == 2 * n + 1
        <3>4. q \in 0..(m - 1) /\ x \in 1..L /\ m \in Nat
            BY <3>1, <3>2, <3>3
        <3> HIDE DEF x, m
        <3>5. FlattenSeq(Copies(vec, m))[L * q + x] = vec[x]
            BY <3>4, CopiesFlat DEF L
        <3>6. L * q + x = a + 1
            <4> DEFINE y == L * q
            <4>1. y \in Int /\ a = y + r /\ r \in Int
                BY <3>1, <3>2
            <4> HIDE DEF y
            <4>2. y + x = a + 1
                BY <3>1, <4>1 DEF x
            <4> QED BY <4>2 DEF y
        <3> QED BY <3>5, <3>6 DEF m, a, x, r
    <2>9. out = [k \in 1..n |-> repeated[2 * k + 1]]
        <3> HIDE DEF repeated, at
        <3>1. out = [k \in 1..n |-> out[k]]
            BY <2>7
        <3> QED BY <2>7, <2>8, <3>1
    <2> QED BY <1>2, <2>9 DEF IsRound, repeated, Copies, out
<1> QED BY <1>1, <1>2

-----------------------------------------------------------------------------
(* window_count *)

LEMMA DropFrom ==
    ASSUME NEW S, NEW q \in Seq(S), NEW n \in Nat
    PROVE  /\ SubSeq(q, n + 1, Len(q)) \in Seq(S)
           /\ Len(SubSeq(q, n + 1, Len(q))) = IF n <= Len(q) THEN Len(q) - n ELSE 0
           /\ \A i \in 1..(Len(q) - n) : SubSeq(q, n + 1, Len(q))[i] = q[n + i]
<1>1. CASE n <= Len(q)
    <2>1. n \in 0..Len(q)
        BY <1>1
    <2> QED BY <1>1, <2>1, DropAt
<1>2. CASE ~(n <= Len(q))
    <2>1. SubSeq(q, n + 1, Len(q)) = <<>>
        BY <1>2
    <2> DEFINE r == SubSeq(q, n + 1, Len(q))
    <2>2. r = <<>>
        BY <2>1
    <2> HIDE DEF r
    <2>3. r \in Seq(S) /\ Len(r) = 0
        BY <2>2
    <2>4. 1..(Len(q) - n) = {}
        BY <1>2
    <2> QED BY <1>2, <2>3, <2>4 DEF r
<1> QED BY <1>1, <1>2

LEMMA PrefixIs ==
    ASSUME NEW S, NEW q \in Seq(S), NEW n \in Nat
    PROVE  /\ Prefix(q, n) \in Seq(S)
           /\ Len(Prefix(q, n)) = IF n <= Len(q) THEN n ELSE Len(q)
           /\ \A i \in 1..Len(Prefix(q, n)) : Prefix(q, n)[i] = q[i]
<1> DEFINE m == IF n <= Len(q) THEN n ELSE Len(q)
           l == Len(q)
<1>1. l \in Nat
    OBVIOUS
<1>2. Min({n, l}) = IF n <= l THEN n ELSE l
    <2> HIDE DEF l
    <2> QED BY <1>1, MinOfTwo
<1>3. Prefix(q, n) = SubSeq(q, 1, m)
    BY <1>2 DEF Prefix
<1>4. m \in 0..Len(q)
    OBVIOUS
<1> HIDE DEF m, l
<1>5. /\ SubSeq(q, 1, m) \in Seq(S) /\ Len(SubSeq(q, 1, m)) = m
      /\ \A i \in 1..m : SubSeq(q, 1, m)[i] = q[i]
    BY <1>4, TakeAt
<1> QED BY <1>3, <1>5 DEF m

Groups(S) == [rest : Seq(S), out : Seq(Streams(S))]

GroupDoes(S, n, calls) == [p \in Groups(S) \X (1..calls) |->
    [rest |-> SubSeq(p[1].rest, n + 1, Len(p[1].rest)), out |-> Append(p[1].out, Prefix(p[1].rest, n))]]

LEMMA GroupStep ==
    ASSUME NEW S, NEW n \in Nat, NEW calls \in Nat, NEW it \in Groups(S), NEW x \in 1..calls
    PROVE  /\ GroupDoes(S, n, calls)[<<it, x>>] \in Groups(S)
           /\ GroupDoes(S, n, calls)[<<it, x>>].rest = Left(it.rest, n)
           /\ GroupDoes(S, n, calls)[<<it, x>>].out = Append(it.out, Prefix(it.rest, n))
<1> DEFINE v == GroupDoes(S, n, calls)[<<it, x>>]
           rest == Left(it.rest, n)
           all == Append(it.out, Prefix(it.rest, n))
<1>1. it.rest \in Seq(S) /\ it.out \in Seq(Streams(S))
    BY DEF Groups
<1>2. v = [rest |-> rest, out |-> all]
    BY DEF GroupDoes, Left
<1>3. rest \in Seq(S)
    BY <1>1, DropFrom DEF Left
<1>4. Prefix(it.rest, n) \in Streams(S)
    BY <1>1, PrefixIs, StreamsDef
<1>5. all \in Seq(Streams(S))
    BY <1>1, <1>4, AppendProperties
<1> HIDE DEF v, rest, all
<1>6. v \in Groups(S)
    BY <1>2, <1>3, <1>5 DEF Groups
<1> QED BY <1>2, <1>6 DEF v, rest, all

LEMMA GroupStates ==
    ASSUME NEW Elt, NEW s \in Seq(Elt), NEW n \in Nat, NEW calls \in Nat
    PROVE  \E st : States(st, Groups(Elt), GroupDoes(Elt, n, calls), [rest |-> s, out |-> <<>>], Upto(calls)) /\ window_count(s, n, calls) = st[Len(Upto(calls))].out
<1>0. Upto(calls) \in Seq((1..calls)) /\ DOMAIN Upto(calls) = 1..Len(Upto(calls)) /\ Len(Upto(calls)) \in Nat
      /\ \A k \in 1..Len(Upto(calls)) : Upto(calls)[k] \in (1..calls)
    BY UptoIs
<1>1. GroupDoes(Elt, n, calls) \in [Groups(Elt) \X (1..calls) -> Groups(Elt)]
    
    <2>1. ASSUME NEW w \in Groups(Elt), NEW k \in 1..calls PROVE GroupDoes(Elt, n, calls)[<<w, k>>] \in Groups(Elt)
        BY GroupStep
    <2>2. \A p \in Groups(Elt) \X (1..calls) : p = <<p[1], p[2]>> /\ p[1] \in Groups(Elt) /\ p[2] \in 1..calls
        OBVIOUS
    <2>3. \A p \in Groups(Elt) \X (1..calls) : GroupDoes(Elt, n, calls)[p] \in Groups(Elt)
        BY <2>1, <2>2, Zenon
    <2>4. /\ DOMAIN GroupDoes(Elt, n, calls) = Groups(Elt) \X (1..calls)
          /\ GroupDoes(Elt, n, calls) = [p \in DOMAIN GroupDoes(Elt, n, calls) |-> GroupDoes(Elt, n, calls)[p]]
        BY DEF GroupDoes
    <2> QED BY <2>3, <2>4
<1>2. \A x \in Groups(Elt), y \in (1..calls) : GroupDoes(Elt, n, calls)[<<x, y>>] = [rest |-> SubSeq(x.rest, n + 1, Len(x.rest)), out |-> Append(x.out, Prefix(x.rest, n))]
    BY DEF GroupDoes
<1>3. [rest |-> s, out |-> <<>>] \in Groups(Elt)
    BY EmptySeq DEF Groups
<1> DEFINE Is(it) == it = [S \in SUBSET (DOMAIN Upto(calls)) |->
                              IF S = {} THEN [rest |-> s, out |-> <<>>] ELSE [rest |-> SubSeq(it[S \ {Max(S)}].rest, n + 1, Len(it[S \ {Max(S)}].rest)), out |-> Append(it[S \ {Max(S)}].out, Prefix(it[S \ {Max(S)}].rest, n))]]
           fold == CHOOSE it : Is(it)
<1>4. \E it : Is(it)
    <2>1. PICK it \in [SUBSET (1..Len(Upto(calls))) -> Groups(Elt)] : Folds(it, Groups(Elt), GroupDoes(Elt, n, calls), [rest |-> s, out |-> <<>>], Upto(calls))
        BY <1>0, <1>1, <1>3, FoldExists, Zenon
    <2>2. ASSUME NEW S \in SUBSET (1..Len(Upto(calls))), S # {}
          PROVE  it[S] = [rest |-> SubSeq(it[S \ {Max(S)}].rest, n + 1, Len(it[S \ {Max(S)}].rest)), out |-> Append(it[S \ {Max(S)}].out, Prefix(it[S \ {Max(S)}].rest, n))]
        <3>1. Max(S) \in 1..Len(Upto(calls))
            BY <1>0, <2>2, LastPlace
        <3>2. it[S \ {Max(S)}] \in Groups(Elt) /\ Upto(calls)[Max(S)] \in (1..calls)
            BY <1>0, <3>1
        <3>3. it[S] = GroupDoes(Elt, n, calls)[<<it[S \ {Max(S)}], Upto(calls)[Max(S)]>>]
            BY <2>1, <2>2, <3>2 DEF Folds
        <3> QED BY <1>2, <3>2, <3>3
    <2>3. Is(it)
        BY <1>0, <2>1, <2>2 DEF Folds
    <2> QED BY <2>3
<1>5. Is(fold)
    <2> HIDE DEF Is
    <2> QED BY <1>4
<1>6. window_count(s, n, calls) = fold[1..Len(Upto(calls))].out
    <2>1. window_count(s, n, calls) = fold[DOMAIN Upto(calls)].out
        BY Zenon DEF window_count, Upto, FoldLeft, MapThenFoldSet
    <2> HIDE DEF fold
    <2> QED BY <1>0, <2>1
<1> HIDE DEF fold
<1>7. Folds(fold, Groups(Elt), GroupDoes(Elt, n, calls), [rest |-> s, out |-> <<>>], Upto(calls))
    <2>1. fold[{}] = [rest |-> s, out |-> <<>>]
        BY <1>5
    <2>2. ASSUME NEW S \in SUBSET (1..Len(Upto(calls))), S # {}, fold[S \ {Max(S)}] \in Groups(Elt)
          PROVE  fold[S] = GroupDoes(Elt, n, calls)[<<fold[S \ {Max(S)}], Upto(calls)[Max(S)]>>]
        <3>1. Upto(calls)[Max(S)] \in (1..calls)
            BY <1>0, <2>2, LastPlace, ZenonT(40)
        <3>2. fold[S] = [rest |-> SubSeq(fold[S \ {Max(S)}].rest, n + 1, Len(fold[S \ {Max(S)}].rest)), out |-> Append(fold[S \ {Max(S)}].out, Prefix(fold[S \ {Max(S)}].rest, n))]
            BY <1>0, <1>5, <2>2, ZenonT(40)
        <3> QED BY <1>2, <2>2, <3>1, <3>2
    <2> QED BY <2>1, <2>2 DEF Folds
<1>8. LastState(fold[1..Len(Upto(calls))], Groups(Elt), GroupDoes(Elt, n, calls), [rest |-> s, out |-> <<>>], Upto(calls))
    BY <1>0, <1>1, <1>3, <1>7, FoldStates, Zenon
<1> QED BY <1>6, <1>8 DEF LastState

\* Nothing is skipped or given twice, and a window is short only when the
\* iterator is used up, for windows of every size and however often it is asked.
THEOREM WindowCountIsWindows ==
    \A S : \A s \in Seq(S), n \in Nat, calls \in Nat : IsWindows(s, n, calls, window_count(s, n, calls))
<1> SUFFICES ASSUME NEW S, NEW s \in Seq(S), NEW n \in Nat, NEW calls \in Nat
             PROVE  IsWindows(s, n, calls, window_count(s, n, calls))
    OBVIOUS
<1> DEFINE base == [rest |-> s, out |-> <<>>]
           l == Len(s)
           \* How much of s is gone after k calls
           gone(k) == IF n * k <= l THEN n * k ELSE l
<1>1. PICK st : /\ States(st, Groups(S), GroupDoes(S, n, calls), base, Upto(calls))
                /\ window_count(s, n, calls) = st[Len(Upto(calls))].out
    BY GroupStates
<1>2. /\ st[0] = base /\ \A k \in 0..calls : st[k] \in Groups(S)
      /\ \A k \in 1..calls : st[k] = GroupDoes(S, n, calls)[<<st[k - 1], k>>]
    BY <1>1, UptoIs DEF States
<1>3. l \in Nat /\ \A k \in 0..calls : n * k \in Nat /\ gone(k) \in 0..l
    OBVIOUS
<1> DEFINE Inv(k) == /\ Len(st[k].rest) = l - gone(k)
                     /\ \A i \in 1..(l - gone(k)) : st[k].rest[i] = s[gone(k) + i]
                     /\ Len(FlattenSeq(st[k].out)) = gone(k)
                     /\ \A i \in 1..gone(k) : FlattenSeq(st[k].out)[i] = s[i]
                     /\ Len(st[k].out) = k
                     /\ \A j \in 1..k : Len(st[k].out[j]) = n \/ j * n > l
<1>4. Inv(0)
    <2>1. st[0].rest = s /\ st[0].out = <<>>
        BY <1>2
    <2>2. gone(0) = 0
        BY <1>3
    <2>3. FlattenSeq(<<>>) = <<>> /\ Len(<<>>) = 0 /\ 1..0 = {}
        BY FlattenEmpty
    <2> HIDE DEF gone
    <2>4. Len(st[0].rest) = l - gone(0) /\ \A i \in 1..(l - gone(0)) : st[0].rest[i] = s[gone(0) + i]
        BY <1>3, <2>1, <2>2
    <2>5. Len(st[0].out) = 0 /\ Len(FlattenSeq(st[0].out)) = gone(0)
        BY <2>1, <2>2, <2>3
    <2> QED BY <2>2, <2>3, <2>4, <2>5
<1>5. ASSUME NEW k \in 0..calls, k < calls, Inv(k) PROVE Inv(k + 1)
    <2> DEFINE w == st[k]
               i0 == k + 1
               v == GroupDoes(S, n, calls)[<<w, i0>>]
               rest == w.rest
               all == w.out
               new == Prefix(rest, n)
               left == SubSeq(rest, n + 1, Len(rest))
               g == gone(k)
               h == gone(k + 1)
               flat == FlattenSeq(all)
    <2>1. i0 \in 1..calls /\ i0 - 1 = k /\ k \in Nat
        BY <1>5
    <2>2. w \in Groups(S) /\ st[i0] = v
        BY <1>2, <2>1
    <2>3. v.rest = left /\ v.out = Append(all, new)
        <3> HIDE DEF i0, w
        <3>1. i0 \in 1..calls
            BY <2>1
        <3>2. w \in Groups(S)
            BY <2>2
        <3>3. v.rest = Left(w.rest, n) /\ v.out = Append(w.out, Prefix(w.rest, n))
            <4>1. v.rest = Left(w.rest, n)
                BY <3>1, <3>2, GroupStep, SMT
            <4>2. v.out = Append(w.out, Prefix(w.rest, n))
                BY <3>1, <3>2, GroupStep, SMT
            <4> QED BY <4>1, <4>2
        <3> QED BY <3>3 DEF Left
    <2>4. rest \in Seq(S) /\ all \in Seq(Streams(S))
        BY <2>2 DEF Groups
    <2>5. /\ Len(rest) = l - g /\ \A i \in 1..(l - g) : rest[i] = s[g + i]
          /\ Len(flat) = g /\ \A i \in 1..g : flat[i] = s[i]
          /\ Len(all) = k /\ \A j \in 1..k : Len(all[j]) = n \/ j * n > l
        BY <1>5
    <2>6. /\ left \in Seq(S) /\ Len(left) = IF n <= Len(rest) THEN Len(rest) - n ELSE 0
          /\ \A i \in 1..(Len(rest) - n) : left[i] = rest[n + i]
        BY <2>4, DropFrom
    <2>7. /\ new \in Seq(S) /\ Len(new) = IF n <= Len(rest) THEN n ELSE Len(rest)
          /\ \A i \in 1..Len(new) : new[i] = rest[i]
        BY <2>4, PrefixIs
    <2>8. flat \in Seq(S) /\ FlattenSeq(Append(all, new)) = flat \o new
        <3>1. new \in Streams(S)
            BY <2>7, StreamsDef
        <3> HIDE DEF new, all
        <3> QED BY <2>4, <3>1, FlattenAppend, FlattenType, StreamsDef
    <2>9. /\ Len(Append(all, new)) = k + 1 /\ Append(all, new)[k + 1] = new
          /\ \A j \in 1..k : Append(all, new)[j] = all[j]
        <3>1. new \in Streams(S)
            BY <2>7, StreamsDef
        <3> HIDE DEF new, all
        <3> QED BY <2>4, <2>5, <3>1, AppendProperties
    <2>10. /\ Len(flat \o new) = g + Len(new)
           /\ \A i \in 1..g : (flat \o new)[i] = flat[i]
           /\ \A i \in 1..Len(new) : (flat \o new)[g + i] = new[i]
        <3> HIDE DEF flat, new
        <3>1. /\ Len(flat \o new) = Len(flat) + Len(new)
              /\ \A i \in 1..Len(flat) : (flat \o new)[i] = flat[i]
              /\ \A i \in 1..Len(new) : (flat \o new)[Len(flat) + i] = new[i]
            <4>1. flat \in Seq(S) /\ new \in Seq(S)
                BY <2>7, <2>8
            <4> QED BY <4>1, ConcatAt
        <3> QED BY <2>5, <3>1
    <2> DEFINE a == n * k
               b == n * (k + 1)
               m == Len(new)
    <2>11. /\ a \in Nat /\ b = a + n /\ (k + 1) * n = b
           /\ g = (IF a <= l THEN a ELSE l) /\ h = (IF b <= l THEN b ELSE l)
        BY <2>1
    <2>12. Len(rest) \in Nat
        BY <2>4
    <2> HIDE DEF a, b, g, h, rest, all, new, left, flat, w, v, gone, i0, l
    <2>13. m = (IF n <= l - g THEN n ELSE l - g) /\ g \in Nat /\ l - g \in Nat
        BY <1>3, <2>5, <2>7, <2>11, <2>12
    <2>14. h = g + m /\ (m = n \/ b > l)
        BY <1>3, <2>11, <2>13
    <2>15. Len(left) = l - h /\ \A i \in 1..(l - h) : left[i] = s[h + i]
        <3>1. CASE n <= l - g
            <4>1. h = g + n /\ Len(left) = l - g - n
                BY <1>3, <2>5, <2>6, <2>13, <2>14, <3>1
            <4>2. ASSUME NEW i \in 1..(l - h) PROVE left[i] = s[h + i]
                <5>1. i \in 1..(Len(rest) - n) /\ n + i \in 1..(l - g) /\ h + i = g + (n + i)
                    BY <1>3, <2>5, <2>13, <3>1, <4>1
                <5> QED BY <2>5, <2>6, <5>1
            <4> QED BY <1>3, <2>13, <4>1, <4>2
        <3>2. CASE ~(n <= l - g)
            <4>1. h = l /\ Len(left) = 0
                BY <1>3, <2>5, <2>6, <2>13, <2>14, <3>2
            <4> QED BY <1>3, <4>1
        <3> QED BY <3>1, <3>2
    <2>16. Len(flat \o new) = h /\ \A i \in 1..h : (flat \o new)[i] = s[i]
        <3>1. ASSUME NEW i \in 1..h PROVE (flat \o new)[i] = s[i]
            <4>1. CASE i <= g
                BY <2>5, <2>10, <2>13, <4>1
            <4>2. CASE ~(i <= g)
                <5> DEFINE j == i - g
                <5>1. j \in 1..m /\ g + j = i /\ j \in 1..(l - g)
                    BY <2>13, <2>14, <4>2
                <5> HIDE DEF j
                <5>2. (flat \o new)[g + j] = new[j] /\ new[j] = rest[j] /\ rest[j] = s[g + j]
                    BY <2>5, <2>7, <2>10, <5>1
                <5> QED BY <5>1, <5>2
            <4> QED BY <4>1, <4>2
        <3> QED BY <2>10, <2>14, <3>1
    <2>17. \A j \in 1..(k + 1) : Len(Append(all, new)[j]) = n \/ j * n > l
        <3>1. \A j \in 1..(k + 1) : j \in 1..k \/ j = k + 1
            BY <2>1
        <3>2. \A j \in 1..k : Len(Append(all, new)[j]) = n \/ j * n > l
            BY <2>5, <2>9
        <3>3. Len(Append(all, new)[k + 1]) = n \/ (k + 1) * n > l
            BY <2>9, <2>11, <2>14
        <3> QED BY <3>1, <3>2, <3>3, Zenon
    <2>18. st[k + 1].rest = left /\ st[k + 1].out = Append(all, new) /\ FlattenSeq(Append(all, new)) = flat \o new
        BY <2>2, <2>3, <2>8 DEF i0
    <2> QED BY <2>9, <2>15, <2>16, <2>17, <2>18 DEF h, i0
<1> HIDE DEF Inv
<1>6. Inv(calls)
    <2> DEFINE P == {k \in 0..calls : Inv(k)}
    <2>1. P \in SUBSET (0..calls) /\ 0 \in P /\ \A k \in P : k < calls => k + 1 \in P
        BY <1>4, <1>5
    <2> HIDE DEF P
    <2>2. \A k \in 0..calls : k \in P
        BY <2>1, InductionUpTo
    <2> QED BY <2>2 DEF P
<1> DEFINE out == st[calls].out
           flat == FlattenSeq(out)
<1>7. window_count(s, n, calls) = out /\ out \in Seq(Streams(S))
    BY <1>1, <1>2, UptoIs DEF Groups
<1>8. flat \in Seq(S)
    <2> HIDE DEF out
    <2> QED BY <1>7, FlattenType, StreamsDef
<1>9. /\ Len(flat) = gone(calls) /\ \A i \in 1..gone(calls) : flat[i] = s[i]
      /\ Len(out) = calls /\ \A j \in 1..calls : Len(out[j]) = n \/ j * n > l
    BY <1>6 DEF Inv
<1>10. flat = Prefix(s, n * calls)
    <2> DEFINE p == n * calls
    <2>1. p \in Nat
        OBVIOUS
    <2> HIDE DEF p
    <2> DEFINE t == Prefix(s, p)
    <2>2. t \in Seq(S) /\ Len(t) = (IF p <= l THEN p ELSE l) /\ \A i \in 1..Len(t) : t[i] = s[i]
        BY <2>1, PrefixIs
    <2> HIDE DEF t, flat, l
    <2>3. Len(t) = Len(flat) /\ \A i \in 1..Len(t) : t[i] = flat[i]
        BY <1>9, <2>2 DEF p
    <2>4. t = flat
        BY <1>8, <2>2, <2>3, SeqEqual
    <2> QED BY <2>4 DEF t, p
<1> HIDE DEF out
<1> QED BY <1>7, <1>9, <1>10 DEF IsWindows

-----------------------------------------------------------------------------
(* NodeAdapter *)

LEMMA ComponentsIs ==
    ASSUME NEW chain
    PROVE  Components(chain) = [consensus |-> chain, evm |-> chain]
<1>1. NoComponents = [consensus |-> "()", evm |-> "()"]
    BY DEF NoComponents
<1>2. build_consensus(NoComponents, chain) = [consensus |-> chain, evm |-> "()"]
    BY <1>1 DEF build_consensus
<1>3. build_executor([consensus |-> chain, evm |-> "()"], chain) = [consensus |-> chain, evm |-> chain]
    BY DEF build_executor
<1> QED BY <1>2, <1>3, Zenon DEF Components

LEMMA JoinTwo ==
    ASSUME NEW x, NEW y
    PROVE  <<x>> \o <<y>> = <<x, y>>
<1> DEFINE S == {x, y}
           a == <<x>>
           b == <<y>>
           c == <<x, y>>
<1>1. a \in Seq(S) /\ b \in Seq(S) /\ Len(a) = 1 /\ Len(b) = 1 /\ a[1] = x /\ b[1] = y
    OBVIOUS
<1>2. c \in Seq(S) /\ Len(c) = 2 /\ c[1] = x /\ c[2] = y
    OBVIOUS
<1> HIDE DEF a, b, c, S
<1> DEFINE d == a \o b
<1>3. d \in Seq(S) /\ Len(d) = 2 /\ d[1] = x /\ d[2] = y
    <2>1. d \in Seq(S) /\ Len(d) = Len(a) + Len(b) /\ (\A i \in 1..Len(a) : d[i] = a[i])
          /\ \A i \in 1..Len(b) : d[Len(a) + i] = b[i]
        <3>1. a \in Seq(S) /\ b \in Seq(S)
            BY <1>1
        <3> QED BY <3>1, ConcatAt
    <2> HIDE DEF d
    <2>2. 1 \in 1..1 /\ 1 + 1 = 2
        OBVIOUS
    <2>3. d[1] = a[1] /\ d[1 + 1] = b[1]
        BY <1>1, <2>1, <2>2
    <2> QED BY <1>1, <2>1, <2>2, <2>3
<1> HIDE DEF d
<1>4. \A i \in 1..Len(d) : i = 1 \/ i = 2
    BY <1>3
<1>5. d = c
    BY <1>2, <1>3, <1>4, SeqEqual
<1> QED BY <1>5 DEF a, b, c, d

LEMMA JoinThree ==
    ASSUME NEW x, NEW y, NEW z
    PROVE  <<x>> \o (<<y>> \o <<z>>) = <<x, y, z>>
<1> DEFINE S == {x, y, z}
           a == <<x>>
           b == <<y, z>>
           c == <<x, y, z>>
<1>1. a \in Seq(S) /\ b \in Seq(S) /\ Len(a) = 1 /\ Len(b) = 2 /\ a[1] = x /\ b[1] = y /\ b[2] = z
    OBVIOUS
<1>2. c \in Seq(S) /\ Len(c) = 3 /\ c[1] = x /\ c[2] = y /\ c[3] = z
    OBVIOUS
<1> HIDE DEF a, b, c, S
<1> DEFINE d == a \o b
<1>3. d \in Seq(S) /\ Len(d) = 3 /\ d[1] = x /\ d[2] = y /\ d[3] = z
    <2>1. d \in Seq(S) /\ Len(d) = Len(a) + Len(b) /\ (\A i \in 1..Len(a) : d[i] = a[i])
          /\ \A i \in 1..Len(b) : d[Len(a) + i] = b[i]
        <3>1. a \in Seq(S) /\ b \in Seq(S)
            BY <1>1
        <3> QED BY <3>1, ConcatAt
    <2> HIDE DEF d
    <2>2. 1 \in 1..1 /\ 1 \in 1..2 /\ 2 \in 1..2 /\ 1 + 1 = 2 /\ 1 + 2 = 3
        OBVIOUS
    <2>3. d[1] = a[1] /\ d[1 + 1] = b[1] /\ d[1 + 2] = b[2]
        BY <1>1, <2>1, <2>2
    <2> QED BY <1>1, <2>1, <2>2, <2>3
<1> HIDE DEF d
<1>4. \A i \in 1..Len(d) : i = 1 \/ i = 2 \/ i = 3
    BY <1>3
<1>5. d = c
    BY <1>2, <1>3, <1>4, SeqEqual
<1> QED BY <1>5, JoinTwo DEF a, b, c, d
NodeCalls(X) == {"consensus", "evm"} \X X

NodePairs(X) == [consensus : X, evm : X]

Builds(X) == [q \in NodePairs(X) \X NodeCalls(X) |->
    IF q[2][1] = "consensus" THEN [q[1] EXCEPT !.consensus = q[2][2]] ELSE [q[1] EXCEPT !.evm = q[2][2]]]

LEMMA BuildStep ==
    ASSUME NEW X, NEW c \in NodePairs(X), NEW b \in NodeCalls(X)
    PROVE  LET d == Builds(X)[<<c, b>>] IN
           /\ d \in NodePairs(X)
           /\ b[1] = "consensus" => d.consensus = b[2] /\ d.evm = c.evm
           /\ b[1] = "evm" => d.evm = b[2] /\ d.consensus = c.consensus
<1> DEFINE d == Builds(X)[<<c, b>>]
<1>1. c = [consensus |-> c.consensus, evm |-> c.evm] /\ c.consensus \in X /\ c.evm \in X
    BY DEF NodePairs
<1>2. b[1] \in {"consensus", "evm"} /\ b[2] \in X
    BY DEF NodeCalls
<1>3. d = IF b[1] = "consensus" THEN [c EXCEPT !.consensus = b[2]] ELSE [c EXCEPT !.evm = b[2]]
    BY DEF Builds
<1> HIDE DEF d
<1>4. CASE b[1] = "consensus"
    <2>1. d = [consensus |-> b[2], evm |-> c.evm]
        BY <1>1, <1>3, <1>4
    <2>2. d \in NodePairs(X)
        BY <1>1, <1>2, <2>1 DEF NodePairs
    <2> QED BY <1>4, <2>1, <2>2 DEF d
<1>5. CASE b[1] = "evm"
    <2>1. d = [consensus |-> c.consensus, evm |-> b[2]]
        BY <1>1, <1>3, <1>5
    <2>2. d \in NodePairs(X)
        BY <1>1, <1>2, <2>1 DEF NodePairs
    <2> QED BY <1>5, <2>1, <2>2 DEF d
<1> QED BY <1>2, <1>4, <1>5

LEMMA NodeStates ==
    ASSUME NEW X, NEW chain \in X, NEW calls \in Seq(NodeCalls(X))
    PROVE  \E st : States(st, NodePairs(X), Builds(X), [consensus |-> chain, evm |-> chain], calls) /\ Launch(chain, calls) = launch_node(st[Len(calls)])
<1>0. calls \in Seq(NodeCalls(X)) /\ DOMAIN calls = 1..Len(calls) /\ Len(calls) \in Nat
      /\ \A k \in 1..Len(calls) : calls[k] \in NodeCalls(X)
    OBVIOUS
<1>1. Builds(X) \in [NodePairs(X) \X NodeCalls(X) -> NodePairs(X)]
    
    <2>1. ASSUME NEW c \in NodePairs(X), NEW b \in NodeCalls(X) PROVE Builds(X)[<<c, b>>] \in NodePairs(X)
        BY BuildStep
    <2>2. \A q \in NodePairs(X) \X NodeCalls(X) : q = <<q[1], q[2]>> /\ q[1] \in NodePairs(X) /\ q[2] \in NodeCalls(X)
        OBVIOUS
    <2>3. \A q \in NodePairs(X) \X NodeCalls(X) : Builds(X)[q] \in NodePairs(X)
        BY <2>1, <2>2, Zenon
    <2>4. DOMAIN Builds(X) = NodePairs(X) \X NodeCalls(X) /\ Builds(X) = [q \in DOMAIN Builds(X) |-> Builds(X)[q]]
        BY DEF Builds
    <2> QED BY <2>3, <2>4
<1>2. \A x \in NodePairs(X), y \in NodeCalls(X) : Builds(X)[<<x, y>>] = (IF y[1] = "consensus" THEN [x EXCEPT !.consensus = y[2]] ELSE [x EXCEPT !.evm = y[2]])
    BY DEF Builds
<1>3. [consensus |-> chain, evm |-> chain] \in NodePairs(X)
    BY DEF NodePairs
<1> DEFINE Is(it) == it = [S \in SUBSET (DOMAIN calls) |->
                              IF S = {} THEN [consensus |-> chain, evm |-> chain] ELSE (IF calls[Max(S)][1] = "consensus" THEN [it[S \ {Max(S)}] EXCEPT !.consensus = calls[Max(S)][2]] ELSE [it[S \ {Max(S)}] EXCEPT !.evm = calls[Max(S)][2]])]
           fold == CHOOSE it : Is(it)
<1>4. \E it : Is(it)
    <2>1. PICK it \in [SUBSET (1..Len(calls)) -> NodePairs(X)] : Folds(it, NodePairs(X), Builds(X), [consensus |-> chain, evm |-> chain], calls)
        BY <1>0, <1>1, <1>3, FoldExists, Zenon
    <2>2. ASSUME NEW S \in SUBSET (1..Len(calls)), S # {}
          PROVE  it[S] = (IF calls[Max(S)][1] = "consensus" THEN [it[S \ {Max(S)}] EXCEPT !.consensus = calls[Max(S)][2]] ELSE [it[S \ {Max(S)}] EXCEPT !.evm = calls[Max(S)][2]])
        <3>1. Max(S) \in 1..Len(calls)
            BY <1>0, <2>2, LastPlace
        <3>2. it[S \ {Max(S)}] \in NodePairs(X) /\ calls[Max(S)] \in NodeCalls(X)
            BY <1>0, <3>1
        <3>3. it[S] = Builds(X)[<<it[S \ {Max(S)}], calls[Max(S)]>>]
            BY <2>1, <2>2, <3>2 DEF Folds
        <3> QED BY <1>2, <3>2, <3>3
    <2>3. Is(it)
        BY <1>0, <2>1, <2>2 DEF Folds
    <2> QED BY <2>3
<1>5. Is(fold)
    <2> HIDE DEF Is
    <2> QED BY <1>4
<1>6. Launch(chain, calls) = launch_node(fold[1..Len(calls)])
    <2>0. Components(chain) = [consensus |-> chain, evm |-> chain]
        BY ComponentsIs
    <2>1. Launch(chain, calls) = launch_node(fold[DOMAIN calls])
        BY <2>0, Zenon DEF Launch, build_consensus, build_executor, FoldLeft, MapThenFoldSet
    <2> HIDE DEF fold
    <2> QED BY <1>0, <2>1
<1> HIDE DEF fold
<1>7. Folds(fold, NodePairs(X), Builds(X), [consensus |-> chain, evm |-> chain], calls)
    <2>1. fold[{}] = [consensus |-> chain, evm |-> chain]
        BY <1>5
    <2>2. ASSUME NEW S \in SUBSET (1..Len(calls)), S # {}, fold[S \ {Max(S)}] \in NodePairs(X)
          PROVE  fold[S] = Builds(X)[<<fold[S \ {Max(S)}], calls[Max(S)]>>]
        <3>1. calls[Max(S)] \in NodeCalls(X)
            BY <1>0, <2>2, LastPlace
        <3>2. fold[S] = (IF calls[Max(S)][1] = "consensus" THEN [fold[S \ {Max(S)}] EXCEPT !.consensus = calls[Max(S)][2]] ELSE [fold[S \ {Max(S)}] EXCEPT !.evm = calls[Max(S)][2]])
            BY <1>0, <1>5, <2>2
        <3> QED BY <1>2, <2>2, <3>1, <3>2
    <2> QED BY <2>1, <2>2 DEF Folds
<1>8. LastState(fold[1..Len(calls)], NodePairs(X), Builds(X), [consensus |-> chain, evm |-> chain], calls)
    BY <1>0, <1>1, <1>3, <1>7, FoldStates, Zenon
<1> QED BY <1>6, <1>8 DEF LastState

\* The genesis block is validated and handled by the components that were given
\* last, in this order, whatever was given and however often.
THEOREM LaunchIsLaunch ==
    \A X : \A chain \in X, calls \in Seq(NodeCalls(X)) : IsLaunch(chain, calls, Launch(chain, calls))
<1> SUFFICES ASSUME NEW X, NEW chain \in X, NEW calls \in Seq(NodeCalls(X))
             PROVE  IsLaunch(chain, calls, Launch(chain, calls))
    OBVIOUS
<1> DEFINE n == Len(calls)
           base == [consensus |-> chain, evm |-> chain]
           given(kind) == {i \in DOMAIN calls : calls[i][1] = kind}
           last(kind) == IF given(kind) = {} THEN chain ELSE calls[Max(given(kind))][2]
           \* x is what the last of the first k calls for a kind gave
           Last1(kind, x, k) == \/ x = chain /\ \A j \in 1..k : calls[j][1] # kind
                               \/ \E i \in 1..k : /\ calls[i][1] = kind /\ x = calls[i][2]
                                                  /\ \A j \in (i + 1)..k : calls[j][1] # kind
<1>1. PICK st : States(st, NodePairs(X), Builds(X), base, calls) /\ Launch(chain, calls) = launch_node(st[n])
    BY NodeStates
<1>2. /\ n \in Nat /\ DOMAIN calls = 1..n
      /\ st[0] = base /\ \A k \in 0..n : st[k] \in NodePairs(X)
      /\ \A k \in 1..n : calls[k] \in NodeCalls(X) /\ st[k] = Builds(X)[<<st[k - 1], calls[k]>>]
    BY <1>1, SMTT(30) DEF States
<1> HIDE DEF n
<1> DEFINE Inv(k) == Last1("consensus", st[k].consensus, k) /\ Last1("evm", st[k].evm, k)
<1>3. Inv(0)
    <2>1. st[0].consensus = chain /\ st[0].evm = chain
        BY <1>2
    <2> QED BY <2>1
<1>4. ASSUME NEW k \in 0..n, k < n, Inv(k) PROVE Inv(k + 1)
    <2> DEFINE b == calls[k + 1]
               c == st[k]
    <2>1. k \in Nat /\ k + 1 \in 1..n /\ (k + 1) - 1 = k
        BY <1>2, <1>4
    <2>2. b \in NodeCalls(X) /\ c \in NodePairs(X) /\ st[k + 1] = Builds(X)[<<c, b>>]
        BY <1>2, <2>1
    <2>3. b[1] \in {"consensus", "evm"}
        BY <2>2 DEF NodeCalls
    <2>4. /\ b[1] = "consensus" => st[k + 1].consensus = b[2] /\ st[k + 1].evm = c.evm
          /\ b[1] = "evm" => st[k + 1].evm = b[2] /\ st[k + 1].consensus = c.consensus
        BY <2>2, BuildStep
    <2>5. ASSUME NEW kind, b[1] = kind PROVE Last1(kind, b[2], k + 1)
        <3>1. k + 1 \in 1..(k + 1) /\ ((k + 1) + 1)..(k + 1) = {}
            BY <2>1
        <3> QED BY <2>5, <3>1
    <2>6. ASSUME NEW kind, NEW x, b[1] # kind, Last1(kind, x, k) PROVE Last1(kind, x, k + 1)
        <3>1. CASE x = chain /\ \A j \in 1..k : calls[j][1] # kind
            <4>1. \A j \in 1..(k + 1) : j \in 1..k \/ j = k + 1
                BY <2>1
            <4> QED BY <2>6, <3>1, <4>1
        <3>2. CASE \E i \in 1..k : /\ calls[i][1] = kind /\ x = calls[i][2]
                                   /\ \A j \in (i + 1)..k : calls[j][1] # kind
            <4>1. PICK i \in 1..k : /\ calls[i][1] = kind /\ x = calls[i][2]
                                    /\ \A j \in (i + 1)..k : calls[j][1] # kind
                BY <3>2
            <4>2. i \in 1..(k + 1) /\ \A j \in (i + 1)..(k + 1) : j \in (i + 1)..k \/ j = k + 1
                BY <2>1
            <4> QED BY <2>6, <4>1, <4>2
        <3> QED BY <2>6, <3>1, <3>2
    <2>7. Last1("consensus", c.consensus, k) /\ Last1("evm", c.evm, k)
        BY <1>4
    <2> HIDE DEF Last1, b, c
    <2>8. CASE b[1] = "consensus"
        BY <2>4, <2>5, <2>6, <2>7, <2>8
    <2>9. CASE b[1] = "evm"
        BY <2>4, <2>5, <2>6, <2>7, <2>9
    <2> QED BY <2>3, <2>8, <2>9
<1> HIDE DEF Inv
<1>5. Inv(n)
    <2> DEFINE P == {k \in 0..n : Inv(k)}
    <2>1. P \in SUBSET (0..n) /\ 0 \in P /\ \A k \in P : k < n => k + 1 \in P
        BY <1>2, <1>3, <1>4
    <2> HIDE DEF P
    <2>2. \A k \in 0..n : k \in P
        BY <1>2, <2>1, InductionUpTo
    <2> QED BY <1>2, <2>2 DEF P
<1>6. ASSUME NEW kind, NEW x, Last1(kind, x, n) PROVE x = last(kind)
    <2>1. CASE x = chain /\ \A j \in 1..n : calls[j][1] # kind
        <3>1. given(kind) = {}
            BY <1>2, <2>1
        <3> QED BY <2>1, <3>1
    <2>2. CASE \E i \in 1..n : /\ calls[i][1] = kind /\ x = calls[i][2]
                               /\ \A j \in (i + 1)..n : calls[j][1] # kind
        <3>1. PICK i \in 1..n : /\ calls[i][1] = kind /\ x = calls[i][2]
                                /\ \A j \in (i + 1)..n : calls[j][1] # kind
            BY <2>2
        <3> DEFINE G == given(kind)
        <3>2. G \in SUBSET Int /\ i \in G /\ \A j \in G : i >= j
            BY <1>2, <3>1
        <3> HIDE DEF G
        <3>3. Max(G) = i
            BY <3>2, MaxIs
        <3> QED BY <3>1, <3>2, <3>3 DEF G
    <2> QED BY <1>6, <2>1, <2>2
<1>7. st[n].consensus = last("consensus") /\ st[n].evm = last("evm")
    <2> HIDE DEF Last1, last
    <2> QED BY <1>5, <1>6 DEF Inv
<1>8. validate_block(0)
    BY DEF validate_block
<1> DEFINE c == last("consensus")
           e == last("evm")
<1>9. launch_node(st[n]) = << <<"back_fill">>, <<"validate", c, 0>>, <<"handle", e, 0>> >>
    <2> HIDE DEF last
    <2>1. process_block(st[n], 0) = << <<"validate", c, 0>> >> \o << <<"handle", e, 0>> >>
        BY <1>7, <1>8 DEF process_block
    <2> DEFINE x == <<"back_fill">>
               y == <<"validate", c, 0>>
               z == <<"handle", e, 0>>
    <2>2. launch_node(st[n]) = <<x>> \o (<<y>> \o <<z>>)
        BY <2>1 DEF launch_node
    <2> HIDE DEF x, y, z
    <2>3. <<x>> \o (<<y>> \o <<z>>) = <<x, y, z>>
        BY JoinThree
    <2> QED BY <2>2, <2>3 DEF x, y, z
<1> QED BY <1>1, <1>9 DEF IsLaunch

-----------------------------------------------------------------------------
(* PluginHost *)

\* A function on an interval from one is a sequence
LEMMA IntervalIsSeq ==
    ASSUME NEW Y, NEW n \in Nat, NEW s, \A i \in 1..n : s[i] \in Y
    PROVE  [i \in 1..n |-> s[i]] \in Seq(Y) /\ Len([i \in 1..n |-> s[i]]) = n
<1> DEFINE t == [i \in 1..n |-> s[i]]
<1>1. t = [i \in 1..n |-> t[i]] /\ \A i \in 1..n : t[i] \in Y
    OBVIOUS
<1> HIDE DEF t
<1>2. t \in Seq(Y) /\ Len(t) = n
    BY <1>1, FunctionIsSequence, Zenon
<1> QED BY <1>2 DEF t

\* A sequence of sequences is joined one element at a time
LEMMA FlattenExtend ==
    ASSUME NEW S, NEW n \in Nat, NEW s, s = [i \in 1..(n + 1) |-> s[i]],
           \A i \in 1..(n + 1) : s[i] \in Streams(S), NEW t, t = [i \in 1..n |-> s[i]]
    PROVE  /\ t \in Seq(Streams(S)) /\ FlattenSeq(t) \in Streams(S)
           /\ FlattenSeq(s) = FlattenSeq(t) \o s[n + 1]
<1> DEFINE Y == Streams(S)
           e == s[n + 1]
<1>1. (\A i \in 1..n : i \in 1..(n + 1)) /\ n + 1 \in 1..(n + 1)
    OBVIOUS
<1>2. (\A i \in 1..n : t[i] = s[i] /\ t[i] \in Y) /\ t = [i \in 1..n |-> t[i]] /\ e \in Y
    BY <1>1
<1>3. t \in Seq(Y) /\ Len(t) = n
    <2>1. \A i \in 1..n : s[i] \in Y
        BY <1>1
    <2> HIDE DEF Y, e
    <2> QED BY <2>1, IntervalIsSeq, ZenonT(40)
<1>4. s \in Seq(Y) /\ Len(s) = n + 1
    <2>1. n + 1 \in Nat
        OBVIOUS
    <2> QED BY <2>1, FunctionIsSequence
<1> DEFINE b == Append(t, e)
<1>5. b \in Seq(Y) /\ Len(b) = n + 1 /\ b[n + 1] = e /\ \A i \in 1..n : b[i] = t[i]
    BY <1>2, <1>3, AppendProperties
<1> HIDE DEF b, Y
<1>6. \A i \in 1..(n + 1) : b[i] = s[i]
    <2>1. \A i \in 1..(n + 1) : i \in 1..n \/ i = n + 1
        OBVIOUS
    <2> QED BY <1>2, <1>5, <2>1
<1>7. s = b
    <2> HIDE DEF e
    <2> QED BY <1>4, <1>5, <1>6, SeqEqual
<1>8. FlattenSeq(b) = FlattenSeq(t) \o e /\ FlattenSeq(t) \in Streams(S)
    <2> HIDE DEF e
    <2> QED BY <1>2, <1>3, FlattenAppend, FlattenType DEF b, Y
<1> QED BY <1>3, <1>7, <1>8 DEF Y

\* The functions of some of the names
Funs(N, R) == UNION {[D -> R] : D \in SUBSET N}

LEMMA FunsIs ==
    ASSUME NEW N, NEW R, NEW f
    PROVE  f \in Funs(N, R) <=>
              f = [n \in DOMAIN f |-> f[n]] /\ DOMAIN f \in SUBSET N /\ \A n \in DOMAIN f : f[n] \in R
BY DEF Funs

Extended(f, name, x) == [n \in DOMAIN f \cup {name} |-> IF n = name THEN x ELSE f[n]]

LEMMA ExtendedIs ==
    ASSUME NEW f, NEW name, NEW x
    PROVE  /\ DOMAIN Extended(f, name, x) = DOMAIN f \cup {name}
           /\ Extended(f, name, x)[name] = x
           /\ \A n \in DOMAIN f : n # name => Extended(f, name, x)[n] = f[n]
BY DEF Extended

LEMMA FunsExtend ==
    ASSUME NEW N, NEW R, NEW f \in Funs(N, R), NEW name \in N, NEW x \in R
    PROVE  Extended(f, name, x) \in Funs(N, R)
<1> DEFINE g == Extended(f, name, x)
<1>1. DOMAIN f \in SUBSET N /\ \A n \in DOMAIN f : f[n] \in R
    BY FunsIs
<1>2. DOMAIN g = DOMAIN f \cup {name} /\ g = [n \in DOMAIN g |-> g[n]] /\ DOMAIN g \in SUBSET N
    BY <1>1 DEF Extended
<1>3. g[name] = x /\ (\A n \in DOMAIN f : n # name => g[n] = f[n])
    BY DEF Extended
<1>4. \A n \in DOMAIN g : g[n] \in R
    BY <1>1, <1>2, <1>3
<1> HIDE DEF g
<1>5. g \in Funs(N, R)
    BY <1>2, <1>4, FunsIs
<1> QED BY <1>5 DEF g

\* A handler that was called, with its payload if it is one of an event
Handled(H, P) == {<<h>> : h \in H} \cup (H \X P)

Hosts(N, H, P) == [commands : Funs(N, H), events : Funs(N, Streams(H)),
                   refused : Nat, called : Streams(Handled(H, P))]

HostUses(N, H, P) == ({"register_cmd", "register_events"} \X N \X H)
                         \cup ({"execute_cmd"} \X N) \cup ({"emit_event"} \X N \X P)

LEMMA UseIs ==
    ASSUME NEW N, NEW H, NEW P, NEW c \in HostUses(N, H, P)
    PROVE  /\ c[2] \in N
           /\ c[1] \in {"register_cmd", "register_events", "execute_cmd", "emit_event"}
           /\ c[1] \in {"register_cmd", "register_events"} => c[3] \in H
           /\ c[1] = "emit_event" => c[3] \in P
BY DEF HostUses

HostDoes(N, H, P) == [q \in Hosts(N, H, P) \X HostUses(N, H, P) |-> Answer(q[1], q[2])]

LEMMA HostIs ==
    ASSUME NEW N, NEW H, NEW P, NEW h
    PROVE  h \in Hosts(N, H, P) <=>
              /\ h = [commands |-> h.commands, events |-> h.events,
                      refused |-> h.refused, called |-> h.called]
              /\ h.commands \in Funs(N, H) /\ h.events \in Funs(N, Streams(H))
              /\ h.refused \in Nat /\ h.called \in Streams(Handled(H, P))
<1> DEFINE A == Funs(N, H)
           B == Funs(N, Streams(H))
           C == Streams(Handled(H, P))
<1> HIDE DEF A, B, C
<1>1. h \in [commands : A, events : B, refused : Nat, called : C] <=>
              /\ h = [commands |-> h.commands, events |-> h.events,
                      refused |-> h.refused, called |-> h.called]
              /\ h.commands \in A /\ h.events \in B /\ h.refused \in Nat /\ h.called \in C
    OBVIOUS
<1> QED BY <1>1 DEF Hosts, A, B, C

LEMMA RegisterCmd ==
    ASSUME NEW N, NEW H, NEW P, NEW h \in Hosts(N, H, P), NEW name \in N, NEW cmd \in H
    PROVE  LET w == register_cmd(h, name, cmd)
               g == Extended(h.commands, name, cmd)
           IN  /\ w \in Hosts(N, H, P)
               /\ w.events = h.events /\ w.called = h.called
               /\ name \in DOMAIN h.commands => w.commands = h.commands /\ w.refused = h.refused + 1
               /\ name \notin DOMAIN h.commands => w.commands = g /\ w.refused = h.refused
<1> DEFINE w == register_cmd(h, name, cmd)
           g == Extended(h.commands, name, cmd)
<1>1. /\ h = [commands |-> h.commands, events |-> h.events, refused |-> h.refused, called |-> h.called]
      /\ h.commands \in Funs(N, H) /\ h.events \in Funs(N, Streams(H))
      /\ h.refused \in Nat /\ h.called \in Streams(Handled(H, P))
    BY HostIs
<1>2. g \in Funs(N, H)
    BY <1>1, FunsExtend, ExtendedIs
<1>3. w = IF name \in DOMAIN h.commands THEN [h EXCEPT !.refused = @ + 1] ELSE [h EXCEPT !.commands = g]
    BY DEF register_cmd, Extended
<1> HIDE DEF w, g
<1>4. CASE name \in DOMAIN h.commands
    <2>1. w = [commands |-> h.commands, events |-> h.events, refused |-> h.refused + 1, called |-> h.called]
        BY <1>1, <1>3, <1>4
    <2>2. w.commands = h.commands /\ w.events = h.events /\ w.refused = h.refused + 1 /\ w.called = h.called
        BY <2>1
    <2>3. h.refused + 1 \in Nat
        BY <1>1
    <2>4. w \in Hosts(N, H, P)
        BY <1>1, <2>1, <2>2, <2>3, HostIs
    <2> QED BY <1>4, <2>2, <2>4 DEF w
<1>5. CASE name \notin DOMAIN h.commands
    <2>1. w = [commands |-> g, events |-> h.events, refused |-> h.refused, called |-> h.called]
        BY <1>1, <1>3, <1>5
    <2>2. w.commands = g /\ w.events = h.events /\ w.refused = h.refused /\ w.called = h.called
        BY <2>1
    <2>3. w \in Hosts(N, H, P)
        BY <1>1, <1>2, <2>1, <2>2, HostIs
    <2> QED BY <1>5, <2>2, <2>3 DEF w, g
<1> QED BY <1>4, <1>5

Heard(h, name) == IF name \in DOMAIN h.events THEN h.events[name] ELSE <<>>

LEMMA RegisterEvents ==
    ASSUME NEW N, NEW H, NEW P, NEW h \in Hosts(N, H, P), NEW name \in N, NEW handler \in H
    PROVE  LET w == register_events(h, name, handler)
           IN  /\ w \in Hosts(N, H, P)
               /\ w.commands = h.commands /\ w.called = h.called /\ w.refused = h.refused
               /\ DOMAIN w.events = DOMAIN h.events \cup {name}
               /\ w.events[name] = Append(Heard(h, name), handler)
               /\ \A n \in DOMAIN h.events : n # name => w.events[n] = h.events[n]
<1> DEFINE w == register_events(h, name, handler)
           x == Append(Heard(h, name), handler)
           g == Extended(h.events, name, x)
<1>1. /\ h = [commands |-> h.commands, events |-> h.events, refused |-> h.refused, called |-> h.called]
      /\ h.commands \in Funs(N, H) /\ h.events \in Funs(N, Streams(H))
      /\ h.refused \in Nat /\ h.called \in Streams(Handled(H, P))
    BY HostIs
<1>2. x \in Streams(H)
    <2>1. Heard(h, name) \in Seq(H)
        <3>1. CASE name \in DOMAIN h.events
            BY <1>1, <3>1, FunsIs, StreamsDef DEF Heard
        <3>2. CASE name \notin DOMAIN h.events
            BY <3>2, EmptySeq DEF Heard
        <3> QED BY <3>1, <3>2
    <2> QED BY <2>1, AppendProperties, StreamsDef
<1>4. w = [h EXCEPT !.events = g]
    BY DEF register_events, Heard, Extended
<1> HIDE DEF x
<1>3. /\ g \in Funs(N, Streams(H)) /\ DOMAIN g = DOMAIN h.events \cup {name} /\ g[name] = x
      /\ \A n \in DOMAIN h.events : n # name => g[n] = h.events[n]
    <2> DEFINE Y == Streams(H)
    <2>1. h.events \in Funs(N, Y) /\ name \in N /\ x \in Y
        BY <1>1, <1>2
    <2> HIDE DEF Y
    <2> DEFINE ev == h.events
    <2>3. ev \in Funs(N, Y)
        BY <2>1
    <2> HIDE DEF ev, g, w
    <2>2. /\ Extended(ev, name, x) \in Funs(N, Y)
          /\ DOMAIN Extended(ev, name, x) = DOMAIN ev \cup {name} /\ Extended(ev, name, x)[name] = x
          /\ \A n \in DOMAIN ev : n # name => Extended(ev, name, x)[n] = ev[n]
        <3>1. x \in Y
            BY <2>1, Zenon
        <3>2. Extended(ev, name, x) \in Funs(N, Y)
            BY <2>3, <3>1, FunsExtend, Zenon
        <3>3. /\ DOMAIN Extended(ev, name, x) = DOMAIN ev \cup {name}
              /\ Extended(ev, name, x)[name] = x
              /\ \A n \in DOMAIN ev : n # name => Extended(ev, name, x)[n] = ev[n]
            BY DEF Extended
        <3> QED BY <3>2, <3>3, Zenon
    <2> QED BY <2>2, Zenon DEF Y, ev, g
<1> HIDE DEF w, g
<1>5. w = [commands |-> h.commands, events |-> g, refused |-> h.refused, called |-> h.called]
    BY <1>1, <1>4
<1>6. w.commands = h.commands /\ w.events = g /\ w.refused = h.refused /\ w.called = h.called
    BY <1>5
<1>7. w \in Hosts(N, H, P)
    BY <1>1, <1>3, <1>5, <1>6, HostIs
<1> QED BY <1>3, <1>6, <1>7 DEF w, x

\* The host when it has called more handlers
Hands(h, more) == [h EXCEPT !.called = @ \o more]

LEMMA Called ==
    ASSUME NEW N, NEW H, NEW P, NEW h \in Hosts(N, H, P), NEW more \in Streams(Handled(H, P))
    PROVE  LET w == Hands(h, more)
           IN  /\ w \in Hosts(N, H, P)
               /\ w.commands = h.commands /\ w.events = h.events /\ w.refused = h.refused
               /\ w.called = h.called \o more
<1> DEFINE w == Hands(h, more)
           x == h.called \o more
<1>1. /\ h = [commands |-> h.commands, events |-> h.events, refused |-> h.refused, called |-> h.called]
      /\ h.commands \in Funs(N, H) /\ h.events \in Funs(N, Streams(H))
      /\ h.refused \in Nat /\ h.called \in Streams(Handled(H, P))
    BY HostIs
<1>2. x \in Streams(Handled(H, P))
    BY <1>1, StreamConcat
<1>3. w = [h EXCEPT !.called = x]
    BY DEF Hands
<1> HIDE DEF w, x
<1>4. w = [commands |-> h.commands, events |-> h.events, refused |-> h.refused, called |-> x]
    BY <1>1, <1>3
<1>5. w.commands = h.commands /\ w.events = h.events /\ w.refused = h.refused /\ w.called = x
    BY <1>4
<1>6. w \in Hosts(N, H, P)
    BY <1>1, <1>2, <1>4, <1>5, HostIs
<1> QED BY <1>5, <1>6 DEF w, x

\* What the host calls on a command or an event
Calling(h, c) ==
    IF c[1] = "execute_cmd"
    THEN IF c[2] \in DOMAIN h.commands THEN << <<h.commands[c[2]]>> >> ELSE <<>>
    ELSE [i \in DOMAIN Heard(h, c[2]) |-> <<Heard(h, c[2])[i], c[3]>>]

LEMMA CallingType ==
    ASSUME NEW N, NEW H, NEW P, NEW h \in Hosts(N, H, P), NEW c \in HostUses(N, H, P),
           c[1] \in {"execute_cmd", "emit_event"}
    PROVE  Calling(h, c) \in Streams(Handled(H, P))
<1>1. h.commands \in Funs(N, H) /\ h.events \in Funs(N, Streams(H))
    BY HostIs
<1>2. CASE c[1] = "execute_cmd"
    <2>1. CASE c[2] \in DOMAIN h.commands
        <3> DEFINE x == h.commands[c[2]]
                   Z == Handled(H, P)
        <3>1. x \in H
            BY <1>1, <2>1, FunsIs
        <3>2. <<x>> \in Z
            BY <3>1 DEF Handled
        <3> HIDE DEF x, Z
        <3>3. << <<x>> >> \in Seq(Z)
            BY <3>2
        <3> QED BY <1>2, <2>1, <3>3, StreamsDef DEF Calling, x, Z
    <2>2. CASE c[2] \notin DOMAIN h.commands
        BY <1>2, <2>2, EmptySeq, StreamsDef DEF Calling
    <2> QED BY <2>1, <2>2
<1>3. CASE c[1] = "emit_event"
    <2> DEFINE e == Heard(h, c[2])
               f == [i \in DOMAIN e |-> <<e[i], c[3]>>]
               Z == Handled(H, P)
    <2>1. e \in Seq(H) /\ c[3] \in P
        <3>0. c[3] \in P
            BY <1>3, UseIs
        <3>1. CASE c[2] \in DOMAIN h.events
            BY <1>1, <3>0, <3>1, FunsIs, StreamsDef DEF Heard
        <3>2. CASE c[2] \notin DOMAIN h.events
            BY <3>0, <3>2, EmptySeq DEF Heard
        <3> QED BY <3>1, <3>2
    <2>0. Calling(h, c) = f
        BY <1>3 DEF Calling
    <2> HIDE DEF e
    <2>2. DOMAIN e = 1..Len(e) /\ Len(e) \in Nat /\ \A i \in 1..Len(e) : e[i] \in H
        BY <2>1
    <2>3. \A i \in 1..Len(e) : f[i] = <<e[i], c[3]>> /\ f[i] \in Z
        BY <2>1, <2>2 DEF Handled
    <2>4. f = [i \in 1..Len(e) |-> f[i]]
        BY <2>2, <2>3
    <2> HIDE DEF f, Z
    <2>5. f \in Seq(Z)
        BY <2>2, <2>3, <2>4, FunctionIsSequence
    <2> QED BY <2>0, <2>5, StreamsDef DEF Z
<1> QED BY <1>2, <1>3

LEMMA AnswerCalls ==
    ASSUME NEW N, NEW H, NEW P, NEW h \in Hosts(N, H, P), NEW c \in HostUses(N, H, P),
           c[1] \in {"execute_cmd", "emit_event"}
    PROVE  LET w == Answer(h, c)
           IN  /\ w \in Hosts(N, H, P)
               /\ w.commands = h.commands /\ w.events = h.events /\ w.refused = h.refused
               /\ w.called = h.called \o Calling(h, c)
<1> DEFINE w == Answer(h, c)
           more == Calling(h, c)
           new == Hands(h, more)
           Z == Handled(H, P)
<1>1. more \in Streams(Z)
    BY CallingType
<1>2. /\ h = [commands |-> h.commands, events |-> h.events, refused |-> h.refused, called |-> h.called]
      /\ h.called \in Streams(Z)
    BY HostIs
<1>3. h.called \o <<>> = h.called
    BY <1>2, StreamEmpty
<1>4. ASSUME more = <<>> PROVE new = h
    <2> DEFINE x == h.called
    <2>1. new = [h EXCEPT !.called = x]
        BY <1>3, <1>4 DEF Hands
    <2> HIDE DEF new
    <2> QED BY <1>2, <2>1
<1>5. w = new
    <2>1. CASE c[1] = "execute_cmd"
        <3>1. w = execute_cmd(h, c[2])
            BY <2>1 DEF Answer
        <3>2. CASE c[2] \in DOMAIN h.commands
            <4> DEFINE e == <<h.commands[c[2]]>>
                       x == h.called
            <4>1. more = <<e>>
                BY <2>1, <3>2 DEF Calling
            <4>2. w = [h EXCEPT !.called = Append(@, e)]
                BY <3>1, <3>2 DEF execute_cmd
            <4>3. Append(x, e) = x \o <<e>>
                <5>1. x \in Seq(Z)
                    BY <1>2, StreamsDef
                <5>2. e \in Z
                    <6>1. h.commands \in Funs(N, H)
                        BY HostIs
                    <6>2. h.commands[c[2]] \in H
                        BY <3>2, <6>1, FunsIs
                    <6> QED BY <6>2 DEF Handled
                <5> HIDE DEF x, e, Z
                <5> QED BY <5>1, <5>2, AppendIsConcat
            <4> HIDE DEF e, more
            <4> QED BY <4>1, <4>2, <4>3 DEF Hands
        <3>3. CASE c[2] \notin DOMAIN h.commands
            <4>1. w = h /\ more = <<>>
                BY <2>1, <3>1, <3>3 DEF execute_cmd, Calling
            <4> QED BY <1>4, <4>1
        <3> QED BY <3>2, <3>3
    <2>2. CASE c[1] = "emit_event"
        <3>1. w = emit_event(h, c[2], c[3])
            BY <2>2 DEF Answer
        <3>2. CASE c[2] \in DOMAIN h.events
            <4>1. more = [i \in DOMAIN h.events[c[2]] |-> <<h.events[c[2]][i], c[3]>>]
                BY <2>2, <3>2 DEF Calling, Heard
            <4>2. w = [h EXCEPT !.called = @ \o [i \in DOMAIN h.events[c[2]] |-> <<h.events[c[2]][i], c[3]>>]]
                BY <3>1, <3>2 DEF emit_event
            <4> HIDE DEF more
            <4> QED BY <4>1, <4>2 DEF Hands
        <3>3. CASE c[2] \notin DOMAIN h.events
            <4>1. w = h
                BY <3>1, <3>3 DEF emit_event
            <4>2. more = <<>>
                <5>1. Heard(h, c[2]) = <<>>
                    BY <3>3 DEF Heard
                <5>2. more = [i \in DOMAIN Heard(h, c[2]) |-> <<Heard(h, c[2])[i], c[3]>>]
                    BY <2>2 DEF Calling
                <5> DEFINE e == Heard(h, c[2])
                           y == c[3]
                <5> HIDE DEF e, y, more
                <5>3. more = [i \in DOMAIN e |-> <<e[i], y>>] /\ e = <<>>
                    BY <5>1, <5>2 DEF e, y
                <5> QED BY <5>3
            <4> QED BY <1>4, <4>1, <4>2
        <3> QED BY <3>2, <3>3
    <2> QED BY <2>1, <2>2
<1> HIDE DEF more
<1>6. /\ new \in Hosts(N, H, P)
      /\ new.commands = h.commands /\ new.events = h.events /\ new.refused = h.refused
      /\ new.called = h.called \o more
    BY <1>1, Called
<1> HIDE DEF new, w
<1> QED BY <1>5, <1>6 DEF w, more

LEMMA AnswerType ==
    ASSUME NEW N, NEW H, NEW P, NEW h \in Hosts(N, H, P), NEW c \in HostUses(N, H, P)
    PROVE  /\ Answer(h, c) \in Hosts(N, H, P)
           /\ c[1] = "register_cmd" => Answer(h, c) = register_cmd(h, c[2], c[3])
           /\ c[1] = "register_events" => Answer(h, c) = register_events(h, c[2], c[3])
<1>0. /\ c[1] \in {"register_cmd", "register_events", "execute_cmd", "emit_event"}
      /\ c[2] \in N /\ (c[1] \in {"register_cmd", "register_events"} => c[3] \in H)
    BY UseIs
<1>1. CASE c[1] = "register_cmd"
    <2>1. Answer(h, c) = register_cmd(h, c[2], c[3])
        BY <1>1 DEF Answer
    <2>2. register_cmd(h, c[2], c[3]) \in Hosts(N, H, P)
        BY <1>0, <1>1, RegisterCmd
    <2> QED BY <1>1, <2>1, <2>2
<1>2. CASE c[1] = "register_events"
    <2>1. Answer(h, c) = register_events(h, c[2], c[3])
        BY <1>2 DEF Answer
    <2>2. register_events(h, c[2], c[3]) \in Hosts(N, H, P)
        BY <1>0, <1>2, RegisterEvents
    <2> QED BY <1>2, <2>1, <2>2
<1>3. CASE c[1] \in {"execute_cmd", "emit_event"}
    BY <1>3, AnswerCalls
<1> QED BY <1>0, <1>1, <1>2, <1>3

LEMMA HostStates ==
    ASSUME NEW N, NEW H, NEW P, NEW calls \in Seq(HostUses(N, H, P))
    PROVE  \E st : States(st, Hosts(N, H, P), HostDoes(N, H, P), EmptyHost, calls) /\ Host(calls) = st[Len(calls)]
<1>0. calls \in Seq(HostUses(N, H, P)) /\ DOMAIN calls = 1..Len(calls) /\ Len(calls) \in Nat
      /\ \A k \in 1..Len(calls) : calls[k] \in HostUses(N, H, P)
    OBVIOUS
<1>1. HostDoes(N, H, P) \in [Hosts(N, H, P) \X HostUses(N, H, P) -> Hosts(N, H, P)]
    
    <2>1. ASSUME NEW h \in Hosts(N, H, P), NEW c \in HostUses(N, H, P) PROVE HostDoes(N, H, P)[<<h, c>>] \in Hosts(N, H, P)
        BY AnswerType DEF HostDoes
    <2>2. \A q \in Hosts(N, H, P) \X HostUses(N, H, P) :
             q = <<q[1], q[2]>> /\ q[1] \in Hosts(N, H, P) /\ q[2] \in HostUses(N, H, P)
        OBVIOUS
    <2>3. \A q \in Hosts(N, H, P) \X HostUses(N, H, P) : HostDoes(N, H, P)[q] \in Hosts(N, H, P)
        BY <2>1, <2>2, Zenon
    <2>4. /\ DOMAIN HostDoes(N, H, P) = Hosts(N, H, P) \X HostUses(N, H, P)
          /\ HostDoes(N, H, P) = [q \in DOMAIN HostDoes(N, H, P) |-> HostDoes(N, H, P)[q]]
        BY DEF HostDoes
    <2> QED BY <2>3, <2>4
<1>2. \A x \in Hosts(N, H, P), y \in HostUses(N, H, P) : HostDoes(N, H, P)[<<x, y>>] = Answer(x, y)
    BY DEF HostDoes
<1>3. EmptyHost \in Hosts(N, H, P)
    
    <2>1. <<>> \in Funs(N, H) /\ <<>> \in Funs(N, Streams(H))
        <3>1. DOMAIN <<>> = {} /\ <<>> = [n \in {} |-> <<>>[n]]
            OBVIOUS
        <3> DEFINE e == <<>>
        <3>2. DOMAIN e = {} /\ e = [n \in {} |-> e[n]]
            BY <3>1
        <3> HIDE DEF e
        <3>3. e \in Funs(N, H) /\ e \in Funs(N, Streams(H))
            BY <3>2, FunsIs
        <3> QED BY <3>3 DEF e
    <2>2. <<>> \in Streams(Handled(H, P))
        BY EmptySeq, StreamsDef
    <2> QED BY <2>1, <2>2 DEF EmptyHost, Hosts
<1> DEFINE Is(it) == it = [S \in SUBSET (DOMAIN calls) |->
                              IF S = {} THEN EmptyHost ELSE Answer(it[S \ {Max(S)}], calls[Max(S)])]
           fold == CHOOSE it : Is(it)
<1>4. \E it : Is(it)
    <2>1. PICK it \in [SUBSET (1..Len(calls)) -> Hosts(N, H, P)] : Folds(it, Hosts(N, H, P), HostDoes(N, H, P), EmptyHost, calls)
        BY <1>0, <1>1, <1>3, FoldExists, Zenon
    <2>2. ASSUME NEW S \in SUBSET (1..Len(calls)), S # {}
          PROVE  it[S] = Answer(it[S \ {Max(S)}], calls[Max(S)])
        <3>1. Max(S) \in 1..Len(calls)
            BY <1>0, <2>2, LastPlace
        <3>2. it[S \ {Max(S)}] \in Hosts(N, H, P) /\ calls[Max(S)] \in HostUses(N, H, P)
            BY <1>0, <3>1
        <3>3. it[S] = HostDoes(N, H, P)[<<it[S \ {Max(S)}], calls[Max(S)]>>]
            BY <2>1, <2>2, <3>2 DEF Folds
        <3> QED BY <1>2, <3>2, <3>3
    <2>3. Is(it)
        BY <1>0, <2>1, <2>2 DEF Folds
    <2> QED BY <2>3
<1>5. Is(fold)
    <2> HIDE DEF Is
    <2> QED BY <1>4
<1>6. Host(calls) = fold[1..Len(calls)]
    <2>1. Host(calls) = fold[DOMAIN calls]
        BY Zenon DEF Host, FoldLeft, MapThenFoldSet
    <2> HIDE DEF fold
    <2> QED BY <1>0, <2>1
<1> HIDE DEF fold
<1>7. Folds(fold, Hosts(N, H, P), HostDoes(N, H, P), EmptyHost, calls)
    <2>1. fold[{}] = EmptyHost
        BY <1>5
    <2>2. ASSUME NEW S \in SUBSET (1..Len(calls)), S # {}, fold[S \ {Max(S)}] \in Hosts(N, H, P)
          PROVE  fold[S] = HostDoes(N, H, P)[<<fold[S \ {Max(S)}], calls[Max(S)]>>]
        <3>1. calls[Max(S)] \in HostUses(N, H, P)
            BY <1>0, <2>2, LastPlace
        <3>2. fold[S] = Answer(fold[S \ {Max(S)}], calls[Max(S)])
            BY <1>0, <1>5, <2>2
        <3> QED BY <1>2, <2>2, <3>1, <3>2
    <2> QED BY <2>1, <2>2 DEF Folds
<1>8. LastState(fold[1..Len(calls)], Hosts(N, H, P), HostDoes(N, H, P), EmptyHost, calls)
    BY <1>0, <1>1, <1>3, <1>7, FoldStates, Zenon
<1> QED BY <1>6, <1>8 DEF LastState

-----------------------------------------------------------------------------

\* The calls up to the k-th that register something under a name
Regs(calls, k, op, name) == {j \in 1..k : calls[j][1] = op /\ calls[j][2] = name}

\* What they subscribed to an event
Subs(calls, k, name) ==
    FlattenSeq([j \in 1..k |-> IF j \in Regs(calls, k, "register_events", name)
                                THEN <<calls[j][3]>> ELSE <<>>])

\* The registrations that were refused
Refused(calls, k) == {i \in 1..k : calls[i][1] = "register_cmd" /\ Before(calls, i, "register_cmd") # {}}

LEMMA RegsIs ==
    ASSUME NEW calls, NEW k \in Nat, NEW op, NEW name
    PROVE  /\ Regs(calls, 0, op, name) = {}
           /\ calls[k + 1][1] = op /\ calls[k + 1][2] = name
                => Regs(calls, k + 1, op, name) = Regs(calls, k, op, name) \cup {k + 1}
           /\ ~(calls[k + 1][1] = op /\ calls[k + 1][2] = name)
                => Regs(calls, k + 1, op, name) = Regs(calls, k, op, name)
           /\ Regs(calls, k, op, name) \in SUBSET (1..k)
           /\ name = calls[k + 1][2] => Before(calls, k + 1, op) = Regs(calls, k, op, name)
<1>1. 1..0 = {} /\ (k + 1) - 1 = k
    OBVIOUS
<1>2. \A j : j \in 1..(k + 1) <=> j \in 1..k \/ j = k + 1
    OBVIOUS
<1> QED BY <1>1, <1>2 DEF Regs, Before

LEMMA FirstKept ==
    ASSUME NEW k \in Nat, NEW G \in SUBSET (1..k), G # {}
    PROVE  Min(G \cup {k + 1}) = Min(G) /\ Min(G) \in G
<1> DEFINE x == Min(G)
<1>1. G \in SUBSET Int /\ \A y \in G : 0 <= y
    OBVIOUS
<1>2. x \in G /\ \A y \in G : x <= y
    BY <1>1, MinExists
<1> HIDE DEF x
<1>3. G \cup {k + 1} \in SUBSET Int /\ x \in G \cup {k + 1} /\ \A y \in G \cup {k + 1} : x <= y
    BY <1>2
<1>4. Min(G \cup {k + 1}) = x
    BY <1>3, MinIs
<1> QED BY <1>2, <1>4 DEF x

LEMMA MinSingle ==
    ASSUME NEW k \in Nat
    PROVE  Min({} \cup {k}) = k
<1>1. {} \cup {k} \in SUBSET Int /\ k \in {} \cup {k} /\ \A y \in {} \cup {k} : k <= y
    OBVIOUS
<1> QED BY <1>1, MinIs

\* The subscribers after a call
LEMMA SubsStep ==
    ASSUME NEW N, NEW H, NEW P, NEW calls \in Seq(HostUses(N, H, P)), NEW k \in 0..Len(calls),
           k < Len(calls), NEW name
    PROVE  /\ Subs(calls, k, name) \in Streams(H)
           /\ calls[k + 1][1] = "register_events" /\ calls[k + 1][2] = name
                => Subs(calls, k + 1, name) = Append(Subs(calls, k, name), calls[k + 1][3])
           /\ ~(calls[k + 1][1] = "register_events" /\ calls[k + 1][2] = name)
                => Subs(calls, k + 1, name) = Subs(calls, k, name)
<1> DEFINE G(i) == Regs(calls, i, "register_events", name)
           s == [j \in 1..(k + 1) |-> IF j \in G(k + 1) THEN <<calls[j][3]>> ELSE <<>>]
           t == [j \in 1..k |-> IF j \in G(k) THEN <<calls[j][3]>> ELSE <<>>]
           match == calls[k + 1][1] = "register_events" /\ calls[k + 1][2] = name
<1>1. k \in Nat /\ \A j \in 1..(k + 1) : j \in 1..Len(calls)
    OBVIOUS
<1>2. G(k) \in SUBSET (1..k) /\ (match => G(k + 1) = G(k) \cup {k + 1}) /\ (~match => G(k + 1) = G(k))
    BY <1>1, RegsIs
<1>3. \A j \in G(k + 1) : calls[j][3] \in H
    <2>1. \A j \in G(k + 1) : j \in 1..(k + 1) /\ calls[j][1] = "register_events"
        BY DEF Regs
    <2>2. \A j \in G(k + 1) : calls[j] \in HostUses(N, H, P)
        BY <1>1, <2>1
    <2> HIDE DEF G
    <2> QED BY <2>1, <2>2, UseIs
<1> HIDE DEF G
<1>4. \A j \in 1..(k + 1) : s[j] \in Streams(H)
    <2>1. <<>> \in Seq(H) /\ \A x \in H : <<x>> \in Seq(H)
        BY EmptySeq
    <2> QED BY <1>3, <2>1, StreamsDef
<1>5. \A j \in 1..k : j # k + 1 /\ j \in 1..(k + 1)
    BY <1>1
<1>6. \A j \in 1..k : t[j] = s[j]
    BY <1>2, <1>5
<1>7. k + 1 \in 1..(k + 1) /\ k + 1 \notin 1..k
    BY <1>1
<1>8. s[k + 1] = IF match THEN <<calls[k + 1][3]>> ELSE <<>>
    BY <1>2, <1>7
<1>9. s = [i \in 1..(k + 1) |-> s[i]] /\ t = [i \in 1..k |-> s[i]]
    BY <1>6
<1>10. Subs(calls, k, name) = FlattenSeq(t) /\ Subs(calls, k + 1, name) = FlattenSeq(s)
    BY Zenon DEF Subs, G
<1> HIDE DEF s, t
<1>11. FlattenSeq(t) \in Streams(H) /\ FlattenSeq(s) = FlattenSeq(t) \o s[k + 1]
    BY <1>1, <1>4, <1>9, FlattenExtend
<1> DEFINE a == FlattenSeq(t)
           x == calls[k + 1][3]
<1>12. a \in Streams(H) /\ a \in Seq(H)
    BY <1>11, StreamsDef
<1>13. CASE match
    <2>1. x \in H
        <3>1. k + 1 \in G(k + 1)
            BY <1>2, <1>13
        <3> QED BY <1>3, <3>1
    <2>2. FlattenSeq(s) = a \o <<x>>
        BY <1>8, <1>11, <1>13
    <2> HIDE DEF a, x
    <2>3. Append(a, x) = a \o <<x>>
        BY <1>12, <2>1, AppendIsConcat
    <2> QED BY <1>10, <1>12, <1>13, <2>2, <2>3 DEF a, x
<1>14. CASE ~match
    <2>1. FlattenSeq(s) = a \o <<>>
        BY <1>8, <1>11, <1>14
    <2> HIDE DEF a
    <2>2. a \o <<>> = a
        BY <1>12, StreamEmpty
    <2> QED BY <1>10, <1>12, <1>14, <2>1, <2>2 DEF a
<1> QED BY <1>13, <1>14

LEMMA RefusedStep ==
    ASSUME NEW calls, NEW k \in Nat
    PROVE  /\ Cardinality(Refused(calls, 0)) = 0
           /\ Cardinality(Refused(calls, k)) \in Nat
           /\ calls[k + 1][1] = "register_cmd" /\ Before(calls, k + 1, "register_cmd") # {}
                => Cardinality(Refused(calls, k + 1)) = Cardinality(Refused(calls, k)) + 1
           /\ ~(calls[k + 1][1] = "register_cmd" /\ Before(calls, k + 1, "register_cmd") # {})
                => Cardinality(Refused(calls, k + 1)) = Cardinality(Refused(calls, k))
<1> DEFINE R(i) == Refused(calls, i)
           match == calls[k + 1][1] = "register_cmd" /\ Before(calls, k + 1, "register_cmd") # {}
<1>1. R(0) = {} /\ Cardinality({}) = 0
    BY FS_EmptySet DEF Refused
<1>2. IsFiniteSet(R(k))
    <2>1. IsFiniteSet(1..k) /\ R(k) \in SUBSET (1..k)
        BY FS_Interval DEF Refused
    <2> QED BY <2>1, FS_Subset
<1>3. \A j : j \in 1..(k + 1) <=> j \in 1..k \/ j = k + 1
    OBVIOUS
<1>4. (match => R(k + 1) = R(k) \cup {k + 1}) /\ (~match => R(k + 1) = R(k))
    BY <1>3 DEF Refused
<1>5. k + 1 \notin R(k)
    BY DEF Refused
<1> HIDE DEF R
<1>6. Cardinality(R(k)) \in Nat /\ Cardinality(R(k) \cup {k + 1}) = Cardinality(R(k)) + 1
    BY <1>2, <1>5, FS_AddElement, FS_CardinalityType
<1> HIDE DEF match
<1>7. (match => Cardinality(R(k + 1)) = Cardinality(R(k)) + 1) /\ (~match => Cardinality(R(k + 1)) = Cardinality(R(k)))
    BY <1>4, <1>6
<1> QED BY <1>1, <1>6, <1>7, Zenon DEF R, match

\* A command calls the handler that was registered first under its name, an
\* event all that were registered before it, and every other registration of a
\* command is refused, for every sequence of calls.
THEOREM HostDispatches ==
    \A N, H, P : \A calls \in Seq(HostUses(N, H, P)) : IsDispatch(calls, Host(calls))
<1> SUFFICES ASSUME NEW N, NEW H, NEW P, NEW calls \in Seq(HostUses(N, H, P))
             PROVE  IsDispatch(calls, Host(calls))
    OBVIOUS
<1> DEFINE n == Len(calls)
           Z == Handled(H, P)
           cmds(k, name) == Regs(calls, k, "register_cmd", name)
           expected(k) == FlattenSeq([i \in 1..k |-> Expected(calls, i)])
<1>1. PICK st : States(st, Hosts(N, H, P), HostDoes(N, H, P), EmptyHost, calls) /\ Host(calls) = st[n]
    BY HostStates
<1>2. /\ n \in Nat /\ DOMAIN calls = 1..n
      /\ st[0] = EmptyHost /\ \A k \in 0..n : st[k] \in Hosts(N, H, P)
      /\ \A k \in 1..n : calls[k] \in HostUses(N, H, P)
                         /\ st[k] = HostDoes(N, H, P)[<<st[k - 1], calls[k]>>]
    BY <1>1 DEF States
<1> DEFINE Commands(k) == \A name \in N :
               /\ name \in DOMAIN st[k].commands <=> cmds(k, name) # {}
               /\ name \in DOMAIN st[k].commands => st[k].commands[name] = calls[Min(cmds(k, name))][3]
           Events(k) == \A name \in N : Heard(st[k], name) = Subs(calls, k, name)
           Counts(k) == st[k].refused = Cardinality(Refused(calls, k))
           Made(k) == /\ st[k].called = expected(k) /\ expected(k) \in Streams(Z)
                       /\ \A i \in 1..k : Expected(calls, i) \in Streams(Z)
           Inv(k) == Commands(k) /\ Events(k) /\ Counts(k) /\ Made(k)
<1>3. Inv(0)
    <2>1. /\ st[0].commands = <<>> /\ st[0].events = <<>> /\ st[0].refused = 0 /\ st[0].called = <<>>
        BY <1>2 DEF EmptyHost
    <2>2. DOMAIN <<>> = {} /\ FlattenSeq(<<>>) = <<>>
        BY FlattenEmpty
    <2>3. Commands(0)
        BY <2>1, <2>2, RegsIs
    <2>4. Events(0)
        <3>1. \A name : Subs(calls, 0, name) = <<>>
            <4>1. \A name : [j \in 1..0 |-> IF j \in Regs(calls, 0, "register_events", name)
                                THEN <<calls[j][3]>> ELSE <<>>] = <<>>
                OBVIOUS
            <4> QED BY <2>2, <4>1, Zenon DEF Subs
        <3>2. \A name : Heard(st[0], name) = <<>>
            BY <2>1, <2>2 DEF Heard
        <3> QED BY <3>1, <3>2
    <2>5. Counts(0)
        BY <2>1, RefusedStep
    <2>6. Made(0)
        <3>1. [i \in 1..0 |-> Expected(calls, i)] = <<>>
            OBVIOUS
        <3>2. expected(0) = <<>>
            BY <2>2, <3>1, Zenon
        <3>3. <<>> \in Streams(Z)
            BY EmptySeq, StreamsDef
        <3>4. 1..0 = {}
            OBVIOUS
        <3> HIDE DEF expected, Z
        <3> QED BY <2>1, <3>2, <3>3, <3>4
    <2> HIDE DEF Commands, Events, Counts, Made
    <2> QED BY <2>3, <2>4, <2>5, <2>6
<1>4. ASSUME NEW k \in 0..n, k < n, Inv(k) PROVE Inv(k + 1)
    <2> DEFINE h == st[k]
               w == st[k + 1]
               c == calls[k + 1]
               name0 == c[2]
    <2>1. k \in Nat /\ k + 1 \in 1..n /\ (k + 1) - 1 = k
        BY <1>2, <1>4
    <2>2. h \in Hosts(N, H, P) /\ c \in HostUses(N, H, P) /\ w = Answer(h, c)
        BY <1>2, <2>1 DEF HostDoes
    <2>3. /\ name0 \in N /\ c[1] \in {"register_cmd", "register_events", "execute_cmd", "emit_event"}
          /\ c[1] \in {"register_cmd", "register_events"} => c[3] \in H
        BY <2>2, UseIs
    <2>4. Commands(k) /\ Events(k) /\ Counts(k) /\ Made(k)
        BY <1>4
    <2>5. /\ c[1] = "register_cmd" =>
                /\ w.events = h.events /\ w.called = h.called
                /\ name0 \in DOMAIN h.commands => w.commands = h.commands /\ w.refused = h.refused + 1
                /\ name0 \notin DOMAIN h.commands =>
                      /\ w.commands = Extended(h.commands, name0, c[3])
                      /\ w.refused = h.refused
          /\ c[1] = "register_events" =>
                /\ w.commands = h.commands /\ w.called = h.called /\ w.refused = h.refused
                /\ DOMAIN w.events = DOMAIN h.events \cup {name0}
                /\ w.events[name0] = Append(Heard(h, name0), c[3])
                /\ \A m \in DOMAIN h.events : m # name0 => w.events[m] = h.events[m]
          /\ c[1] \in {"execute_cmd", "emit_event"} =>
                /\ w.commands = h.commands /\ w.events = h.events /\ w.refused = h.refused
                /\ w.called = h.called \o Calling(h, c)
        <3> HIDE DEF h, c, w
        <3>1. CASE c[1] = "register_cmd"
            <4>1. w = register_cmd(h, name0, c[3]) /\ c[3] \in H
                BY <2>2, <2>3, <3>1, AnswerType
            <4> DEFINE v == register_cmd(h, name0, c[3])
            <4>2. /\ v.events = h.events /\ v.called = h.called
                  /\ name0 \in DOMAIN h.commands => v.commands = h.commands /\ v.refused = h.refused + 1
                  /\ name0 \notin DOMAIN h.commands =>
                        v.commands = Extended(h.commands, name0, c[3]) /\ v.refused = h.refused
                BY <2>2, <2>3, <4>1, RegisterCmd
            <4> HIDE DEF v, name0
            <4> QED BY <3>1, <4>1, <4>2 DEF v
        <3>2. CASE c[1] = "register_events"
            <4>1. w = register_events(h, name0, c[3]) /\ c[3] \in H
                BY <2>2, <2>3, <3>2, AnswerType
            <4> QED BY <2>2, <2>3, <3>2, <4>1, RegisterEvents
        <3>3. CASE c[1] \in {"execute_cmd", "emit_event"}
            BY <2>2, <3>3, AnswerCalls, SMTT(30)
        <3> QED BY <2>3, <3>1, <3>2, <3>3
    <2>6. ASSUME NEW name \in N
          PROVE  /\ c[1] = "register_cmd" /\ name0 = name => cmds(k + 1, name) = cmds(k, name) \cup {k + 1}
                 /\ ~(c[1] = "register_cmd" /\ name0 = name) => cmds(k + 1, name) = cmds(k, name)
                 /\ cmds(k, name) \in SUBSET (1..k)
                 /\ name0 = name => Before(calls, k + 1, "register_cmd") = cmds(k, name)
        BY <2>1, RegsIs
    <2>7. Commands(k + 1)
        <3> SUFFICES ASSUME NEW name \in N
                     PROVE  /\ name \in DOMAIN w.commands <=> cmds(k + 1, name) # {}
                            /\ name \in DOMAIN w.commands => w.commands[name] = calls[Min(cmds(k + 1, name))][3]
            OBVIOUS
        <3> DEFINE old == cmds(k, name)
        <3>1. /\ name \in DOMAIN h.commands <=> old # {}
              /\ name \in DOMAIN h.commands => h.commands[name] = calls[Min(old)][3]
            BY <2>4
        <3>2. old \in SUBSET (1..k)
            BY <2>6
        <3>3. CASE c[1] = "register_cmd" /\ name0 = name
            <4>1. cmds(k + 1, name) = old \cup {k + 1}
                BY <2>6, <3>3
            <4>2. CASE name \in DOMAIN h.commands
                <5>1. w.commands = h.commands
                    BY <2>5, <3>3, <4>2
                <5>2. Min(old \cup {k + 1}) = Min(old)
                    <6> HIDE DEF old
                    <6> QED BY <2>1, <3>1, <3>2, <4>2, FirstKept
                <5> HIDE DEF old, cmds
                <5> QED BY <3>1, <4>1, <4>2, <5>1, <5>2
            <4>3. CASE name \notin DOMAIN h.commands
                <5>1. w.commands = [m \in DOMAIN h.commands \cup {name} |-> IF m = name THEN c[3] ELSE h.commands[m]]
                    BY <2>5, <3>3, <4>3 DEF Extended
                <5>2. old = {} /\ Min({} \cup {k + 1}) = k + 1
                    BY <2>1, <3>1, <4>3, MinSingle
                <5> HIDE DEF old, cmds, w, h
                <5>3. name \in DOMAIN w.commands /\ w.commands[name] = c[3]
                    BY <5>1
                <5> QED BY <4>1, <5>2, <5>3
            <4> QED BY <4>2, <4>3
        <3>4. CASE ~(c[1] = "register_cmd" /\ name0 = name)
            <4>1. cmds(k + 1, name) = old
                BY <2>6, <3>4
            <4>2. /\ name \in DOMAIN w.commands <=> name \in DOMAIN h.commands
                  /\ name \in DOMAIN w.commands => w.commands[name] = h.commands[name]
                <5>1. CASE c[1] = "register_cmd"
                    <6>1. name # name0
                        BY <3>4, <5>1
                    <6>2. CASE name0 \in DOMAIN h.commands
                        BY <2>5, <5>1, <6>2
                    <6>3. CASE name0 \notin DOMAIN h.commands
                        <7>1. w.commands = [m \in DOMAIN h.commands \cup {name0} |-> IF m = name0 THEN c[3] ELSE h.commands[m]]
                            BY <2>5, <5>1, <6>3 DEF Extended
                        <7> HIDE DEF w, h, c, name0
                        <7> QED BY <6>1, <7>1
                    <6> QED BY <6>2, <6>3
                <5>2. CASE c[1] # "register_cmd"
                    <6>1. w.commands = h.commands
                        BY <2>3, <2>5, <5>2
                    <6> QED BY <6>1
                <5> QED BY <5>1, <5>2
            <4> HIDE DEF old, cmds, w, h
            <4> QED BY <3>1, <4>1, <4>2
        <3> QED BY <3>3, <3>4
    <2>8. Events(k + 1)
        <3> SUFFICES ASSUME NEW name \in N PROVE Heard(w, name) = Subs(calls, k + 1, name)
            OBVIOUS
        <3>1. Heard(h, name) = Subs(calls, k, name)
            BY <2>4
        <3>2. /\ c[1] = "register_events" /\ name0 = name => Subs(calls, k + 1, name) = Append(Subs(calls, k, name), c[3])
              /\ ~(c[1] = "register_events" /\ name0 = name) => Subs(calls, k + 1, name) = Subs(calls, k, name)
            BY <1>4, SubsStep, SMTT(30)
        <3>3. CASE c[1] = "register_events"
            <4>1. /\ DOMAIN w.events = DOMAIN h.events \cup {name0}
                  /\ w.events[name0] = Append(Heard(h, name0), c[3])
                  /\ \A m \in DOMAIN h.events : m # name0 => w.events[m] = h.events[m]
                BY <2>5, <3>3
            <4>2. CASE name0 = name
                <5>1. Heard(w, name) = w.events[name]
                    BY <4>1, <4>2 DEF Heard
                <5> QED BY <3>1, <3>2, <3>3, <4>1, <4>2, <5>1
            <4>3. CASE name0 # name
                <5>1. name \in DOMAIN w.events <=> name \in DOMAIN h.events
                    BY <4>1, <4>3, SMTT(30)
                <5>2. Heard(w, name) = Heard(h, name)
                    BY <4>1, <4>3, <5>1, ZenonT(40) DEF Heard
                <5> QED BY <3>1, <3>2, <4>3, <5>2
            <4> QED BY <4>2, <4>3
        <3>4. CASE c[1] # "register_events"
            <4>1. w.events = h.events
                BY <2>3, <2>5, <3>4
            <4>2. Heard(w, name) = Heard(h, name)
                BY <4>1 DEF Heard
            <4> QED BY <3>1, <3>2, <3>4, <4>2
        <3> QED BY <3>3, <3>4
    <2>9. Counts(k + 1)
        <3> DEFINE again == c[1] = "register_cmd" /\ Before(calls, k + 1, "register_cmd") # {}
        <3>1. /\ again => Cardinality(Refused(calls, k + 1)) = Cardinality(Refused(calls, k)) + 1
              /\ ~again => Cardinality(Refused(calls, k + 1)) = Cardinality(Refused(calls, k))
            BY <2>1, RefusedStep
        <3>2. Before(calls, k + 1, "register_cmd") # {} <=> name0 \in DOMAIN h.commands
            BY <2>3, <2>4, <2>6
        <3>3. again => w.refused = h.refused + 1
            BY <2>5, <3>2
        <3>4. ~again => w.refused = h.refused
            <4>1. CASE c[1] = "register_cmd"
                BY <2>5, <3>2, <4>1
            <4>2. CASE c[1] # "register_cmd"
                BY <2>3, <2>5, <4>2
            <4> QED BY <4>1, <4>2
        <3>5. h.refused = Cardinality(Refused(calls, k))
            BY <2>4
        <3> HIDE DEF again, w, h
        <3> QED BY <3>1, <3>3, <3>4, <3>5 DEF w
    <2>10. Made(k + 1)
        <3> DEFINE e == Expected(calls, k + 1)
        <3>1. (c[1] \in {"execute_cmd", "emit_event"} => e = Calling(h, c))
              /\ (c[1] \in {"register_cmd", "register_events"} => e = <<>>)
            <4> DEFINE before == Before(calls, k + 1, "register_cmd")
                       subscribers == FlattenSeq([j \in 1..((k + 1) - 1) |->
                           IF j \in Before(calls, k + 1, "register_events") THEN <<calls[j][3]>> ELSE <<>>])
            <4>1. e = CASE c[1] = "execute_cmd" /\ before # {} -> << <<calls[Min(before)][3]>> >>
                        [] c[1] = "emit_event" -> [j \in DOMAIN subscribers |-> <<subscribers[j], c[3]>>]
                        [] OTHER -> <<>>
                BY DEF Expected
            <4>2. before = cmds(k, name0)
                BY <2>3, <2>6
            <4>3. subscribers = Heard(h, name0)
                <5>1. Before(calls, k + 1, "register_events") = Regs(calls, k, "register_events", name0)
                    BY <2>1, RegsIs
                <5>2. subscribers = Subs(calls, k, name0)
                    BY <2>1, <5>1, Zenon DEF Subs
                <5> HIDE DEF subscribers
                <5> QED BY <2>3, <2>4, <5>2
            <4> HIDE DEF before, subscribers, e
            <4>4. CASE c[1] = "execute_cmd"
                <5>1. e = IF before # {} THEN << <<calls[Min(before)][3]>> >> ELSE <<>>
                    BY <4>1, <4>4
                <5>2. before # {} <=> name0 \in DOMAIN h.commands
                    BY <2>3, <2>4, <4>2
                <5>3. name0 \in DOMAIN h.commands => h.commands[name0] = calls[Min(before)][3]
                    BY <2>3, <2>4, <4>2
                <5>4. Calling(h, c) = IF name0 \in DOMAIN h.commands THEN << <<h.commands[name0]>> >> ELSE <<>>
                    BY <4>4 DEF Calling
                <5> HIDE DEF h, c, name0
                <5>5. e = Calling(h, c)
                    BY <5>1, <5>2, <5>3, <5>4
                <5> QED BY <4>4, <5>5
            <4>5. CASE c[1] = "emit_event"
                <5>1. e = [j \in DOMAIN subscribers |-> <<subscribers[j], c[3]>>]
                    BY <4>1, <4>5
                <5>2. Calling(h, c) = [i \in DOMAIN Heard(h, name0) |-> <<Heard(h, name0)[i], c[3]>>]
                    BY <4>5 DEF Calling
                <5>3. e = Calling(h, c)
                    BY <4>3, <5>1, <5>2
                <5> QED BY <4>5, <5>3
            <4>6. CASE c[1] \in {"register_cmd", "register_events"}
                BY <4>1, <4>6
            <4> QED BY <2>3, <4>4, <4>5, <4>6
        <3>2. e \in Streams(Z)
            <4>1. <<>> \in Streams(Z)
                BY EmptySeq, StreamsDef
            <4>2. c[1] \in {"execute_cmd", "emit_event"} => Calling(h, c) \in Streams(Z)
                BY <2>2, CallingType
            <4> HIDE DEF e, Z, h, c
            <4> QED BY <2>3, <3>1, <4>1, <4>2
        <3>3. w.called = h.called \o e
            <4>1. CASE c[1] \in {"execute_cmd", "emit_event"}
                BY <2>5, <3>1, <4>1
            <4>2. CASE c[1] \in {"register_cmd", "register_events"}
                <5>1. w.called = h.called /\ e = <<>>
                    BY <2>5, <3>1, <4>2
                <5> DEFINE x == h.called
                <5>2. x \in Streams(Z)
                    BY <2>2, HostIs
                <5> HIDE DEF x, Z, e
                <5>3. x \o <<>> = x
                    BY <5>2, StreamEmpty
                <5> QED BY <5>1, <5>3 DEF x
            <4> QED BY <2>3, <4>1, <4>2
        <3>4. expected(k + 1) = expected(k) \o e /\ expected(k + 1) \in Streams(Z)
            <4> DEFINE s == [i \in 1..(k + 1) |-> Expected(calls, i)]
                       t == [i \in 1..k |-> Expected(calls, i)]
            <4>0. expected(k) \in Streams(Z)
                BY <2>4
            <4>1. expected(k) = FlattenSeq(t) /\ expected(k + 1) = FlattenSeq(s)
                OBVIOUS
            <4>2. k + 1 \in 1..(k + 1) /\ \A i \in 1..k : i \in 1..(k + 1)
                BY <2>1
            <4>3. s[k + 1] = e /\ s = [i \in 1..(k + 1) |-> s[i]] /\ t = [i \in 1..k |-> s[i]]
                BY <4>2
            <4>4. \A i \in 1..(k + 1) : s[i] \in Streams(Z)
                <5>1. \A i \in 1..k : Expected(calls, i) \in Streams(Z)
                    BY <2>4
                <5>2. \A i \in 1..(k + 1) : i \in 1..k \/ i = k + 1
                    BY <2>1
                <5> QED BY <3>2, <5>1, <5>2
            <4> HIDE DEF s, t, expected, e, Z
            <4>5. FlattenSeq(s) = FlattenSeq(t) \o s[k + 1]
                BY <2>1, <4>3, <4>4, FlattenExtend
            <4>6. expected(k + 1) = expected(k) \o e
                BY <4>1, <4>3, <4>5
            <4> QED BY <3>2, <4>0, <4>6, StreamConcat
        <3>5. h.called = expected(k)
            BY <2>4
        <3>6. \A i \in 1..(k + 1) : Expected(calls, i) \in Streams(Z)
            <4>1. \A i \in 1..(k + 1) : i \in 1..k \/ i = k + 1
                BY <2>1
            <4>2. \A i \in 1..k : Expected(calls, i) \in Streams(Z)
                BY <2>4
            <4> QED BY <3>2, <4>1, <4>2
        <3> HIDE DEF expected, e, w, h
        <3> QED BY <3>3, <3>4, <3>5, <3>6 DEF w
    <2> HIDE DEF Commands, Events, Counts, Made
    <2> QED BY <2>7, <2>8, <2>9, <2>10
<1> HIDE DEF Inv
<1>5. Inv(n)
    <2> DEFINE I == {k \in 0..n : Inv(k)}
    <2>1. I \in SUBSET (0..n) /\ 0 \in I /\ \A k \in I : k < n => k + 1 \in I
        BY <1>2, <1>3, <1>4
    <2> HIDE DEF I
    <2>2. \A k \in 0..n : k \in I
        BY <1>2, <2>1, InductionUpTo
    <2> QED BY <1>2, <2>2 DEF I
<1>6. Counts(n) /\ Made(n)
    BY <1>5 DEF Inv
<1> QED BY <1>1, <1>2, <1>6, Zenon DEF IsDispatch, Refused

-----------------------------------------------------------------------------
(* lc_2 *)

Lists == Seq(0..9)

LEMMA ListsAre ==
    /\ Lists = Seq(0..9) /\ <<>> \in Lists /\ Len(<<>>) = 0
    /\ \A l \in Lists : Len(l) \in Nat /\ (l = <<>> <=> Len(l) = 0)
    /\ \A l \in Lists : l # <<>> => Head(l) \in 0..9 /\ Tail(l) \in Lists /\ Len(Tail(l)) = Len(l) - 1
BY DEF Lists

\* The list that begins with d
Put(d, l) == <<d>> \o l

LEMMA PutIs ==
    ASSUME NEW d \in 0..9, NEW l \in Lists
    PROVE  /\ Put(d, l) \in Lists /\ Put(d, l) # <<>> /\ Len(Put(d, l)) = Len(l) + 1
           /\ Head(Put(d, l)) = d /\ Tail(Put(d, l)) = l
           /\ Last(Put(d, l)) = IF l = <<>> THEN d ELSE Last(l)
<1>1. l \in Seq(0..9) /\ <<d>> \in Seq(0..9) /\ Len(<<d>>) = 1 /\ <<d>>[1] = d
    BY DEF Lists
<1> DEFINE b == <<d>> \o l
<1>2. /\ b \in Seq(0..9) /\ Len(b) = Len(l) + 1 /\ b[1] = d /\ Len(l) \in Nat
      /\ \A i \in 1..Len(l) : b[1 + i] = l[i]
    BY <1>1, ConcatAt
<1> HIDE DEF b
<1>3. b # <<>> /\ Head(b) = d
    BY <1>2
<1>4. Tail(b) = l
    <2>1. Tail(b) \in Seq(0..9) /\ Len(Tail(b)) = Len(l) /\ \A i \in 1..Len(l) : Tail(b)[i] = l[i]
        BY <1>2, <1>3
    <2> QED BY <1>1, <2>1, SeqEqual
<1>5. Last(b) = b[Len(l) + 1]
    BY <1>2 DEF Last
<1>6. Last(b) = IF l = <<>> THEN d ELSE Last(l)
    <2>1. CASE l = <<>>
        BY <1>2, <1>5, <2>1
    <2>2. CASE l # <<>>
        <3>1. Len(l) \in 1..Len(l) /\ Last(l) = l[Len(l)]
            BY <1>1, <2>2 DEF Last
        <3>2. b[1 + Len(l)] = l[Len(l)]
            BY <1>2, <3>1
        <3> QED BY <1>2, <1>5, <2>2, <3>1, <3>2
    <2> QED BY <2>1, <2>2
<1> QED BY <1>2, <1>3, <1>4, <1>6 DEF Lists, Put, b

\* The number of a list
IsNumber(f) == f = [l \in Lists |-> IF l = <<>> THEN 0 ELSE Head(l) + 10 * f[Tail(l)]]

LEMMA NumberExists == \E f : IsNumber(f) /\ f \in [Lists -> Int]
<1> DEFINE done == {<<>>}
           base == [l \in Lists |-> 0]
           next == [l \in Lists |-> IF l = <<>> THEN l ELSE Tail(l)]
           H == [p \in Lists \X Int |-> IF p[1] = <<>> THEN 0 ELSE Head(p[1]) + 10 * p[2]]
           m == [l \in Lists |-> Len(l)]
<1>1. done \in SUBSET Lists /\ base \in [Lists -> Int] /\ next \in [Lists -> Lists] /\ m \in [Lists -> Nat]
    BY ListsAre
<1>2. \A l \in Lists \ done : m[next[l]] < m[l]
    BY ListsAre
<1>3. \A l \in Lists, x \in Int : H[<<l, x>>] = IF l = <<>> THEN 0 ELSE Head(l) + 10 * x
    OBVIOUS
<1>4. H \in [Lists \X Int -> Int]
    <2>1. ASSUME NEW p \in Lists \X Int
          PROVE  (IF p[1] = <<>> THEN 0 ELSE Head(p[1]) + 10 * p[2]) \in Int
        BY ListsAre, SMTT(30)
    <2> QED BY <2>1
<1>5. \A l \in Lists : base[l] = 0 /\ (l \in done <=> l = <<>>) /\ (l # <<>> => next[l] = Tail(l))
    OBVIOUS
<1> HIDE DEF H, m, done, base, next
<1>6. PICK f \in [Lists -> Int] : \A l \in Lists : Solves(f, l, done, base, next, H)
    BY <1>1, <1>2, <1>4, RecursionExists
<1>7. ASSUME NEW l \in Lists PROVE f[l] = IF l = <<>> THEN 0 ELSE Head(l) + 10 * f[Tail(l)]
    <2>1. CASE l = <<>>
        BY <1>5, <1>6, <2>1 DEF Solves
    <2>2. CASE l # <<>>
        <3>1. Tail(l) \in Lists /\ f[Tail(l)] \in Int
            BY <1>6, <2>2, ListsAre
        <3>2. f[l] = H[<<l, f[Tail(l)]>>]
            BY <1>5, <1>6, <2>2 DEF Solves
        <3> QED BY <1>3, <2>2, <3>1, <3>2
    <2> QED BY <2>1, <2>2
<1>8. IsNumber(f)
    BY <1>6, <1>7 DEF IsNumber
<1> QED BY <1>6, <1>8

LEMMA NumberIs ==
    /\ Number[<<>>] = 0
    /\ \A l \in Lists : Number[l] \in Int
    /\ \A d \in 0..9, l \in Lists : Number[Put(d, l)] = d + 10 * Number[l]
    /\ \A l \in Lists : l # <<>> => Number[l] = Head(l) + 10 * Number[Tail(l)]
<1> DEFINE f == CHOOSE g : IsNumber(g)
<1>1. Number = f
    BY Zenon DEF Number, IsNumber, Lists
<1>2. IsNumber(f)
    BY NumberExists
<1> HIDE DEF f
<1>3. \A l \in Lists : f[l] = IF l = <<>> THEN 0 ELSE Head(l) + 10 * f[Tail(l)]
    BY <1>2 DEF IsNumber
<1> DEFINE T == {n \in Nat : \A l \in Lists : Len(l) = n => f[l] \in Int}
<1>4. 0 \in T
    BY <1>3, ListsAre
<1>5. ASSUME NEW n \in T PROVE n + 1 \in T
    <2>1. ASSUME NEW l \in Lists, Len(l) = n + 1 PROVE f[l] \in Int
        <3>1. l # <<>> /\ Head(l) \in 0..9 /\ Tail(l) \in Lists /\ Len(Tail(l)) = n
            BY <2>1, ListsAre
        <3>2. f[Tail(l)] \in Int
            BY <3>1
        <3> QED BY <1>3, <3>1, <3>2
    <2> QED BY <2>1
<1>6. T = Nat
    <2>1. T \in SUBSET Nat
        OBVIOUS
    <2> HIDE DEF T
    <2> QED BY <1>4, <1>5, <2>1, SetInduction
<1>7. \A l \in Lists : f[l] \in Int
    BY <1>6, ListsAre
<1>8. f[<<>>] = 0
    BY <1>3, ListsAre
<1>9. ASSUME NEW d \in 0..9, NEW l \in Lists PROVE f[Put(d, l)] = d + 10 * f[l]
    <2>1. Put(d, l) \in Lists /\ Put(d, l) # <<>> /\ Head(Put(d, l)) = d /\ Tail(Put(d, l)) = l
        BY PutIs
    <2> QED BY <1>3, <2>1
<1> QED BY <1>1, <1>3, <1>7, <1>8, <1>9

\* What is still to add
Nodes == [p1 : Lists, p2 : Lists, carry : 0..1]

Digit(p) == IF p = <<>> THEN 0 ELSE Head(p)

Rest(p) == IF p = <<>> THEN p ELSE Tail(p)

SumOf(n) == n.carry + Digit(n.p1) + Digit(n.p2)

Added(n) == [p1 |-> Rest(n.p1), p2 |-> Rest(n.p2), carry |-> SumOf(n) \div 10]

Nothing(n) == n.p1 = <<>> /\ n.p2 = <<>> /\ n.carry = 0

IsDigits(f) ==
    f = [n \in Nodes |-> IF Nothing(n) THEN <<>> ELSE Put(SumOf(n) % 10, f[Added(n)])]

LEMMA RestIs ==
    ASSUME NEW p \in Lists
    PROVE  /\ Digit(p) \in 0..9 /\ Rest(p) \in Lists
           /\ Len(Rest(p)) = IF p = <<>> THEN 0 ELSE Len(p) - 1
           /\ Number[p] = Digit(p) + 10 * Number[Rest(p)]
<1>1. CASE p = <<>>
    BY <1>1, ListsAre, NumberIs DEF Digit, Rest
<1>2. CASE p # <<>>
    BY <1>2, ListsAre, NumberIs DEF Digit, Rest
<1> QED BY <1>1, <1>2

LEMMA AddedIs ==
    ASSUME NEW n \in Nodes
    PROVE  /\ SumOf(n) \in Nat /\ SumOf(n) % 10 \in 0..9 /\ SumOf(n) \div 10 \in 0..1
           /\ SumOf(n) = 10 * (SumOf(n) \div 10) + (SumOf(n) % 10)
           /\ Added(n) \in Nodes
           /\ Added(n).p1 = Rest(n.p1) /\ Added(n).p2 = Rest(n.p2) /\ Added(n).carry = SumOf(n) \div 10
<1>1. n.p1 \in Lists /\ n.p2 \in Lists /\ n.carry \in 0..1
    BY DEF Nodes
<1>2. /\ Digit(n.p1) \in 0..9 /\ Rest(n.p1) \in Lists /\ Digit(n.p2) \in 0..9 /\ Rest(n.p2) \in Lists
    BY <1>1, RestIs
<1>3. SumOf(n) \in 0..19
    BY <1>1, <1>2 DEF SumOf
<1>4. /\ SumOf(n) % 10 \in 0..9 /\ SumOf(n) \div 10 \in 0..1
      /\ SumOf(n) = 10 * (SumOf(n) \div 10) + (SumOf(n) % 10)
    BY <1>3
<1> QED BY <1>2, <1>3, <1>4 DEF Added, Nodes

Left2(n) == 2 * (Len(n.p1) + Len(n.p2)) + n.carry

LEMMA AddedIsLess ==
    ASSUME NEW n \in Nodes, ~Nothing(n)
    PROVE  Left2(Added(n)) < Left2(n) /\ Left2(n) \in Nat
<1>1. n.p1 \in Lists /\ n.p2 \in Lists /\ n.carry \in 0..1
    BY DEF Nodes
<1>2. Len(n.p1) \in Nat /\ Len(n.p2) \in Nat
    BY <1>1, ListsAre
<1>3. /\ Added(n).p1 = Rest(n.p1) /\ Added(n).p2 = Rest(n.p2) /\ Added(n).carry \in 0..1
      /\ Added(n).carry = SumOf(n) \div 10
    BY AddedIs
<1>4. /\ Len(Rest(n.p1)) = IF n.p1 = <<>> THEN 0 ELSE Len(n.p1) - 1
      /\ Len(Rest(n.p2)) = IF n.p2 = <<>> THEN 0 ELSE Len(n.p2) - 1
    BY <1>1, RestIs
<1>5. n.p1 = <<>> /\ n.p2 = <<>> => Added(n).carry = 0
    <2> HAVE n.p1 = <<>> /\ n.p2 = <<>>
    <2>1. SumOf(n) \in 0..1
        BY <1>1 DEF SumOf, Digit
    <2>2. SumOf(n) \div 10 = 0
        BY <2>1
    <2> QED BY <1>3, <2>2
<1>6. n.p1 = <<>> /\ n.p2 = <<>> => n.carry = 1
    BY <1>1 DEF Nothing
<1>7. (n.p1 = <<>> <=> Len(n.p1) = 0) /\ (n.p2 = <<>> <=> Len(n.p2) = 0)
    BY <1>1, ListsAre
<1> DEFINE x1 == Len(n.p1)
           x2 == Len(n.p2)
           y1 == Len(Added(n).p1)
           y2 == Len(Added(n).p2)
           c == n.carry
           e == Added(n).carry
<1>8. /\ x1 \in Nat /\ x2 \in Nat /\ c \in 0..1 /\ e \in 0..1
      /\ y1 = (IF x1 = 0 THEN 0 ELSE x1 - 1) /\ y2 = (IF x2 = 0 THEN 0 ELSE x2 - 1)
      /\ (x1 = 0 /\ x2 = 0 => c = 1 /\ e = 0)
    BY <1>1, <1>2, <1>3, <1>4, <1>5, <1>6, <1>7
<1>9. Left2(n) = 2 * (x1 + x2) + c /\ Left2(Added(n)) = 2 * (y1 + y2) + e
    BY DEF Left2
<1> HIDE DEF x1, x2, y1, y2, c, e
<1> QED BY <1>8, <1>9

LEMMA DigitsExists == \E f : IsDigits(f)
<1> DEFINE done == {n \in Nodes : Nothing(n)}
           base == [n \in Nodes |-> <<>>]
           next == [n \in Nodes |-> IF Nothing(n) THEN n ELSE Added(n)]
           H == [p \in Nodes \X Lists |-> Put(SumOf(p[1]) % 10, p[2])]
           m == [n \in Nodes |-> Left2(n)]
<1>0. \A n \in Nodes : Left2(n) \in Nat
    BY ListsAre DEF Nodes, Left2
<1>1. done \in SUBSET Nodes /\ base \in [Nodes -> Lists] /\ next \in [Nodes -> Nodes] /\ m \in [Nodes -> Nat]
    BY <1>0, AddedIs, ListsAre
<1>2. \A n \in Nodes \ done : m[next[n]] < m[n]
    BY AddedIsLess, AddedIs
<1>3. \A n \in Nodes, x \in Lists : H[<<n, x>>] = Put(SumOf(n) % 10, x)
    OBVIOUS
<1>4. H \in [Nodes \X Lists -> Lists]
    <2>1. ASSUME NEW p \in Nodes \X Lists PROVE Put(SumOf(p[1]) % 10, p[2]) \in Lists
        <3>1. p[1] \in Nodes /\ p[2] \in Lists
            OBVIOUS
        <3>2. SumOf(p[1]) % 10 \in 0..9
            BY <3>1, AddedIs
        <3> QED BY <3>1, <3>2, PutIs
    <2> QED BY <2>1
<1>5. \A n \in Nodes : base[n] = <<>> /\ (n \in done <=> Nothing(n)) /\ (~Nothing(n) => next[n] = Added(n))
    OBVIOUS
<1> HIDE DEF H, m, done, base, next
<1>6. PICK f \in [Nodes -> Lists] : \A n \in Nodes : Solves(f, n, done, base, next, H)
    BY <1>1, <1>2, <1>4, RecursionExists
<1>7. ASSUME NEW n \in Nodes PROVE f[n] = IF Nothing(n) THEN <<>> ELSE Put(SumOf(n) % 10, f[Added(n)])
    <2>1. CASE Nothing(n)
        BY <1>5, <1>6, <2>1 DEF Solves
    <2>2. CASE ~Nothing(n)
        <3>1. Added(n) \in Nodes /\ f[Added(n)] \in Lists
            BY <1>6, AddedIs
        <3>2. f[n] = H[<<n, f[Added(n)]>>]
            BY <1>5, <1>6, <2>2 DEF Solves
        <3> QED BY <1>3, <2>2, <3>1, <3>2
    <2> QED BY <2>1, <2>2
<1>8. IsDigits(f)
    BY <1>6, <1>7 DEF IsDigits
<1> QED BY <1>8

LEMMA AddIsDigits ==
    ASSUME NEW l1 \in Lists, NEW l2 \in Lists
    PROVE  \E f : IsDigits(f) /\ add_two_numbers(l1, l2) = f[[p1 |-> l1, p2 |-> l2, carry |-> 0]]
<1> DEFINE f == CHOOSE g : IsDigits(g)
<1>1. add_two_numbers(l1, l2) = f[[p1 |-> l1, p2 |-> l2, carry |-> 0]]
    BY Zenon DEF add_two_numbers, IsDigits, Nodes, Lists, Nothing, Put, SumOf, Added, Digit, Rest
<1>2. IsDigits(f)
    BY DigitsExists
<1> HIDE DEF f
<1> QED BY <1>1, <1>2

\* The digits of what is still to add
Longer(n) == IF Len(n.p1) >= Len(n.p2) THEN Len(n.p1) ELSE Len(n.p2)

SumIs(n, out) ==
    /\ out \in Lists
    /\ Len(out) = Longer(n) \/ (Len(out) = Longer(n) + 1 /\ Last(out) # 0)
    /\ Number[out] = Number[n.p1] + Number[n.p2] + n.carry

LEMMA SumStep ==
    ASSUME NEW n \in Nodes, ~Nothing(n), NEW x, SumIs(Added(n), x)
    PROVE  SumIs(n, Put(SumOf(n) % 10, x))
<1> DEFINE a == Added(n)
           d == SumOf(n) % 10
           q == SumOf(n) \div 10
           y == Put(d, x)
<1>1. n.p1 \in Lists /\ n.p2 \in Lists /\ n.carry \in 0..1
    BY DEF Nodes
<1>2. /\ SumOf(n) \in Nat /\ d \in 0..9 /\ q \in 0..1 /\ SumOf(n) = 10 * q + d
      /\ a.p1 = Rest(n.p1) /\ a.p2 = Rest(n.p2) /\ a.carry = q
    BY AddedIs
<1>3. /\ Digit(n.p1) \in 0..9 /\ Rest(n.p1) \in Lists /\ Digit(n.p2) \in 0..9 /\ Rest(n.p2) \in Lists
      /\ Number[n.p1] = Digit(n.p1) + 10 * Number[Rest(n.p1)]
      /\ Number[n.p2] = Digit(n.p2) + 10 * Number[Rest(n.p2)]
      /\ Len(Rest(n.p1)) = IF n.p1 = <<>> THEN 0 ELSE Len(n.p1) - 1
      /\ Len(Rest(n.p2)) = IF n.p2 = <<>> THEN 0 ELSE Len(n.p2) - 1
    BY <1>1, RestIs
<1>4. /\ x \in Lists
      /\ Len(x) = Longer(a) \/ (Len(x) = Longer(a) + 1 /\ Last(x) # 0)
      /\ Number[x] = Number[a.p1] + Number[a.p2] + a.carry
    BY DEF SumIs
<1>5. SumOf(n) = n.carry + Digit(n.p1) + Digit(n.p2)
    BY DEF SumOf
<1> HIDE DEF a, d, q
<1>6. /\ y \in Lists /\ y # <<>> /\ Len(y) = Len(x) + 1
      /\ Last(y) = IF x = <<>> THEN d ELSE Last(x)
    BY <1>2, <1>4, PutIs
<1>7. Number[y] = d + 10 * Number[x]
    BY <1>2, <1>4, NumberIs
<1> HIDE DEF y
<1>8. Number[y] = Number[n.p1] + Number[n.p2] + n.carry
    <2>1. Number[Rest(n.p1)] \in Int /\ Number[Rest(n.p2)] \in Int
        BY <1>3, NumberIs
    <2> DEFINE r1 == Number[Rest(n.p1)]
               r2 == Number[Rest(n.p2)]
               h1 == Digit(n.p1)
               h2 == Digit(n.p2)
               w == Number[x]
    <2>2. w = r1 + r2 + q /\ Number[n.p1] = h1 + 10 * r1 /\ Number[n.p2] = h2 + 10 * r2
        BY <1>2, <1>3, <1>4
    <2>3. n.carry + h1 + h2 = 10 * q + d
        BY <1>2, <1>5
    <2>4. r1 \in Int /\ r2 \in Int /\ h1 \in Int /\ h2 \in Int /\ n.carry \in Int /\ q \in Int /\ d \in Int
        <3>1. h1 \in 0..9 /\ h2 \in 0..9 /\ n.carry \in 0..1
            BY <1>1, <1>3
        <3>2. q \in 0..1 /\ d \in 0..9
            BY <1>2
        <3> HIDE DEF h1, h2
        <3> QED BY <2>1, <3>1, <3>2
    <2>5. Number[y] = d + 10 * w
        BY <1>7
    <2> HIDE DEF r1, r2, h1, h2, w
    <2> DEFINE c == n.carry
    <2>6. c + h1 + h2 = 10 * q + d /\ c \in Int
        BY <2>3, <2>4
    <2> HIDE DEF c
    <2>7. d + 10 * (r1 + r2 + q) = (h1 + 10 * r1) + (h2 + 10 * r2) + c
        BY <2>4, <2>6
    <2> QED BY <2>2, <2>5, <2>7 DEF c
<1>9. Len(n.p1) \in Nat /\ Len(n.p2) \in Nat /\ Len(x) \in Nat
      /\ (n.p1 = <<>> <=> Len(n.p1) = 0) /\ (n.p2 = <<>> <=> Len(n.p2) = 0) /\ (x = <<>> <=> Len(x) = 0)
    BY <1>1, <1>4, ListsAre
<1>10. Len(y) = Longer(n) \/ (Len(y) = Longer(n) + 1 /\ Last(y) # 0)
    <2>1. CASE n.p1 = <<>> /\ n.p2 = <<>>
        <3>1. n.carry = 1 /\ Digit(n.p1) = 0 /\ Digit(n.p2) = 0
            BY <1>1, <2>1 DEF Nothing, Digit
        <3>2. q = 0 /\ d = 1
            BY <1>2, <1>5, <3>1
        <3>3. Longer(n) = 0
            BY <1>9, <2>1 DEF Longer
        <3>4. Longer(a) = 0
            BY <1>2, <1>3, <2>1 DEF Longer
        <3>5. Number[x] = 0
            <4>1. Rest(n.p1) = <<>> /\ Rest(n.p2) = <<>>
                BY <2>1 DEF Rest
            <4> QED BY <1>2, <1>4, <3>2, <4>1, NumberIs
        <3>6. CASE Len(x) = 0
            BY <1>6, <1>9, <3>2, <3>3, <3>6
        <3>7. CASE Len(x) = 1 /\ Last(x) # 0
            <4>1. x # <<>> /\ Head(x) \in 0..9 /\ Tail(x) \in Lists /\ Len(Tail(x)) = 0
                BY <1>4, <3>7, ListsAre
            <4>2. Tail(x) = <<>>
                BY <4>1, ListsAre
            <4>3. Head(x) = 0
                <5>1. Number[x] = Head(x) + 10 * Number[Tail(x)] /\ Number[Tail(x)] = 0
                    BY <1>4, <4>1, <4>2, NumberIs
                <5> QED BY <3>5, <4>1, <5>1
            <4>4. Last(x) = Head(x)
                BY <1>4, <3>7 DEF Last, Lists
            <4> QED BY <3>7, <4>3, <4>4
        <3> QED BY <1>4, <3>4, <3>6, <3>7
    <2>2. CASE ~(n.p1 = <<>> /\ n.p2 = <<>>)
        <3>1. Longer(n) = Longer(a) + 1 /\ Longer(a) \in Nat
            BY <1>2, <1>3, <1>9, <2>2 DEF Longer
        <3> QED BY <1>4, <1>6, <1>9, <3>1
    <2> QED BY <2>1, <2>2
<1> QED BY <1>6, <1>8, <1>10 DEF SumIs, y, d

LEMMA DigitsAreSum ==
    ASSUME NEW f, IsDigits(f), NEW n \in Nodes
    PROVE  SumIs(n, f[n])
<1> DEFINE m == [i \in Nodes |-> Left2(i)]
           P == {i \in Nodes : SumIs(i, f[i])}
<1>0. \A i \in Nodes : Left2(i) \in Nat
    BY ListsAre DEF Nodes, Left2
<1>1. m \in [Nodes -> Nat] /\ P \in SUBSET Nodes
    BY <1>0
<1>2. ASSUME NEW i \in Nodes, \A j \in Nodes : m[j] < m[i] => j \in P PROVE i \in P
    <2>1. CASE Nothing(i)
        <3>1. f[i] = <<>>
            BY <2>1 DEF IsDigits
        <3>2. Longer(i) = 0
            BY <2>1, ListsAre DEF Nothing, Longer
        <3>3. SumIs(i, <<>>)
            BY <2>1, <3>2, ListsAre, NumberIs DEF SumIs, Nothing
        <3> QED BY <3>1, <3>3
    <2>2. CASE ~Nothing(i)
        <3>1. Added(i) \in Nodes /\ Left2(Added(i)) < Left2(i)
            BY <2>2, AddedIs, AddedIsLess
        <3>2. SumIs(Added(i), f[Added(i)])
            BY <1>2, <3>1
        <3>3. f[i] = Put(SumOf(i) % 10, f[Added(i)])
            BY <2>2 DEF IsDigits
        <3>4. SumIs(i, Put(SumOf(i) % 10, f[Added(i)]))
            BY <2>2, <3>2, SumStep
        <3> QED BY <3>3, <3>4
    <2> QED BY <2>1, <2>2
<1>3. P = Nodes
    <2> HIDE DEF P, m
    <2> QED BY <1>1, <1>2, MeasureInduction
<1> QED BY <1>3

\* add_two_numbers (lc_2) returns the digits of the sum, for every two lists of
\* digits: as many as the longer list has, or one more that is not zero.
THEOREM AddTwoNumbersIsSum ==
    \A l1 \in Seq(0..9), l2 \in Seq(0..9) : IsSum(<<l1, l2>>, add_two_numbers(l1, l2))
<1> SUFFICES ASSUME NEW l1 \in Lists, NEW l2 \in Lists PROVE IsSum(<<l1, l2>>, add_two_numbers(l1, l2))
    BY DEF Lists
<1> DEFINE n == [p1 |-> l1, p2 |-> l2, carry |-> 0]
           out == add_two_numbers(l1, l2)
<1>1. PICK f : IsDigits(f) /\ out = f[n]
    BY AddIsDigits
<1>2. n \in Nodes /\ n.p1 = l1 /\ n.p2 = l2 /\ n.carry = 0
    BY DEF Nodes
<1> HIDE DEF n, out
<1>3. SumIs(n, out)
    BY <1>1, <1>2, DigitsAreSum
<1>4. /\ out \in Lists /\ Number[out] = Number[l1] + Number[l2]
      /\ Len(out) = Longer(n) \/ (Len(out) = Longer(n) + 1 /\ Last(out) # 0)
    <2>1. Number[l1] + Number[l2] + 0 = Number[l1] + Number[l2]
        <3>1. Number[l1] \in Int /\ Number[l2] \in Int
            BY NumberIs
        <3> DEFINE a == Number[l1]
                   b == Number[l2]
        <3> HIDE DEF a, b
        <3>2. a + b + 0 = a + b
            BY <3>1 DEF a, b
        <3> QED BY <3>2 DEF a, b
    <2>2. out \in Lists /\ Number[out] = Number[n.p1] + Number[n.p2] + n.carry
        BY <1>3 DEF SumIs
    <2>3. Len(out) = Longer(n) \/ (Len(out) = Longer(n) + 1 /\ Last(out) # 0)
        BY <1>3 DEF SumIs
    <2> QED BY <1>2, <2>1, <2>2, <2>3
<1>5. Longer(n) = Max({Len(l1), Len(l2)})
    <2>1. Len(l1) \in Int /\ Len(l2) \in Int
        BY ListsAre
    <2> QED BY <1>2, <2>1, MaxOfTwo DEF Longer
<1>6. \A i \in DOMAIN out : out[i] \in 0..9
    BY <1>4 DEF Lists
<1>7. <<l1, l2>>[1] = l1 /\ <<l1, l2>>[2] = l2
    OBVIOUS
<1> QED BY <1>4, <1>5, <1>6, <1>7, Zenon DEF IsSum, out

-----------------------------------------------------------------------------
(* lc_3 *)

\* Characters of any number of bytes
Characters(X) == X \X (Nat \ {0})

AddBytes(X) == [p \in Nat \X Characters(X) |-> p[1] + p[2][2]]

LEMMA CharactersAre ==
    ASSUME NEW X, NEW s \in Seq(Characters(X))
    PROVE  /\ DOMAIN s = 1..Len(s) /\ Len(s) \in Nat
           /\ \A k \in 1..Len(s) : s[k] \in Characters(X)
           /\ \A c \in Characters(X) : c[2] \in Nat \ {0}
BY DEF Characters

LEMMA AddBytesType == ASSUME NEW X PROVE AddBytes(X) \in [Nat \X Characters(X) -> Nat]
<1>1. ASSUME NEW p \in Nat \X Characters(X) PROVE p[1] + p[2][2] \in Nat
    <2>1. p[1] \in Nat /\ p[2][2] \in Nat
        BY DEF Characters
    <2> QED BY <2>1
<1> QED BY <1>1 DEF AddBytes

LEMMA BytesStates ==
    ASSUME NEW X, NEW s \in Seq(Characters(X))
    PROVE  \E st : States(st, Nat, AddBytes(X), 0, s) /\ Bytes(s) = st[Len(s)]
<1>0. s \in Seq(Characters(X)) /\ DOMAIN s = 1..Len(s) /\ Len(s) \in Nat
      /\ \A k \in 1..Len(s) : s[k] \in Characters(X)
    BY CharactersAre
<1>1. AddBytes(X) \in [Nat \X Characters(X) -> Nat]
    BY AddBytesType
<1>2. \A x \in Nat, y \in Characters(X) : AddBytes(X)[<<x, y>>] = x + y[2]
    BY DEF AddBytes
<1>3. 0 \in Nat
    OBVIOUS
<1> DEFINE Is(it) == it = [S \in SUBSET (DOMAIN s) |->
                              IF S = {} THEN 0 ELSE it[S \ {Max(S)}] + s[Max(S)][2]]
           fold == CHOOSE it : Is(it)
<1>4. \E it : Is(it)
    <2>1. PICK it \in [SUBSET (1..Len(s)) -> Nat] : Folds(it, Nat, AddBytes(X), 0, s)
        BY <1>0, <1>1, <1>3, FoldExists, Zenon
    <2>2. ASSUME NEW S \in SUBSET (1..Len(s)), S # {}
          PROVE  it[S] = it[S \ {Max(S)}] + s[Max(S)][2]
        <3>1. Max(S) \in 1..Len(s)
            BY <1>0, <2>2, LastPlace
        <3>2. it[S \ {Max(S)}] \in Nat /\ s[Max(S)] \in Characters(X)
            BY <1>0, <3>1
        <3>3. it[S] = AddBytes(X)[<<it[S \ {Max(S)}], s[Max(S)]>>]
            BY <2>1, <2>2, <3>2 DEF Folds
        <3> QED BY <1>2, <3>2, <3>3
    <2>3. Is(it)
        BY <1>0, <2>1, <2>2 DEF Folds
    <2> QED BY <2>3
<1>5. Is(fold)
    <2> HIDE DEF Is
    <2> QED BY <1>4
<1>6. Bytes(s) = fold[1..Len(s)]
    <2>1. Bytes(s) = fold[DOMAIN s]
        BY Zenon DEF Bytes, FoldLeft, MapThenFoldSet
    <2> HIDE DEF fold
    <2> QED BY <1>0, <2>1
<1> HIDE DEF fold
<1>7. Folds(fold, Nat, AddBytes(X), 0, s)
    <2>1. fold[{}] = 0
        BY <1>5
    <2>2. ASSUME NEW S \in SUBSET (1..Len(s)), S # {}, fold[S \ {Max(S)}] \in Nat
          PROVE  fold[S] = AddBytes(X)[<<fold[S \ {Max(S)}], s[Max(S)]>>]
        <3>1. s[Max(S)] \in Characters(X)
            BY <1>0, <2>2, LastPlace
        <3>2. fold[S] = fold[S \ {Max(S)}] + s[Max(S)][2]
            BY <1>0, <1>5, <2>2
        <3> QED BY <1>2, <2>2, <3>1, <3>2
    <2> QED BY <2>1, <2>2 DEF Folds
<1>8. LastState(fold[1..Len(s)], Nat, AddBytes(X), 0, s)
    BY <1>0, <1>1, <1>3, <1>7, FoldStates, Zenon
<1> QED BY <1>6, <1>8 DEF LastState

\* A string has as many bytes as characters, or more
LEMMA BytesAreMore ==
    ASSUME NEW X, NEW s \in Seq(Characters(X))
    PROVE  Bytes(s) \in Nat /\ Len(s) <= Bytes(s) /\ (s = <<>> => Bytes(s) = 0)
<1> DEFINE n == Len(s)
<1>1. PICK st : States(st, Nat, AddBytes(X), 0, s) /\ Bytes(s) = st[n]
    BY BytesStates
<1>2. /\ n \in Nat /\ st \in [0..n -> Nat] /\ st[0] = 0
      /\ \A k \in 1..n : st[k] = AddBytes(X)[<<st[k - 1], s[k]>>]
    BY <1>1, CharactersAre DEF States
<1> DEFINE P == {k \in 0..n : k <= st[k]}
<1>3. 0 \in P
    BY <1>2
<1>4. ASSUME NEW k \in P, k < n PROVE k + 1 \in P
    <2>1. k + 1 \in 1..n /\ (k + 1) - 1 = k /\ k \in 0..n /\ k <= st[k]
        BY <1>2, <1>4
    <2>2. s[k + 1] \in Characters(X) /\ s[k + 1][2] \in Nat \ {0}
        BY <2>1, CharactersAre
    <2>3. st[k] \in Nat /\ st[k + 1] = AddBytes(X)[<<st[k], s[k + 1]>>]
        BY <1>2, <2>1
    <2>4. st[k + 1] = st[k] + s[k + 1][2]
        BY <2>2, <2>3 DEF AddBytes
    <2>5. k + 1 <= st[k + 1] /\ k + 1 \in 0..n
        <3> DEFINE a == st[k]
                   b == s[k + 1][2]
        <3>1. st[k + 1] = a + b /\ a \in Nat /\ b \in Nat \ {0} /\ k <= a /\ k \in Nat
            BY <2>1, <2>2, <2>3, <2>4
        <3> HIDE DEF a, b
        <3>2. k + 1 <= a + b
            BY <3>1
        <3> QED BY <2>1, <3>1, <3>2
    <2> QED BY <2>5
<1>5. \A k \in 0..n : k \in P
    <2>1. P \in SUBSET (0..n)
        OBVIOUS
    <2> HIDE DEF P, n
    <2> QED BY <1>2, <1>3, <1>4, <2>1, InductionUpTo
<1>6. n <= st[n] /\ st[n] \in Nat
    BY <1>2, <1>5
<1>7. s = <<>> => st[n] = 0
    BY <1>2
<1> QED BY <1>1, <1>6, <1>7

\* A string of one-byte characters has as many bytes as characters
LEMMA BytesOfOne ==
    ASSUME NEW X, NEW s \in Seq(Characters(X)), OfOneByte(s)
    PROVE  Bytes(s) = Len(s)
<1> DEFINE n == Len(s)
<1>1. PICK st : States(st, Nat, AddBytes(X), 0, s) /\ Bytes(s) = st[n]
    BY BytesStates
<1>2. /\ n \in Nat /\ st \in [0..n -> Nat] /\ st[0] = 0
      /\ \A k \in 1..n : st[k] = AddBytes(X)[<<st[k - 1], s[k]>>]
    BY <1>1, CharactersAre DEF States
<1> DEFINE P == {k \in 0..n : st[k] = k}
<1>3. 0 \in P
    BY <1>2
<1>4. ASSUME NEW k \in P, k < n PROVE k + 1 \in P
    <2>1. k + 1 \in 1..n /\ (k + 1) - 1 = k /\ k \in 0..n /\ st[k] = k
        BY <1>2, <1>4
    <2>2. s[k + 1] \in Characters(X) /\ s[k + 1][2] = 1
        BY <2>1, CharactersAre DEF OfOneByte
    <2>3. st[k] \in Nat /\ st[k + 1] = AddBytes(X)[<<st[k], s[k + 1]>>]
        BY <1>2, <2>1
    <2>4. st[k + 1] = st[k] + s[k + 1][2]
        BY <2>2, <2>3 DEF AddBytes
    <2> QED BY <2>1, <2>2, <2>4
<1>5. \A k \in 0..n : k \in P
    <2>1. P \in SUBSET (0..n)
        OBVIOUS
    <2> HIDE DEF P, n
    <2> QED BY <1>2, <1>3, <1>4, <2>1, InductionUpTo
<1>6. st[n] = n
    BY <1>2, <1>5
<1> QED BY <1>1, <1>6

\* The last place before i of the character that is there
LastIndex(s, i) == Max({0} \cup {j \in 1..(i - 1) : s[j] = s[i]})

Slides == [left : Nat, ans : Nat]

Slid(s) == [p \in Slides \X (1..Len(s)) |->
               IF LastIndex(s, p[2]) > p[1].left
               THEN [left |-> LastIndex(s, p[2]), ans |-> Max({p[1].ans, p[2] - 1 - p[1].left})]
               ELSE p[1]]

LEMMA LastIndexIs ==
    ASSUME NEW s, NEW i \in Nat \ {0}
    PROVE  /\ LastIndex(s, i) \in 0..(i - 1)
           /\ LastIndex(s, i) # 0 => s[LastIndex(s, i)] = s[i]
           /\ \A j \in 1..(i - 1) : s[j] = s[i] => j <= LastIndex(s, i)
<1> DEFINE T == {0} \cup {j \in 1..(i - 1) : s[j] = s[i]}
<1>1. T \in SUBSET Int /\ T # {} /\ i \in Int /\ \A y \in T : y <= i
    OBVIOUS
<1>2. Max(T) \in T /\ \A y \in T : Max(T) >= y
    <2> HIDE DEF T
    <2> QED BY <1>1, MaxExists
<1>3. LastIndex(s, i) = Max(T)
    BY DEF LastIndex
<1> HIDE DEF LastIndex
<1> DEFINE x == Max(T)
<1>4. x \in T /\ \A y \in T : x >= y
    BY <1>2
<1>5. LastIndex(s, i) = x
    BY <1>3
<1> HIDE DEF x
<1> QED BY <1>4, <1>5

LEMMA SlidIs ==
    ASSUME NEW s, Len(s) \in Nat, NEW w \in Slides, NEW i \in 1..Len(s)
    PROVE  /\ Slid(s)[<<w, i>>] \in Slides
           /\ Slid(s)[<<w, i>>] = IF LastIndex(s, i) > w.left
                                  THEN [left |-> LastIndex(s, i), ans |-> Max({w.ans, i - 1 - w.left})]
                                  ELSE w
<1>1. w.left \in Nat /\ w.ans \in Nat
    BY DEF Slides
<1>2. Max({w.ans, i - 1 - w.left}) \in Nat
    <2>1. w.ans \in Int /\ i - 1 - w.left \in Int
        BY <1>1
    <2> QED BY <1>1, <2>1, MaxOfTwo
<1>3. LastIndex(s, i) \in Nat
    BY LastIndexIs
<1> QED BY <1>2, <1>3 DEF Slid, Slides

LEMMA SlidType ==
    ASSUME NEW s, Len(s) \in Nat
    PROVE  Slid(s) \in [Slides \X (1..Len(s)) -> Slides]
<1>1. ASSUME NEW p \in Slides \X (1..Len(s)) PROVE Slid(s)[p] \in Slides
    <2>1. p[1] \in Slides /\ p[2] \in 1..Len(s) /\ p = <<p[1], p[2]>>
        OBVIOUS
    <2> QED BY <2>1, SlidIs
<1>2. DOMAIN Slid(s) = Slides \X (1..Len(s)) /\ Slid(s) = [p \in Slides \X (1..Len(s)) |-> Slid(s)[p]]
    BY DEF Slid
<1> QED BY <1>1, <1>2

LEMMA SubstringStates ==
    ASSUME NEW X, NEW s \in Seq(Characters(X))
    PROVE  \E st : States(st, Slides, Slid(s), [left |-> 0, ans |-> 0], Indices(s)) /\ length_of_longest_substring(s) = (IF Bytes(s) <= 1 THEN Bytes(s) ELSE Max({st[Len(Indices(s))].ans, Bytes(s) - st[Len(Indices(s))].left}))
<1>0. Indices(s) \in Seq((1..Len(s))) /\ DOMAIN Indices(s) = 1..Len(Indices(s)) /\ Len(Indices(s)) \in Nat
      /\ \A k \in 1..Len(Indices(s)) : Indices(s)[k] \in (1..Len(s))
    BY IndicesAre
<1>1. Slid(s) \in [Slides \X (1..Len(s)) -> Slides]
    BY SlidType, CharactersAre
<1>2. \A x \in Slides, y \in (1..Len(s)) : Slid(s)[<<x, y>>] = (IF LastIndex(s, y) > x.left THEN [left |-> LastIndex(s, y), ans |-> Max({x.ans, y - 1 - x.left})] ELSE x)
    BY DEF Slid
<1>3. [left |-> 0, ans |-> 0] \in Slides
    BY DEF Slides
<1> DEFINE Is(it) == it = [S \in SUBSET (DOMAIN Indices(s)) |->
                              IF S = {} THEN [left |-> 0, ans |-> 0] ELSE (IF LastIndex(s, Indices(s)[Max(S)]) > it[S \ {Max(S)}].left THEN [left |-> LastIndex(s, Indices(s)[Max(S)]), ans |-> Max({it[S \ {Max(S)}].ans, Indices(s)[Max(S)] - 1 - it[S \ {Max(S)}].left})] ELSE it[S \ {Max(S)}])]
           fold == CHOOSE it : Is(it)
<1>4. \E it : Is(it)
    <2>1. PICK it \in [SUBSET (1..Len(Indices(s))) -> Slides] : Folds(it, Slides, Slid(s), [left |-> 0, ans |-> 0], Indices(s))
        BY <1>0, <1>1, <1>3, FoldExists, Zenon
    <2>2. ASSUME NEW S \in SUBSET (1..Len(Indices(s))), S # {}
          PROVE  it[S] = (IF LastIndex(s, Indices(s)[Max(S)]) > it[S \ {Max(S)}].left THEN [left |-> LastIndex(s, Indices(s)[Max(S)]), ans |-> Max({it[S \ {Max(S)}].ans, Indices(s)[Max(S)] - 1 - it[S \ {Max(S)}].left})] ELSE it[S \ {Max(S)}])
        <3>1. Max(S) \in 1..Len(Indices(s))
            BY <1>0, <2>2, LastPlace
        <3>2. it[S \ {Max(S)}] \in Slides /\ Indices(s)[Max(S)] \in (1..Len(s))
            BY <1>0, <3>1
        <3>3. it[S] = Slid(s)[<<it[S \ {Max(S)}], Indices(s)[Max(S)]>>]
            BY <2>1, <2>2, <3>2 DEF Folds
        <3> QED BY <1>2, <3>2, <3>3
    <2>3. Is(it)
        BY <1>0, <2>1, <2>2 DEF Folds
    <2> QED BY <2>3
<1>5. Is(fold)
    <2> HIDE DEF Is
    <2> QED BY <1>4
<1>6. length_of_longest_substring(s) = (IF Bytes(s) <= 1 THEN Bytes(s) ELSE Max({fold[1..Len(Indices(s))].ans, Bytes(s) - fold[1..Len(Indices(s))].left}))
    <2>1. length_of_longest_substring(s) = (IF Bytes(s) <= 1 THEN Bytes(s) ELSE Max({fold[DOMAIN Indices(s)].ans, Bytes(s) - fold[DOMAIN Indices(s)].left}))
        BY Zenon DEF length_of_longest_substring, FoldLeftDomain, Indices, LastIndex, FoldLeft, MapThenFoldSet
    <2> HIDE DEF fold
    <2> QED BY <1>0, <2>1
<1> HIDE DEF fold
<1>7. Folds(fold, Slides, Slid(s), [left |-> 0, ans |-> 0], Indices(s))
    <2>1. fold[{}] = [left |-> 0, ans |-> 0]
        BY <1>5
    <2>2. ASSUME NEW S \in SUBSET (1..Len(Indices(s))), S # {}, fold[S \ {Max(S)}] \in Slides
          PROVE  fold[S] = Slid(s)[<<fold[S \ {Max(S)}], Indices(s)[Max(S)]>>]
        <3>1. Indices(s)[Max(S)] \in (1..Len(s))
            BY <1>0, <2>2, LastPlace
        <3>2. fold[S] = (IF LastIndex(s, Indices(s)[Max(S)]) > fold[S \ {Max(S)}].left THEN [left |-> LastIndex(s, Indices(s)[Max(S)]), ans |-> Max({fold[S \ {Max(S)}].ans, Indices(s)[Max(S)] - 1 - fold[S \ {Max(S)}].left})] ELSE fold[S \ {Max(S)}])
            BY <1>0, <1>5, <2>2
        <3> QED BY <1>2, <2>2, <3>1, <3>2, ZenonT(40)
    <2> QED BY <2>1, <2>2 DEF Folds
<1>8. LastState(fold[1..Len(Indices(s))], Slides, Slid(s), [left |-> 0, ans |-> 0], Indices(s))
    BY <1>0, <1>1, <1>3, <1>7, FoldStates, Zenon
<1> QED BY <1>6, <1>8 DEF LastState

-----------------------------------------------------------------------------

\* No character is twice in the part of s from i + 1 to j
Apart(s, i, j) == \A a, b \in (i + 1)..j : s[a] = s[b] => a = b

Sliding(s, w, k) ==
    /\ w \in Slides /\ w.left <= k
    /\ Apart(s, w.left, k)
    /\ w.left # 0 => \E m \in (w.left + 1)..k : s[m] = s[w.left]
    /\ \E i \in 0..Len(s), j \in 0..Len(s) : i <= j /\ Apart(s, i, j) /\ w.ans <= j - i
    /\ \A i \in 0..k, j \in 0..k : i <= j /\ Apart(s, i, j) => j - i <= w.ans \/ j - i <= k - w.left

LEMMA SlidingStep ==
    ASSUME NEW s, Len(s) \in Nat, NEW k \in Nat, k < Len(s), NEW w, Sliding(s, w, k)
    PROVE  Sliding(s, Slid(s)[<<w, k + 1>>], k + 1)
<1> DEFINE n == Len(s)
           i1 == k + 1
           li == LastIndex(s, i1)
           l == w.left
           ans == w.ans
           v == Slid(s)[<<w, i1>>]
<1>1. /\ w \in Slides /\ l \in Nat /\ ans \in Nat /\ l <= k
      /\ Apart(s, l, k)
      /\ l # 0 => \E m \in (l + 1)..k : s[m] = s[l]
      /\ \E i \in 0..n, j \in 0..n : i <= j /\ Apart(s, i, j) /\ ans <= j - i
      /\ \A i \in 0..k, j \in 0..k : i <= j /\ Apart(s, i, j) => j - i <= ans \/ j - i <= k - l
    BY DEF Sliding, Slides
<1>2. n \in Nat /\ i1 \in 1..n /\ k \in 0..n /\ k \in Int
    OBVIOUS
<1>3. v \in Slides /\ v = IF li > l THEN [left |-> li, ans |-> Max({ans, i1 - 1 - l})] ELSE w
    BY <1>1, <1>2, SlidIs
<1>4. /\ li \in 0..k
      /\ li # 0 => s[li] = s[i1]
      /\ \A j \in 1..k : s[j] = s[i1] => j <= li
    BY <1>2, LastIndexIs
<1> HIDE DEF li, l, ans, v
<1>5. CASE li > l
    <2> DEFINE new == Max({ans, k - l})
    <2>1. new \in Int /\ ans <= new /\ k - l <= new /\ (new = ans \/ new = k - l)
        <3>1. ans \in Int /\ k - l \in Int
            BY <1>1
        <3> QED BY <3>1, MaxOfTwo
    <2>2. v.left = li /\ v.ans = new
        <3>1. i1 - 1 - l = k - l
            BY <1>1
        <3> QED BY <1>3, <1>5, <3>1
    <2> HIDE DEF new
    <2>3. Apart(s, li, i1)
        <3>1. ASSUME NEW a \in (li + 1)..i1, NEW b \in (li + 1)..i1, s[a] = s[b] PROVE a = b
            <4>1. CASE a # i1 /\ b # i1
                <5>1. a \in (l + 1)..k /\ b \in (l + 1)..k
                    BY <1>1, <1>4, <1>5, <4>1
                <5> QED BY <1>1, <3>1, <5>1 DEF Apart
            <4>2. CASE a = i1 /\ b # i1
                <5>1. b \in 1..k /\ ~(b <= li)
                    BY <1>2, <1>4, <4>2
                <5> QED BY <1>4, <3>1, <4>2, <5>1
            <4>3. CASE a # i1 /\ b = i1
                <5>1. a \in 1..k /\ ~(a <= li)
                    BY <1>2, <1>4, <4>3
                <5> QED BY <1>4, <3>1, <4>3, <5>1
            <4> QED BY <4>1, <4>2, <4>3
        <3> QED BY <3>1 DEF Apart
    <2>4. \E m \in (li + 1)..i1 : s[m] = s[li]
        <3>1. li # 0 /\ i1 \in (li + 1)..i1
            BY <1>1, <1>2, <1>4, <1>5
        <3> QED BY <1>4, <3>1
    <2>5. \E i \in 0..n, j \in 0..n : i <= j /\ Apart(s, i, j) /\ new <= j - i
        <3>1. CASE new = ans
            BY <1>1, <3>1
        <3>2. CASE new = k - l
            <4>1. l \in 0..n /\ k \in 0..n /\ l <= k /\ new <= k - l
                BY <1>1, <1>2, <2>1, <3>2
            <4> QED BY <1>1, <4>1
        <3> QED BY <2>1, <3>1, <3>2
    <2>6. ASSUME NEW i \in 0..i1, NEW j \in 0..i1, i <= j, Apart(s, i, j)
          PROVE  j - i <= new \/ j - i <= i1 - li
        <3>1. CASE j # i1
            <4>1. i \in 0..k /\ j \in 0..k /\ i <= j
                BY <1>2, <2>6, <3>1
            <4>2. j - i <= ans \/ j - i <= k - l
                BY <1>1, <2>6, <4>1
            <4> QED BY <1>1, <2>1, <4>1, <4>2
        <3>2. CASE j = i1 /\ i < li
            <4>1. li \in (i + 1)..j /\ i1 \in (i + 1)..j /\ s[li] = s[i1] /\ li # i1
                BY <1>2, <1>4, <2>6, <3>2
            <4> QED BY <2>6, <4>1 DEF Apart
        <3>3. CASE j = i1 /\ ~(i < li)
            <4>1. li \in Int /\ i \in Int /\ i1 \in Int
                BY <1>2, <1>4
            <4> QED BY <3>3, <4>1
        <3> QED BY <3>1, <3>2, <3>3
    <2>7. v \in Slides /\ v.left <= i1 /\ Apart(s, v.left, i1)
        BY <1>2, <1>3, <1>4, <2>2, <2>3
    <2>8. v.left # 0 => \E m \in (v.left + 1)..i1 : s[m] = s[v.left]
        BY <2>2, <2>4
    <2>9. \A i \in 0..i1, j \in 0..i1 : i <= j /\ Apart(s, i, j) => j - i <= v.ans \/ j - i <= i1 - v.left
        BY <2>2, <2>6
    <2>10. \E i \in 0..n, j \in 0..n : i <= j /\ Apart(s, i, j) /\ v.ans <= j - i
        BY <2>2, <2>5
    <2> QED BY <2>7, <2>8, <2>9, <2>10 DEF Sliding, v
<1>6. CASE ~(li > l)
    <2>1. v = w
        BY <1>3, <1>6
    <2>2. li \in Int /\ l \in Int /\ li <= l
        BY <1>1, <1>4, <1>6
    <2>3. Apart(s, l, i1)
        <3>1. ASSUME NEW a \in (l + 1)..i1, NEW b \in (l + 1)..i1, s[a] = s[b] PROVE a = b
            <4>1. CASE a # i1 /\ b # i1
                <5>1. a \in (l + 1)..k /\ b \in (l + 1)..k
                    BY <1>1, <4>1
                <5> QED BY <1>1, <3>1, <5>1 DEF Apart
            <4>2. CASE a = i1 /\ b # i1
                <5>1. b \in 1..k /\ ~(b <= li)
                    BY <1>1, <1>2, <2>2, <4>2
                <5> QED BY <1>4, <3>1, <4>2, <5>1
            <4>3. CASE a # i1 /\ b = i1
                <5>1. a \in 1..k /\ ~(a <= li)
                    BY <1>1, <1>2, <2>2, <4>3
                <5> QED BY <1>4, <3>1, <4>3, <5>1
            <4> QED BY <4>1, <4>2, <4>3
        <3> QED BY <3>1 DEF Apart
    <2>4. ASSUME l # 0 PROVE \E m \in (l + 1)..i1 : s[m] = s[l]
        <3>1. PICK m \in (l + 1)..k : s[m] = s[l]
            BY <1>1, <2>4
        <3>2. m \in (l + 1)..i1
            BY <1>1
        <3> QED BY <3>1, <3>2
    <2>5. ASSUME NEW i \in 0..i1, NEW j \in 0..i1, i <= j, Apart(s, i, j)
          PROVE  j - i <= ans \/ j - i <= i1 - l
        <3>1. CASE j # i1
            <4>1. i \in 0..k /\ j \in 0..k /\ i <= j
                BY <1>2, <2>5, <3>1
            <4>2. j - i <= ans \/ j - i <= k - l
                BY <1>1, <2>5, <4>1
            <4> QED BY <1>1, <4>1, <4>2
        <3>2. CASE j = i1 /\ i < l
            <4>1. PICK m \in (l + 1)..k : s[m] = s[l]
                BY <1>1, <3>2
            <4>2. l \in (i + 1)..j /\ m \in (i + 1)..j /\ l # m
                BY <1>1, <1>2, <3>2
            <4> QED BY <2>5, <4>1, <4>2 DEF Apart
        <3>3. CASE j = i1 /\ ~(i < l)
            BY <1>1, <3>3
        <3> QED BY <3>1, <3>2, <3>3
    <2>6. w.left = l /\ w.ans = ans /\ l <= i1
        BY <1>1 DEF l, ans
    <2>7. Sliding(s, w, i1)
        BY <1>1, <2>3, <2>4, <2>5, <2>6 DEF Sliding
    <2> QED BY <2>1, <2>7 DEF v
<1> QED BY <1>5, <1>6

\* The longest part without a character that is twice in it
LEMMA LongestIs ==
    ASSUME NEW X, NEW s \in Seq(X), NEW x \in Nat,
           \E i \in 0..Len(s), j \in 0..Len(s) : i <= j /\ Apart(s, i, j) /\ x <= j - i,
           \A i \in 0..Len(s), j \in 0..Len(s) : i <= j /\ Apart(s, i, j) => j - i <= x
    PROVE  Longest(s) = x
<1> DEFINE n == Len(s)
           parts == {u \in SubSeqs(s) : Distinct(u)}
           lengths == {Len(t) : t \in parts}
<1>1. ASSUME NEW i \in 0..n, NEW j \in i..n
      PROVE  LET t == SubSeq(s, i + 1, j) IN Len(t) = j - i /\ (Distinct(t) <=> Apart(s, i, j))
    <2> DEFINE t == SubSeq(s, i + 1, j)
    <2>1. t \in Seq(X) /\ Len(t) = j - i /\ \A k \in 1..(j - i) : t[k] = s[i + k]
        BY PartAt
    <2> HIDE DEF t
    <2>2. DOMAIN t = 1..(j - i)
        BY <2>1
    <2>3. ASSUME Apart(s, i, j), NEW a \in 1..(j - i), NEW b \in 1..(j - i), t[a] = t[b] PROVE a = b
        <3>1. i + a \in (i + 1)..j /\ i + b \in (i + 1)..j /\ s[i + a] = s[i + b]
            BY <2>1, <2>3
        <3>2. i + a = i + b
            BY <2>3, <3>1 DEF Apart
        <3> QED BY <3>2
    <2>4. ASSUME Distinct(t), NEW a \in (i + 1)..j, NEW b \in (i + 1)..j, s[a] = s[b] PROVE a = b
        <3>1. /\ a - i \in 1..(j - i) /\ b - i \in 1..(j - i) /\ i + (a - i) = a /\ i + (b - i) = b
            OBVIOUS
        <3>2. t[a - i] = s[a] /\ t[b - i] = s[b]
            BY <2>1, <3>1
        <3>3. a - i = b - i
            BY <2>2, <2>4, <3>1, <3>2 DEF Distinct
        <3> QED BY <3>1, <3>3
    <2>5. Distinct(t) <=> Apart(s, i, j)
        BY <2>2, <2>3, <2>4 DEF Distinct, Apart
    <2> QED BY <2>1, <2>5 DEF t
<1>2. \A u \in SubSeqs(s) : \E i \in 0..n, j \in 0..n : u = SubSeq(s, i + 1, j)
    BY DEF SubSeqs
<1>3. ASSUME NEW i \in 0..n, NEW j \in 0..n PROVE SubSeq(s, i + 1, j) \in SubSeqs(s)
    BY DEF SubSeqs
<1>9. n \in Nat
    OBVIOUS
<1>4. ASSUME NEW y \in lengths PROVE y \in Int /\ x >= y
    <2>1. PICK t \in SubSeqs(s) : Distinct(t) /\ y = Len(t)
        OBVIOUS
    <2>2. PICK i \in 0..n, j \in 0..n : t = SubSeq(s, i + 1, j)
        BY <1>2, <2>1
    <2>3. CASE i <= j
        <3>1. j \in i..n
            BY <1>9, <2>3
        <3>2. Len(t) = j - i /\ Apart(s, i, j)
            BY <1>1, <2>1, <2>2, <3>1
        <3>3. j - i <= x
            BY <2>3, <3>2
        <3> QED BY <2>1, <3>2, <3>3
    <2>4. CASE ~(i <= j)
        <3>1. t = <<>>
            BY <1>9, <2>2, <2>4
        <3> QED BY <2>1, <3>1
    <2> QED BY <2>3, <2>4
<1>5. x \in lengths
    <2>1. PICK i \in 0..n, j \in 0..n : i <= j /\ Apart(s, i, j) /\ x <= j - i
        OBVIOUS
    <2>2. j - i <= x /\ j \in i..n
        BY <1>9, <2>1
    <2>3. x = j - i
        BY <1>9, <2>1, <2>2
    <2> DEFINE t == SubSeq(s, i + 1, j)
    <2>4. t \in SubSeqs(s) /\ Len(t) = j - i /\ Distinct(t)
        BY <1>1, <1>3, <2>1, <2>2
    <2> HIDE DEF t
    <2> QED BY <2>3, <2>4
<1>6. Longest(s) = Max(lengths)
    BY DEF Longest
<1>7. lengths \in SUBSET Int
    BY <1>4
<1> HIDE DEF lengths
<1> QED BY <1>4, <1>5, <1>6, <1>7, MaxIs

\* Of any string, length_of_longest_substring (lc_3) returns the length of the
\* longest part in which no character is twice, or more: by at most the bytes that
\* follow the first one of a character, for the last candidate is counted in bytes.
THEOREM SubstringIsNear ==
    \A X : \A s \in Seq(Characters(X)) :
        /\ Longest(s) \in Nat
        /\ length_of_longest_substring(s) \in Longest(s)..(Longest(s) + Bytes(s) - Len(s))
<1> SUFFICES ASSUME NEW X, NEW s \in Seq(Characters(X))
             PROVE  /\ Longest(s) \in Nat
                    /\ length_of_longest_substring(s) \in Longest(s)..(Longest(s) + Bytes(s) - Len(s))
    OBVIOUS
<1> DEFINE n == Len(s)
           out == length_of_longest_substring(s)
           bytes == Bytes(s)
<1>1. PICK st : /\ States(st, Slides, Slid(s), [left |-> 0, ans |-> 0], Indices(s))
                /\ out = IF bytes <= 1 THEN bytes
                         ELSE Max({st[Len(Indices(s))].ans, bytes - st[Len(Indices(s))].left})
    BY SubstringStates
<1>2. Len(Indices(s)) = n /\ n \in Nat /\ \A k \in 1..n : Indices(s)[k] = k
    BY IndicesAre
<1>3. st[0] = [left |-> 0, ans |-> 0] /\ \A k \in 1..n : st[k] = Slid(s)[<<st[k - 1], k>>]
    BY <1>1, <1>2 DEF States
<1>4. Sliding(s, st[0], 0)
    <2>1. st[0] \in Slides /\ st[0].left = 0 /\ st[0].ans = 0
        BY <1>3 DEF Slides
    <2>2. 0 \in 0..n /\ Apart(s, 0, 0) /\ \A i \in 0..0 : i = 0
        BY <1>2 DEF Apart
    <2>3. \A i \in 0..0, j \in 0..0 : j - i <= 0
        OBVIOUS
    <2>4. 0 <= 0 /\ 0 <= 0 - 0
        OBVIOUS
    <2>5. \E i \in 0..n, j \in 0..n : i <= j /\ Apart(s, i, j) /\ 0 <= j - i
        BY <2>2, <2>4
    <2> QED BY <2>1, <2>2, <2>3, <2>5 DEF Sliding
<1> DEFINE P == {k \in 0..n : Sliding(s, st[k], k)}
<1>5. ASSUME NEW k \in P, k < n PROVE k + 1 \in P
    <2>1. k \in Nat /\ k + 1 \in 1..n /\ k + 1 \in 0..n /\ (k + 1) - 1 = k /\ Sliding(s, st[k], k)
        BY <1>2, <1>5
    <2>2. st[k + 1] = Slid(s)[<<st[k], k + 1>>]
        BY <1>3, <2>1
    <2>3. Sliding(s, st[k + 1], k + 1)
        BY <1>2, <1>5, <2>1, <2>2, SlidingStep
    <2> QED BY <2>1, <2>3
<1>6. \A k \in 0..n : k \in P
    <2>1. 0 \in P /\ P \in SUBSET (0..n)
        BY <1>2, <1>4
    <2> HIDE DEF P, n
    <2> QED BY <1>2, <1>5, <2>1, InductionUpTo
<1>7. Sliding(s, st[n], n)
    BY <1>2, <1>6
<1> DEFINE l == st[n].left
           ans == st[n].ans
           x == IF ans >= n - l THEN ans ELSE n - l
<1>8. /\ l \in Nat /\ ans \in Nat /\ l <= n /\ Apart(s, l, n)
      /\ l # 0 => \E m \in (l + 1)..n : s[m] = s[l]
      /\ \E i \in 0..n, j \in 0..n : i <= j /\ Apart(s, i, j) /\ ans <= j - i
      /\ \A i \in 0..n, j \in 0..n : i <= j /\ Apart(s, i, j) => j - i <= ans \/ j - i <= n - l
    BY <1>7 DEF Sliding, Slides
<1>9. bytes \in Nat /\ n <= bytes /\ (s = <<>> => bytes = 0) /\ (n = 0 => s = <<>>)
    BY BytesAreMore
<1>10. out = IF bytes <= 1 THEN bytes ELSE Max({ans, bytes - l})
    BY <1>1, <1>2
<1> HIDE DEF l, ans, n, out, bytes, P
<1>11. x \in Nat /\ ans <= x /\ n - l <= x
    BY <1>2, <1>8
<1>12. \E i \in 0..n, j \in 0..n : i <= j /\ Apart(s, i, j) /\ x <= j - i
    <2>1. CASE ans >= n - l
        BY <1>8, <2>1
    <2>2. CASE ~(ans >= n - l)
        <3>1. l \in 0..n /\ n \in 0..n /\ x <= n - l
            BY <1>2, <1>8, <2>2
        <3> QED BY <1>8, <3>1
    <2> QED BY <2>1, <2>2
<1>13. ASSUME NEW i \in 0..n, NEW j \in 0..n, i <= j, Apart(s, i, j) PROVE j - i <= x
    <2>1. j - i <= ans \/ j - i <= n - l
        BY <1>8, <1>13
    <2> QED BY <1>2, <1>8, <1>11, <2>1
<1> HIDE DEF x
<1>14. Longest(s) = x
    <2>1. s \in Seq(Characters(X))
        OBVIOUS
    <2> QED BY <1>11, <1>12, <1>13, <2>1, LongestIs DEF n
<1>15. out \in Int /\ x <= out /\ out <= x + bytes - n
    <2>1. CASE bytes <= 1
        <3>1. n = bytes
            BY <1>2, <1>9, <2>1
        <3>2. x <= n
            <4>1. PICK i \in 0..n, j \in 0..n : i <= j /\ x <= j - i
                BY <1>12
            <4> QED BY <1>2, <1>11, <4>1
        <3>3. n <= x
            <4>1. CASE l = 0
                BY <1>2, <1>11, <4>1
            <4>2. CASE l # 0
                <5>1. PICK m \in (l + 1)..n : s[m] = s[l]
                    BY <1>8, <4>2
                <5>2. FALSE
                    BY <1>2, <1>8, <2>1, <3>1, <4>2, <5>1
                <5> QED BY <5>2
            <4> QED BY <4>1, <4>2
        <3> QED BY <1>2, <1>10, <1>11, <2>1, <3>1, <3>2, <3>3
    <2>2. CASE ~(bytes <= 1)
        <3>1. ans \in Int /\ bytes - l \in Int
            BY <1>8, <1>9
        <3>2. out = IF ans >= bytes - l THEN ans ELSE bytes - l
            BY <1>10, <2>2, <3>1, MaxOfTwo
        <3>3. x = ans \/ x = n - l
            BY DEF x
        <3> QED BY <1>2, <1>8, <1>9, <1>11, <3>2, <3>3
    <2> QED BY <2>1, <2>2
<1>16. out \in x..(x + bytes - n)
    BY <1>2, <1>9, <1>11, <1>15
<1> QED BY <1>11, <1>14, <1>16 DEF n, out, bytes

\* length_of_longest_substring (lc_3) returns the length of the longest part in
\* which no character is twice, for every string of one-byte characters.
THEOREM SubstringIsLongest ==
    \A X : \A s \in Seq(Characters(X)) :
        OfOneByte(s) => IsLongest(s, length_of_longest_substring(s))
<1> SUFFICES ASSUME NEW X, NEW s \in Seq(Characters(X)), OfOneByte(s)
             PROVE  IsLongest(s, length_of_longest_substring(s))
    OBVIOUS
<1> DEFINE out == length_of_longest_substring(s)
           x == Longest(s)
<1>1. x \in Nat /\ out \in x..(x + Bytes(s) - Len(s))
    BY SubstringIsNear
<1>2. Bytes(s) = Len(s) /\ Len(s) \in Nat
    BY BytesOfOne, CharactersAre
<1> HIDE DEF x, out
<1>3. out = x
    BY <1>1, <1>2
<1> QED BY <1>3 DEF IsLongest, x, out

-----------------------------------------------------------------------------
(* lc_128, the first way *)

Takes(nums) == [key : Int, run : Nat, accessed : SUBSET nums, num : [nums -> Nat]]

Taking(nums, t) == t.key \in nums \ t.accessed

Taken(t) == [key |-> t.key + 1, run |-> t.run + t.num[t.key],
             accessed |-> t.accessed \cup {t.key}, num |-> t.num]

IsTake(f, nums) == f = [t \in Takes(nums) |-> IF t.key \in nums \ t.accessed THEN f[Taken(t)] ELSE t]

TakeLoop(nums) == CHOOSE f : IsTake(f, nums)

TakeDone(nums) == {t \in Takes(nums) : ~Taking(nums, t)}

TakeBase(nums) == [t \in Takes(nums) |-> t]

TakeNext(nums) == [t \in Takes(nums) |-> IF Taking(nums, t) THEN Taken(t) ELSE t]

TakeLeft(nums) == [t \in Takes(nums) |-> Cardinality(nums \ t.accessed)]

LEMMA TakenIs ==
    ASSUME NEW nums \in SUBSET Keys, NEW t \in Takes(nums), Taking(nums, t)
    PROVE  /\ Taken(t) \in Takes(nums) /\ t.key \in nums /\ t.key \notin t.accessed
           /\ Taken(t).key = t.key + 1 /\ Taken(t).run = t.run + t.num[t.key]
           /\ Taken(t).accessed = t.accessed \cup {t.key} /\ Taken(t).num = t.num
<1>1. t.key \in Int /\ t.run \in Nat /\ t.accessed \in SUBSET nums /\ t.num \in [nums -> Nat]
    BY DEF Takes
<1>2. t.key \in nums /\ t.key \notin t.accessed
    BY DEF Taking
<1>3. t.key + 1 \in Int /\ t.run + t.num[t.key] \in Nat /\ t.accessed \cup {t.key} \in SUBSET nums
    BY <1>1, <1>2
<1> QED BY <1>1, <1>2, <1>3 DEF Taken, Takes

LEMMA TakeIsLoop ==
    ASSUME NEW nums \in SUBSET Keys
    PROVE  /\ IsLoop(Takes(nums), TakeDone(nums), TakeNext(nums), TakeLeft(nums))
           /\ TakeBase(nums) \in [Takes(nums) -> Takes(nums)]
           /\ \A t \in Takes(nums) \ TakeDone(nums) : TakeNext(nums)[t] = Taken(t) /\ Taken(t) \in Takes(nums)
<1>1. TakeDone(nums) \in SUBSET Takes(nums) /\ TakeBase(nums) \in [Takes(nums) -> Takes(nums)]
    BY DEF TakeDone, TakeBase
<1>2. ASSUME NEW t \in Takes(nums) \ TakeDone(nums)
      PROVE  TakeNext(nums)[t] = Taken(t) /\ Taken(t) \in Takes(nums)
    BY TakenIs DEF TakeDone, TakeNext
<1>3. TakeNext(nums) \in [Takes(nums) -> Takes(nums)]
    BY <1>2 DEF TakeNext, TakeDone
<1>4. ASSUME NEW X \in SUBSET nums PROVE IsFiniteSet(nums \ X) /\ Cardinality(nums \ X) \in Nat
    <2>1. nums \ X \in SUBSET Keys
        OBVIOUS
    <2> QED BY <2>1, KeysFinite, FS_CardinalityType
<1>5. TakeLeft(nums) \in [Takes(nums) -> Nat]
    BY <1>4 DEF TakeLeft, Takes
<1>6. ASSUME NEW t \in Takes(nums) \ TakeDone(nums)
      PROVE  TakeLeft(nums)[TakeNext(nums)[t]] < TakeLeft(nums)[t]
    <2>1. /\ Taken(t) \in Takes(nums) /\ t.key \in nums /\ t.key \notin t.accessed
          /\ Taken(t).accessed = t.accessed \cup {t.key} /\ t.accessed \in SUBSET nums
        BY TakenIs DEF TakeDone, Takes
    <2> DEFINE left == nums \ t.accessed
               key == t.key
    <2>2. key \in left /\ nums \ Taken(t).accessed = left \ {key}
        BY <2>1
    <2>3. IsFiniteSet(left) /\ Cardinality(left) \in Nat
        BY <1>4, <2>1
    <2>5. TakeLeft(nums)[t] = Cardinality(left)
        BY DEF TakeLeft
    <2> HIDE DEF left, key
    <2>4. Cardinality(left \ {key}) = Cardinality(left) - 1
        BY <2>2, <2>3, FS_RemoveElement
    <2>6. TakeLeft(nums)[Taken(t)] = Cardinality(left \ {key})
        BY <2>1, <2>2 DEF TakeLeft
    <2> QED BY <1>2, <2>3, <2>4, <2>5, <2>6
<1> QED BY <1>1, <1>2, <1>3, <1>5, <1>6 DEF IsLoop

LEMMA TakeEquation ==
    ASSUME NEW f, NEW nums
    PROVE  IsTake(f, nums) <=>
              /\ f = [t \in Takes(nums) |-> f[t]]
              /\ Loops(f, Takes(nums), TakeDone(nums), TakeBase(nums), TakeNext(nums))
<1>1. ASSUME NEW t \in Takes(nums)
      PROVE  (IF t.key \in nums \ t.accessed THEN f[Taken(t)] ELSE t)
                = IF t \in TakeDone(nums) THEN TakeBase(nums)[t] ELSE f[TakeNext(nums)[t]]
    BY DEF TakeDone, TakeBase, TakeNext, Taking
<1> QED BY <1>1 DEF IsTake, Loops

LEMMA TakeLoops ==
    ASSUME NEW nums \in SUBSET Keys
    PROVE  Loops(TakeLoop(nums), Takes(nums), TakeDone(nums), TakeBase(nums), TakeNext(nums))
<1> DEFINE R == Takes(nums)
<1>0. TakeBase(nums) \in [Takes(nums) -> R]
    BY TakeIsLoop
<1>1. IsLoop(Takes(nums), TakeDone(nums), TakeNext(nums), TakeLeft(nums))
    BY TakeIsLoop
<1> HIDE DEF R
<1>2. PICK g \in [Takes(nums) -> R] : Loops(g, Takes(nums), TakeDone(nums), TakeBase(nums), TakeNext(nums))
    BY <1>0, <1>1, LoopExists
<1>3. IsTake(g, nums)
    BY <1>2, TakeEquation
<1>4. IsTake(TakeLoop(nums), nums)
    BY <1>3 DEF TakeLoop
<1> QED BY <1>4, TakeEquation

\* The consecutive integers from x on are run numbers
Full(nums, x, run) ==
    run \in Nat \ {0} /\ (\A y \in x..(x + run - 1) : y \in nums) /\ x + run \notin nums

\* What is known when the keys in V were visited
Known(nums, V, accessed, num) ==
    /\ V \in SUBSET nums /\ accessed \in SUBSET nums /\ num \in [nums -> Nat]
    /\ \A x \in nums \ V : num[x] = 1
    /\ \A x \in accessed : x - 1 \in V \cup accessed
    /\ \A x \in V \cup accessed : x + 1 \in nums => x + 1 \in accessed
    /\ \A x \in V \ accessed : Full(nums, x, num[x])

\* The keys after k that are taken: new ones, and perhaps one that was visited
TakeKeeps(nums, V, accessed, num, k, t) ==
    /\ t.key > k /\ t.num = num
    /\ \A x \in (k + 1)..(t.key - 1) : x \in nums /\ x \notin accessed
    /\ t.accessed = accessed \cup ((k + 1)..(t.key - 1))
    /\ \/ /\ t.run = t.key - k
          /\ \A x \in (k + 1)..(t.key - 1) : x \notin V
       \/ /\ t.key - 1 \in V /\ t.key - 1 > k
          /\ t.key - 1 \notin accessed
          /\ t.run = (t.key - 1 - k) + num[t.key - 1]

LEMMA TakeKept ==
    ASSUME NEW nums \in SUBSET Keys, NEW V, NEW accessed, NEW num, Known(nums, V, accessed, num),
           NEW k \in nums, NEW t \in Takes(nums), Taking(nums, t), TakeKeeps(nums, V, accessed, num, k, t)
    PROVE  TakeKeeps(nums, V, accessed, num, k, Taken(t))
<1> DEFINE key == t.key
           run == t.run
<1>1. /\ Taken(t).key = key + 1 /\ Taken(t).run = run + num[key]
      /\ Taken(t).accessed = t.accessed \cup {key} /\ Taken(t).num = num
      /\ key \in nums /\ key \notin t.accessed
    BY TakenIs DEF TakeKeeps
<1>2. key \in Int /\ run \in Nat /\ k \in Int
    BY WidthAssumption DEF Takes, Keys, I32Min
<1>3. /\ key > k
      /\ \A x \in (k + 1)..(key - 1) : x \in nums /\ x \notin accessed
      /\ t.accessed = accessed \cup ((k + 1)..(key - 1))
      /\ \/ /\ run = key - k
            /\ \A x \in (k + 1)..(key - 1) : x \notin V
         \/ /\ key - 1 \in V /\ key - 1 > k
            /\ key - 1 \notin accessed
            /\ run = (key - 1 - k) + num[key - 1]
    BY DEF TakeKeeps
<1>4. /\ V \in SUBSET nums /\ accessed \in SUBSET nums /\ num \in [nums -> Nat]
      /\ \A x \in nums \ V : num[x] = 1
      /\ \A x \in V \cup accessed : x + 1 \in nums => x + 1 \in accessed
    BY DEF Known
<1> HIDE DEF key, run
<1>5. key \notin accessed
    BY <1>1, <1>3
<1>6. ~(key - 1 \in V)
    <2> SUFFICES ASSUME key - 1 \in V PROVE FALSE
        OBVIOUS
    <2> DEFINE y == key - 1
    <2>1. y + 1 = key /\ y \in V
        BY <1>2
    <2> HIDE DEF y
    <2>2. y + 1 \in nums => y + 1 \in accessed
        BY <1>4, <2>1
    <2> QED BY <1>1, <1>5, <2>1, <2>2
<1>7. run = key - k /\ \A x \in (k + 1)..(key - 1) : x \notin V
    BY <1>3, <1>6
<1>8. \A x \in (k + 1)..((key + 1) - 1) : x \in (k + 1)..(key - 1) \/ x = key
    BY <1>2
<1>9. \A x \in (k + 1)..((key + 1) - 1) : x \in nums /\ x \notin accessed
    BY <1>1, <1>3, <1>5, <1>8
<1>10. t.accessed \cup {key} = accessed \cup ((k + 1)..((key + 1) - 1))
    <2>1. (k + 1)..((key + 1) - 1) = ((k + 1)..(key - 1)) \cup {key}
        BY <1>2, <1>3
    <2> QED BY <1>3, <2>1
<1>11. key + 1 > k /\ (key + 1) - 1 = key
    BY <1>2, <1>3
<1>12. CASE key \notin V
    <2>1. num[key] = 1
        BY <1>1, <1>4, <1>12
    <2>2. run + num[key] = (key + 1) - k
        BY <1>2, <1>7, <2>1
    <2>3. \A x \in (k + 1)..((key + 1) - 1) : x \notin V
        BY <1>7, <1>8, <1>12
    <2> QED BY <1>1, <1>9, <1>10, <1>11, <2>2, <2>3 DEF TakeKeeps
<1>13. CASE key \in V
    <2>1. run + num[key] = (key - k) + num[key]
        BY <1>7
    <2>2. (key + 1) - 1 - k = key - k
        BY <1>2
    <2>3. Taken(t).key - 1 = key
        BY <1>1, <1>11
    <2>4. Taken(t).run = (Taken(t).key - 1 - k) + num[Taken(t).key - 1]
        BY <1>1, <1>11, <2>1, <2>3
    <2> QED BY <1>1, <1>3, <1>5, <1>9, <1>10, <1>11, <1>13, <2>3, <2>4 DEF TakeKeeps
<1> QED BY <1>12, <1>13

\* What has been taken when a key was visited
LEMMA TakeIs ==
    ASSUME NEW nums \in SUBSET Keys, NEW V, NEW accessed, NEW num, Known(nums, V, accessed, num),
           NEW k \in nums, k \notin V
    PROVE  LET e == TakeLoop(nums)[[key |-> k + 1, run |-> 1, accessed |-> accessed, num |-> num]]
           IN  /\ e \in Takes(nums) /\ ~Taking(nums, e) /\ TakeKeeps(nums, V, accessed, num, k, e)
<1> DEFINE start == [key |-> k + 1, run |-> 1, accessed |-> accessed, num |-> num]
           Q == {t \in Takes(nums) : TakeKeeps(nums, V, accessed, num, k, t)}
<1>1. accessed \in SUBSET nums /\ num \in [nums -> Nat] /\ k \in Int
    BY WidthAssumption DEF Known, Keys, I32Min
<1>2. start \in Takes(nums) /\ start.key = k + 1 /\ start.run = 1 /\ start.accessed = accessed /\ start.num = num
    BY <1>1 DEF Takes
<1>3. start \in Q
    <2>1. k + 1 > k /\ (k + 1) - k = 1 /\ (k + 1)..((k + 1) - 1) = {}
        BY <1>1
    <2> HIDE DEF start
    <2>2. TakeKeeps(nums, V, accessed, num, k, start)
        BY <1>2, <2>1 DEF TakeKeeps
    <2> QED BY <1>2, <2>2
<1>4. Kept(Q, Takes(nums), TakeDone(nums), TakeNext(nums))
    <2>1. ASSUME NEW t \in Q \ TakeDone(nums) PROVE TakeNext(nums)[t] \in Q
        <3>1. t \in Takes(nums) /\ Taking(nums, t) /\ TakeKeeps(nums, V, accessed, num, k, t)
            BY DEF TakeDone
        <3>2. TakeNext(nums)[t] = Taken(t) /\ Taken(t) \in Takes(nums)
            BY TakeIsLoop
        <3>3. TakeKeeps(nums, V, accessed, num, k, Taken(t))
            BY <3>1, TakeKept
        <3> QED BY <3>2, <3>3
    <2> QED BY <2>1 DEF Kept
<1>5. IsLoop(Takes(nums), TakeDone(nums), TakeNext(nums), TakeLeft(nums))
    BY TakeIsLoop
<1>6. Loops(TakeLoop(nums), Takes(nums), TakeDone(nums), TakeBase(nums), TakeNext(nums))
    BY TakeLoops
<1>7. PICK e \in Q \cap TakeDone(nums) : TakeLoop(nums)[start] = TakeBase(nums)[e]
    <2> HIDE DEF Q, start
    <2> QED BY <1>3, <1>4, <1>5, <1>6, LoopEnds
<1>8. TakeBase(nums)[e] = e /\ e \in Takes(nums) /\ ~Taking(nums, e)
    BY <1>7 DEF TakeBase, TakeDone
<1> QED BY <1>7, <1>8

LEMMA FullFrom ==
    ASSUME NEW nums \in SUBSET Keys, NEW k \in nums, NEW y \in nums, k <= y,
           \A x \in (k + 1)..y : x \in nums, NEW r, Full(nums, y, r)
    PROVE  Full(nums, k, (y - k) + r)
<1>1. k \in Int /\ y \in Int /\ r \in Nat \ {0}
    BY WidthAssumption DEF Full, Keys, I32Min
<1>2. (\A x \in y..(y + r - 1) : x \in nums) /\ y + r \notin nums
    BY DEF Full
<1>3. k + ((y - k) + r) = y + r /\ (y - k) + r \in Nat \ {0}
    BY <1>1
<1>4. \A x \in k..(y + r - 1) : x = k \/ x \in (k + 1)..y \/ x \in y..(y + r - 1)
    BY <1>1
<1>5. \A x \in k..(y + r - 1) : x \in nums
    BY <1>2, <1>4
<1>6. k + ((y - k) + r) - 1 = y + r - 1
    BY <1>1
<1> QED BY <1>2, <1>3, <1>5, <1>6 DEF Full

\* A visit finds the whole run, or only the key when that was taken before
LEMMA TakeFinds ==
    ASSUME NEW nums \in SUBSET Keys, NEW V, NEW accessed, NEW num, Known(nums, V, accessed, num),
           NEW k \in nums, k \notin V,
           NEW e \in Takes(nums), ~Taking(nums, e), TakeKeeps(nums, V, accessed, num, k, e)
    PROVE  /\ k \notin accessed => Full(nums, k, e.run)
           /\ k \in accessed => e.run = 1
<1> DEFINE key == e.key
           run == e.run
<1>1. key \in Int /\ run \in Nat /\ k \in Int
    BY WidthAssumption DEF Takes, Keys, I32Min
<1>2. key \in nums => key \in e.accessed
    BY DEF Taking
<1>3. /\ key > k
      /\ \A x \in (k + 1)..(key - 1) : x \in nums /\ x \notin accessed
      /\ e.accessed = accessed \cup ((k + 1)..(key - 1))
      /\ \/ /\ run = key - k
            /\ \A x \in (k + 1)..(key - 1) : x \notin V
         \/ /\ key - 1 \in V /\ key - 1 > k
            /\ key - 1 \notin accessed
            /\ run = (key - 1 - k) + num[key - 1]
    BY DEF TakeKeeps
<1>4. /\ V \in SUBSET nums /\ accessed \in SUBSET nums /\ num \in [nums -> Nat]
      /\ \A x \in accessed : x - 1 \in V \cup accessed
      /\ \A x \in V \cup accessed : x + 1 \in nums => x + 1 \in accessed
      /\ \A x \in V \ accessed : Full(nums, x, num[x])
    BY DEF Known
<1> HIDE DEF key, run
<1>5. key \notin (k + 1)..(key - 1)
    BY <1>1
<1>6. key \in nums => key \in accessed
    BY <1>2, <1>3, <1>5
<1>7. ASSUME k \notin accessed PROVE Full(nums, k, run)
    <2>1. CASE run = key - k /\ \A x \in (k + 1)..(key - 1) : x \notin V
        <3>1. key \notin nums
            <4> SUFFICES ASSUME key \in accessed PROVE FALSE
                BY <1>6
            <4>1. key - 1 \in V \cup accessed
                BY <1>4
            <4>2. key - 1 = k \/ key - 1 \in (k + 1)..(key - 1)
                BY <1>1, <1>3
            <4> QED BY <1>3, <1>7, <2>1, <4>1, <4>2
        <3>2. run \in Nat \ {0} /\ k + run = key
            BY <1>1, <1>3, <2>1
        <3>3. \A x \in k..(k + run - 1) : x = k \/ x \in (k + 1)..(key - 1)
            BY <1>1, <3>2
        <3> QED BY <1>3, <3>1, <3>2, <3>3 DEF Full
    <2>2. CASE /\ key - 1 \in V /\ key - 1 > k
               /\ key - 1 \notin accessed
               /\ run = (key - 1 - k) + num[key - 1]
        <3> DEFINE y == key - 1
        <3>1. y \in V /\ y \notin accessed /\ y \in nums /\ k <= y /\ run = (y - k) + num[y]
            BY <1>1, <1>4, <2>2
        <3>2. \A x \in (k + 1)..y : x \in nums
            BY <1>3
        <3> HIDE DEF y
        <3>3. Full(nums, y, num[y])
            BY <1>4, <3>1
        <3>4. Full(nums, k, (y - k) + num[y])
            BY <3>1, <3>2, <3>3, FullFrom
        <3> QED BY <3>1, <3>4
    <2> QED BY <1>3, <2>1, <2>2
<1>8. ASSUME k \in accessed PROVE run = 1
    <2>1. k + 1 \in nums => k + 1 \in accessed
        BY <1>4, <1>8
    <2>2. key = k + 1
        <3> SUFFICES ASSUME key # k + 1 PROVE FALSE
            OBVIOUS
        <3>1. k + 1 \in (k + 1)..(key - 1)
            BY <1>1, <1>3
        <3> QED BY <1>3, <2>1, <3>1
    <2>3. key - 1 = k /\ key - k = 1
        BY <1>1, <2>2
    <2> QED BY <1>3, <2>3
<1> QED BY <1>7, <1>8 DEF run

-----------------------------------------------------------------------------

Maps(nums) == [num : [nums -> Nat], accessed : SUBSET nums, output : Nat]

MapStart(nums) == [num |-> [k \in nums |-> 1], accessed |-> {}, output |-> 0]

EndOf(nums, m, k) ==
    TakeLoop(nums)[[key |-> k + 1, run |-> 1, accessed |-> m.accessed, num |-> m.num]]

VisitedMap(nums, m, k) ==
    [num |-> [m.num EXCEPT ![k] = EndOf(nums, m, k).run],
     accessed |-> EndOf(nums, m, k).accessed,
     output |-> Max({m.output, EndOf(nums, m, k).run})]

Visits(nums) == [p \in Maps(nums) \X nums |-> VisitedMap(nums, p[1], p[2])]

LEMMA EndType ==
    ASSUME NEW nums \in SUBSET Keys, NEW m \in Maps(nums), NEW k \in nums
    PROVE  EndOf(nums, m, k) \in Takes(nums)
<1> DEFINE start == [key |-> k + 1, run |-> 1, accessed |-> m.accessed, num |-> m.num]
<1>1. start \in Takes(nums)
    <2>1. k \in Int /\ m.accessed \in SUBSET nums /\ m.num \in [nums -> Nat]
        BY WidthAssumption DEF Maps, Keys, I32Min
    <2> QED BY <2>1 DEF Takes
<1>2. Loops(TakeLoop(nums), Takes(nums), TakeDone(nums), TakeBase(nums), TakeNext(nums))
    BY TakeLoops
<1>3. IsLoop(Takes(nums), TakeDone(nums), TakeNext(nums), TakeLeft(nums))
    BY TakeIsLoop
<1> HIDE DEF start
<1>4. Kept(Takes(nums), Takes(nums), TakeDone(nums), TakeNext(nums))
    BY TakeIsLoop DEF Kept
<1>5. PICK e \in Takes(nums) \cap TakeDone(nums) : TakeLoop(nums)[start] = TakeBase(nums)[e]
    BY <1>1, <1>2, <1>3, <1>4, LoopEnds
<1>6. TakeLoop(nums)[start] \in Takes(nums)
    BY <1>5 DEF TakeBase
<1> QED BY <1>6 DEF EndOf, start

LEMMA VisitedMapIs ==
    ASSUME NEW nums \in SUBSET Keys, NEW m \in Maps(nums), NEW k \in nums
    PROVE  LET w == VisitedMap(nums, m, k)
               e == EndOf(nums, m, k)
           IN  /\ w \in Maps(nums) /\ w.accessed = e.accessed /\ e.run \in Nat
               /\ \A x \in nums : w.num[x] = IF x = k THEN e.run ELSE m.num[x]
               /\ w.output = IF m.output >= e.run THEN m.output ELSE e.run
<1> DEFINE w == VisitedMap(nums, m, k)
           e == EndOf(nums, m, k)
           g == [m.num EXCEPT ![k] = e.run]
           o == Max({m.output, e.run})
<1>1. e.run \in Nat /\ e.accessed \in SUBSET nums
    BY EndType DEF Takes
<1>2. w = [num |-> g, accessed |-> e.accessed, output |-> o]
    BY DEF VisitedMap
<1>3. m.num \in [nums -> Nat] /\ m.output \in Nat
    BY DEF Maps
<1> HIDE DEF e
<1>4. g \in [nums -> Nat] /\ \A x \in nums : g[x] = IF x = k THEN e.run ELSE m.num[x]
    BY <1>1, <1>3
<1>5. o \in Nat /\ o = IF m.output >= e.run THEN m.output ELSE e.run
    <2>1. m.output \in Int /\ e.run \in Int
        BY <1>1, <1>3
    <2> QED BY <1>1, <1>3, <2>1, MaxOfTwo
<1> HIDE DEF g, o, w
<1>6. w \in Maps(nums) /\ w.num = g /\ w.accessed = e.accessed /\ w.output = o
    BY <1>1, <1>2, <1>4, <1>5 DEF Maps
<1> QED BY <1>1, <1>4, <1>5, <1>6 DEF w, e

LEMMA VisitsType ==
    ASSUME NEW nums \in SUBSET Keys
    PROVE  Visits(nums) \in [Maps(nums) \X nums -> Maps(nums)]
<1>1. ASSUME NEW p \in Maps(nums) \X nums PROVE VisitedMap(nums, p[1], p[2]) \in Maps(nums)
    <2>1. p[1] \in Maps(nums) /\ p[2] \in nums
        OBVIOUS
    <2> QED BY <2>1, VisitedMapIs
<1> QED BY <1>1 DEF Visits

LEMMA InitialStates ==
    ASSUME NEW keys \in Seq(Keys), I32Max \notin ToSet(keys)
    PROVE  \E st : States(st, Maps(ToSet(keys)), Visits(ToSet(keys)), MapStart(ToSet(keys)), keys) /\ longest_consecutive_initial(keys) = st[Len(keys)].output
<1>0. keys \in Seq(ToSet(keys)) /\ DOMAIN keys = 1..Len(keys) /\ Len(keys) \in Nat
      /\ \A k \in 1..Len(keys) : keys[k] \in ToSet(keys)
    BY KeysOf
<1>1. Visits(ToSet(keys)) \in [Maps(ToSet(keys)) \X ToSet(keys) -> Maps(ToSet(keys))]
    BY KeysOf, VisitsType
<1>2. \A x \in Maps(ToSet(keys)), y \in ToSet(keys) : Visits(ToSet(keys))[<<x, y>>] = VisitedMap(ToSet(keys), x, y)
    BY DEF Visits
<1>3. MapStart(ToSet(keys)) \in Maps(ToSet(keys))
    BY DEF MapStart, Maps
<1> DEFINE Is(it) == it = [S \in SUBSET (DOMAIN keys) |->
                              IF S = {} THEN MapStart(ToSet(keys)) ELSE VisitedMap(ToSet(keys), it[S \ {Max(S)}], keys[Max(S)])]
           fold == CHOOSE it : Is(it)
<1>4. \E it : Is(it)
    <2>1. PICK it \in [SUBSET (1..Len(keys)) -> Maps(ToSet(keys))] : Folds(it, Maps(ToSet(keys)), Visits(ToSet(keys)), MapStart(ToSet(keys)), keys)
        BY <1>0, <1>1, <1>3, FoldExists, Zenon
    <2>2. ASSUME NEW S \in SUBSET (1..Len(keys)), S # {}
          PROVE  it[S] = VisitedMap(ToSet(keys), it[S \ {Max(S)}], keys[Max(S)])
        <3>1. Max(S) \in 1..Len(keys)
            BY <1>0, <2>2, LastPlace
        <3>2. it[S \ {Max(S)}] \in Maps(ToSet(keys)) /\ keys[Max(S)] \in ToSet(keys)
            BY <1>0, <3>1
        <3>3. it[S] = Visits(ToSet(keys))[<<it[S \ {Max(S)}], keys[Max(S)]>>]
            BY <2>1, <2>2, <3>2 DEF Folds
        <3> QED BY <1>2, <3>2, <3>3
    <2>3. Is(it)
        BY <1>0, <2>1, <2>2 DEF Folds
    <2> QED BY <2>3
<1>5. Is(fold)
    <2> HIDE DEF Is
    <2> QED BY <1>4
<1>6. longest_consecutive_initial(keys) = fold[1..Len(keys)].output
    <2>1. longest_consecutive_initial(keys) = fold[DOMAIN keys].output
        BY Zenon DEF longest_consecutive_initial, TakeLoop, IsTake, Takes, Taken, VisitedMap, EndOf, MapStart, FoldLeft, MapThenFoldSet
    <2> HIDE DEF fold
    <2> QED BY <1>0, <2>1
<1> HIDE DEF fold
<1>7. Folds(fold, Maps(ToSet(keys)), Visits(ToSet(keys)), MapStart(ToSet(keys)), keys)
    <2>1. fold[{}] = MapStart(ToSet(keys))
        BY <1>5
    <2>2. ASSUME NEW S \in SUBSET (1..Len(keys)), S # {}, fold[S \ {Max(S)}] \in Maps(ToSet(keys))
          PROVE  fold[S] = Visits(ToSet(keys))[<<fold[S \ {Max(S)}], keys[Max(S)]>>]
        <3>1. keys[Max(S)] \in ToSet(keys)
            BY <1>0, <2>2, LastPlace
        <3>2. fold[S] = VisitedMap(ToSet(keys), fold[S \ {Max(S)}], keys[Max(S)])
            BY <1>0, <1>5, <2>2
        <3> QED BY <1>2, <2>2, <3>1, <3>2
    <2> QED BY <2>1, <2>2 DEF Folds
<1>8. LastState(fold[1..Len(keys)], Maps(ToSet(keys)), Visits(ToSet(keys)), MapStart(ToSet(keys)), keys)
    BY <1>0, <1>1, <1>3, <1>7, FoldStates, Zenon
<1> QED BY <1>6, <1>8 DEF LastState

-----------------------------------------------------------------------------

Explored(nums, V, m) ==
    /\ m \in Maps(nums)
    /\ Known(nums, V, m.accessed, m.num)
    /\ \A x \in V \ m.accessed : m.num[x] <= m.output
    /\ m.output = 0 \/ \E a \in nums, b \in nums : Run(nums, a, b) /\ m.output = b - a + 1

LEMMA ExploredStep ==
    ASSUME NEW nums \in SUBSET Keys, NEW V, NEW m, Explored(nums, V, m), NEW k \in nums, k \notin V
    PROVE  Explored(nums, V \cup {k}, VisitedMap(nums, m, k))
<1> DEFINE w == VisitedMap(nums, m, k)
           e == EndOf(nums, m, k)
           acc == m.accessed
           num == m.num
           new == (k + 1)..(e.key - 1)
<1>1. m \in Maps(nums) /\ Known(nums, V, acc, num)
    BY DEF Explored
<1>2. e \in Takes(nums) /\ ~Taking(nums, e) /\ TakeKeeps(nums, V, acc, num, k, e)
    <2> HIDE DEF acc, num
    <2>1. LET x == TakeLoop(nums)[[key |-> k + 1, run |-> 1, accessed |-> acc, num |-> num]]
          IN  x \in Takes(nums) /\ ~Taking(nums, x) /\ TakeKeeps(nums, V, acc, num, k, x)
        BY <1>1, TakeIs
    <2> QED BY <2>1 DEF EndOf, acc, num
<1>3. /\ w \in Maps(nums) /\ w.accessed = e.accessed /\ e.run \in Nat
      /\ \A x \in nums : w.num[x] = IF x = k THEN e.run ELSE num[x]
      /\ w.output = IF m.output >= e.run THEN m.output ELSE e.run
    BY <1>1, VisitedMapIs
<1>4. /\ e.key > k /\ e.key \in Int /\ k \in Int
      /\ \A x \in new : x \in nums /\ x \notin acc
      /\ e.accessed = acc \cup new
      /\ e.key \in nums => e.key \in e.accessed
    BY <1>2, WidthAssumption DEF TakeKeeps, Taking, Takes, Keys, I32Min
<1>5. /\ k \notin acc => Full(nums, k, e.run)
      /\ k \in acc => e.run = 1
    <2> HIDE DEF acc, num, e
    <2> QED BY <1>1, <1>2, TakeFinds
<1>6. /\ V \in SUBSET nums /\ acc \in SUBSET nums /\ num \in [nums -> Nat]
      /\ \A x \in nums \ V : num[x] = 1
      /\ \A x \in acc : x - 1 \in V \cup acc
      /\ \A x \in V \cup acc : x + 1 \in nums => x + 1 \in acc
      /\ \A x \in V \ acc : Full(nums, x, num[x])
    BY <1>1 DEF Known
<1>7. m.output \in Nat /\ w.accessed \in SUBSET nums /\ w.num \in [nums -> Nat]
    BY <1>1, <1>3 DEF Maps
<1>8. /\ \A x \in V \ acc : num[x] <= m.output
      /\ m.output = 0 \/ \E a \in nums, b \in nums : Run(nums, a, b) /\ m.output = b - a + 1
    BY DEF Explored
<1>20. \A x \in new : x \in Int /\ k < x /\ x < e.key
    BY <1>4
<1>21. \A x \in Int : k < x /\ x < e.key => x \in new
    BY <1>4
<1> HIDE DEF e, acc, num, w, new
<1> DEFINE U == V \cup {k}
<1>9. \A x \in nums \ U : w.num[x] = 1
    BY <1>3, <1>6
<1>10. ASSUME NEW x \in w.accessed PROVE x - 1 \in U \cup w.accessed
    <2>1. CASE x \in acc
        BY <1>3, <1>4, <1>6, <2>1
    <2>2. CASE x \in new
        <3>1. x - 1 = k \/ x - 1 \in new
            BY <1>4, <1>20, <1>21, <2>2
        <3> QED BY <1>3, <1>4, <3>1
    <2> QED BY <1>3, <1>4, <2>1, <2>2
<1>11. ASSUME NEW x \in U \cup w.accessed, x + 1 \in nums PROVE x + 1 \in w.accessed
    <2>1. CASE x \in V \cup acc
        BY <1>3, <1>4, <1>6, <1>11, <2>1
    <2>2. CASE x = k \/ x \in new
        <3>1. x + 1 \in new \/ x + 1 = e.key
            BY <1>4, <1>20, <1>21, <2>2
        <3> QED BY <1>3, <1>4, <1>11, <3>1
    <2> QED BY <1>3, <1>4, <2>1, <2>2
<1>12. ASSUME NEW x \in U \ w.accessed PROVE Full(nums, x, w.num[x]) /\ w.num[x] <= w.output
    <2>0. \A y \in Nat : y <= m.output => y <= w.output
        BY <1>3, <1>7
    <2>1. CASE x = k
        <3>1. k \notin acc /\ w.num[k] = e.run
            BY <1>3, <1>4, <1>12, <2>1
        <3>2. e.run <= w.output
            BY <1>3, <1>7
        <3> QED BY <1>5, <2>1, <3>1, <3>2
    <2>2. CASE x # k
        <3>1. x \in V /\ x \in nums /\ x \notin acc /\ w.num[x] = num[x] /\ num[x] \in Nat
            BY <1>3, <1>4, <1>6, <1>12, <2>2
        <3>2. Full(nums, x, num[x]) /\ num[x] <= m.output
            BY <1>6, <1>8, <3>1
        <3> QED BY <2>0, <3>1, <3>2
    <2> QED BY <2>1, <2>2
<1>13. \E a \in nums, b \in nums : Run(nums, a, b) /\ e.run = b - a + 1
    <2>1. CASE k \in acc
        <3>1. Run(nums, k, k) /\ e.run = k - k + 1
            <4>1. \A x \in k..k : x = k
                BY <1>4
            <4> QED BY <1>4, <1>5, <2>1, <4>1 DEF Run
        <3> QED BY <3>1
    <2>2. CASE k \notin acc
        <3> DEFINE r == e.run
                   b == k + r - 1
        <3>1. r \in Nat \ {0} /\ \A y \in k..(k + r - 1) : y \in nums
            BY <1>5, <2>2 DEF Full
        <3> HIDE DEF r
        <3>2. k <= b /\ b \in k..(k + r - 1) /\ r = b - k + 1
            BY <1>4, <3>1
        <3>3. Run(nums, k, b) /\ b \in nums
            BY <3>1, <3>2 DEF Run
        <3> HIDE DEF b
        <3> QED BY <3>2, <3>3 DEF r
    <2> QED BY <2>1, <2>2
<1>14. w.output = 0 \/ \E a \in nums, b \in nums : Run(nums, a, b) /\ w.output = b - a + 1
    <2>1. w.output = m.output \/ w.output = e.run
        BY <1>3
    <2> QED BY <1>8, <1>13, <2>1
<1>15. Known(nums, U, w.accessed, w.num)
    BY <1>6, <1>7, <1>9, <1>10, <1>11, <1>12 DEF Known
<1> QED BY <1>3, <1>12, <1>14, <1>15 DEF Explored, w

\* longest_consecutive_initial (lc_128, the first way) returns the length of the
\* longest run of consecutive integers, for every order in which the hash map may
\* give the keys, as long as I32Max is not among them; where it is, a build that
\* checks for overflow panics.
THEOREM InitialIsLongest ==
    \A keys \in Seq(Keys) :
        (\A i, j \in 1..Len(keys) : keys[i] = keys[j] => i = j)
            => IF I32Max \in ToSet(keys)
               THEN longest_consecutive_initial(keys) = Panic
               ELSE IsLongestRun(keys, longest_consecutive_initial(keys))
<1> SUFFICES ASSUME NEW keys \in Seq(Keys), \A i, j \in 1..Len(keys) : keys[i] = keys[j] => i = j
             PROVE  IF I32Max \in ToSet(keys)
                    THEN longest_consecutive_initial(keys) = Panic
                    ELSE IsLongestRun(keys, longest_consecutive_initial(keys))
    OBVIOUS
<1> DEFINE nums == ToSet(keys)
           n == Len(keys)
<1>1. CASE I32Max \in nums
    BY <1>1, Zenon DEF longest_consecutive_initial
<1>2. CASE I32Max \notin nums
    <2>1. PICK st : /\ States(st, Maps(nums), Visits(nums), MapStart(nums), keys)
                    /\ longest_consecutive_initial(keys) = st[n].output
        BY <1>2, InitialStates
    <2>2. /\ n \in Nat /\ (\A k \in 1..n : keys[k] \in nums) /\ (\A x \in nums : \E k \in 1..n : keys[k] = x)
          /\ nums \in SUBSET Keys
        BY ToSetIs, KeysOf
    <2>3. /\ st[0] = MapStart(nums) /\ \A k \in 0..n : st[k] \in Maps(nums)
          /\ \A k \in 1..n : st[k] = Visits(nums)[<<st[k - 1], keys[k]>>]
        BY <2>1 DEF States
    <2> DEFINE V(k) == {keys[j] : j \in 1..k}
               P == {k \in 0..n : Explored(nums, V(k), st[k])}
    <2>4. Explored(nums, {}, MapStart(nums))
        <3> DEFINE m == MapStart(nums)
        <3>1. m.num = [k \in nums |-> 1] /\ m.accessed = {} /\ m.output = 0 /\ m \in Maps(nums)
            BY DEF MapStart, Maps
        <3>2. m.num \in [nums -> Nat] /\ \A x \in nums : m.num[x] = 1
            BY <3>1
        <3> HIDE DEF m, nums
        <3> QED BY <3>1, <3>2 DEF Explored, Known, m
    <2> HIDE DEF nums, n
    <2>5. 0 \in P
        <3>1. V(0) = {}
            OBVIOUS
        <3>2. st[0] = MapStart(nums)
            BY <2>3
        <3>3. Explored(nums, V(0), st[0])
            BY <2>4, <3>1, <3>2
        <3>4. 0 \in 0..n
            BY <2>2
        <3> QED BY <3>3, <3>4
    <2>6. ASSUME NEW k \in P, k < n PROVE k + 1 \in P
        <3>1. k \in Nat /\ k + 1 \in 1..n /\ k + 1 \in 0..n /\ (k + 1) - 1 = k /\ Explored(nums, V(k), st[k])
            BY <2>2, <2>6
        <3> DEFINE m == st[k]
                   key == keys[k + 1]
        <3>2. m \in Maps(nums) /\ key \in nums /\ st[k + 1] = Visits(nums)[<<m, key>>]
            BY <2>2, <2>3, <3>1
        <3>3. st[k + 1] = VisitedMap(nums, m, key)
            <4> HIDE DEF m, key
            <4> QED BY <3>2 DEF Visits
        <3>4. key \notin V(k)
            <4> SUFFICES ASSUME NEW j \in 1..k, keys[j] = key PROVE FALSE
                OBVIOUS
            <4>1. j \in 1..n /\ k + 1 \in 1..n /\ j # k + 1
                BY <2>2, <3>1
            <4> QED BY <4>1 DEF n
        <3>5. V(k + 1) = V(k) \cup {key}
            <4>1. \A j : j \in 1..(k + 1) <=> j \in 1..k \/ j = k + 1
                BY <3>1
            <4> QED BY <4>1
        <3> DEFINE seen == V(k)
        <3>6. Explored(nums, seen, m) /\ key \notin seen
            BY <3>1, <3>4
        <3> HIDE DEF m, key, seen, V
        <3>7. Explored(nums, seen \cup {key}, VisitedMap(nums, m, key))
            BY <2>2, <3>2, <3>6, ExploredStep
        <3>8. Explored(nums, V(k + 1), st[k + 1])
            BY <3>3, <3>5, <3>7 DEF seen
        <3> QED BY <3>1, <3>8
    <2>7. \A k \in 0..n : k \in P
        <3>1. P \in SUBSET (0..n)
            OBVIOUS
        <3> HIDE DEF P
        <3> QED BY <2>2, <2>5, <2>6, <3>1, InductionUpTo
    <2>8. V(n) = nums
        BY <2>2
    <2>9. Explored(nums, nums, st[n])
        <3>1. n \in P
            <4>1. n \in 0..n
                BY <2>2
            <4> HIDE DEF P
            <4> QED BY <2>7, <4>1
        <3>2. Explored(nums, V(n), st[n])
            BY <3>1
        <3> HIDE DEF V, P
        <3> QED BY <2>8, <3>2
    <2> DEFINE acc == st[n].accessed
               num == st[n].num
               x == st[n].output
    <2>10. /\ x \in Nat /\ num \in [nums -> Nat]
           /\ \A y \in acc : y - 1 \in nums \cup acc
           /\ acc \in SUBSET nums
           /\ \A y \in nums \ acc : Full(nums, y, num[y]) /\ num[y] <= x
           /\ x = 0 \/ \E a \in nums, b \in nums : Run(nums, a, b) /\ x = b - a + 1
        BY <2>9 DEF Explored, Known, Maps
    <2>11. longest_consecutive_initial(keys) = x
        BY <2>1
    <2> HIDE DEF acc, num, x
    <2>12. ASSUME NEW a \in nums, NEW b \in nums, Run(nums, a, b), a - 1 \notin nums PROVE b - a + 1 <= x
        <3>1. a \notin acc
            BY <2>10, <2>12
        <3> DEFINE r == num[a]
        <3>2. Full(nums, a, r) /\ r <= x
            BY <2>10, <3>1
        <3>3. a \in Int /\ b \in Int /\ a <= b /\ \A y \in a..b : y \in nums
            BY <2>2, <2>12, WidthAssumption DEF Run, Keys, I32Min
        <3>4. r \in Nat /\ a + r \notin nums
            BY <3>2 DEF Full
        <3> HIDE DEF r
        <3>5. a + r > b
            <4> SUFFICES ASSUME a + r <= b PROVE FALSE
                BY <3>3, <3>4
            <4>1. a + r \in a..b
                BY <3>3, <3>4
            <4> QED BY <3>3, <3>4, <4>1
        <3> QED BY <2>10, <3>2, <3>3, <3>4, <3>5
    <2>13. LongestRun(nums) = x
        BY <2>2, <2>10, <2>12, LongestRunIs
    <2> QED BY <1>2, <2>11, <2>13 DEF IsLongestRun, nums
<1> QED BY <1>1, <1>2

-----------------------------------------------------------------------------
(* lc_230: a node u is above the nodes lo[u] to hi[u], those before it to    *)
(* its left and those after it to its right                                  *)

Subtree(t, u, lo, hi) ==
    /\ lo[u] <= u /\ u <= hi[u]
    /\ t.left[u] = 0 => lo[u] = u
    /\ t.left[u] # 0 => lo[t.left[u]] = lo[u] /\ hi[t.left[u]] = u - 1
    /\ t.right[u] = 0 => hi[u] = u
    /\ t.right[u] # 0 => lo[t.right[u]] = u + 1 /\ hi[t.right[u]] = hi[u]

InOrder(t, n, lo, hi) ==
    /\ n \in Nat /\ Len(t.val) = n /\ t.val \in Seq(Int)
    /\ t.left \in [1..n -> 0..n] /\ t.right \in [1..n -> 0..n]
    /\ lo \in [1..n -> 1..n] /\ hi \in [1..n -> 1..n]
    /\ \A u \in 1..n : Subtree(t, u, lo, hi)
    /\ t.root = 0 => n = 0
    /\ t.root # 0 => t.root \in 1..n /\ lo[t.root] = 1 /\ hi[t.root] = n

Walks(n) == [root : 0..n, stack : Seq(1..n), k : Int]

Down(t, w) == [root |-> t.left[w.root], stack |-> Append(w.stack, w.root), k |-> w.k]

Over(t, w) == [root |-> t.right[Last(w.stack)], stack |-> Front(w.stack), k |-> w.k - 1]

WalkNext(t, n) == [w \in Walks(n) |-> IF w.root # 0 THEN Down(t, w)
                                      ELSE IF w.stack = <<>> THEN w ELSE Over(t, w)]

WalkDone(n) == {w \in Walks(n) : w.root = 0 /\ (w.stack = <<>> \/ w.k = 1)}

WalkBase(t, n) == [w \in Walks(n) |-> IF w.stack = <<>> THEN Panic ELSE t.val[Last(w.stack)]]

LEMMA FrontLast ==
    ASSUME NEW S, NEW s \in Seq(S), s # <<>>
    PROVE  /\ Last(s) \in S /\ Front(s) \in Seq(S) /\ Len(s) \in Nat \ {0}
           /\ Len(Front(s)) = Len(s) - 1 /\ Last(s) = s[Len(s)]
           /\ \A i \in 1..(Len(s) - 1) : Front(s)[i] = s[i]
<1>1. Len(s) \in Nat \ {0} /\ Len(s) \in 1..Len(s) /\ Last(s) = s[Len(s)]
    BY DEF Last
<1>2. Last(s) \in S
    BY <1>1
<1>3. Front(s) \in Seq(S) /\ Len(Front(s)) = Len(s) - 1
      /\ \A i \in 1..(Len(s) - 1) : Front(s)[i] = s[i]
    <2> DEFINE n == Len(s) - 1
    <2>1. Front(s) = SubSeq(s, 1, n)
        BY DEF Front
    <2>2. n \in 0..Len(s)
        BY <1>1
    <2> HIDE DEF n
    <2>3. /\ SubSeq(s, 1, n) \in Seq(S) /\ Len(SubSeq(s, 1, n)) = n
          /\ \A i \in 1..n : SubSeq(s, 1, n)[i] = s[i]
        BY <2>2
    <2> QED BY <2>1, <2>3 DEF n
<1> QED BY <1>1, <1>2, <1>3

WithLast(s, x) == Append(s, x)

LEMMA FrontOfAppend ==
    ASSUME NEW S, NEW s \in Seq(S), NEW x \in S
    PROVE  /\ WithLast(s, x) \in Seq(S) /\ WithLast(s, x) # <<>> /\ Last(WithLast(s, x)) = x
           /\ Front(WithLast(s, x)) = s
<1> DEFINE t == Append(s, x)
<1>1. t \in Seq(S) /\ Len(t) = Len(s) + 1 /\ t[Len(s) + 1] = x /\ Len(s) \in Nat
      /\ \A i \in 1..Len(s) : t[i] = s[i]
    OBVIOUS
<1>2. t # <<>>
    BY <1>1
<1> HIDE DEF t
<1>0. /\ Last(t) \in S /\ Front(t) \in Seq(S) /\ Len(t) \in Nat \ {0}
      /\ Len(Front(t)) = Len(t) - 1 /\ Last(t) = t[Len(t)]
      /\ \A i \in 1..(Len(t) - 1) : Front(t)[i] = t[i]
    BY <1>1, <1>2, FrontLast, Zenon
<1>3. /\ Last(t) = x /\ Front(t) \in Seq(S) /\ Len(Front(t)) = Len(s)
      /\ \A i \in 1..Len(s) : Front(t)[i] = s[i]
    <2>1. Len(t) - 1 = Len(s)
        BY <1>1
    <2> QED BY <1>0, <1>1, <2>1
<1>4. Front(t) = s
    <2> DEFINE r == Front(t)
    <2>1. r \in Seq(S) /\ Len(r) = Len(s) /\ \A i \in 1..Len(s) : r[i] = s[i]
        BY <1>3
    <2> HIDE DEF r
    <2>2. r = s
        BY <2>1
    <2> QED BY <2>2 DEF r
<1> QED BY <1>1, <1>2, <1>3, <1>4 DEF t, WithLast

\* The weights of the nodes on a stack
Weighs(W, n, c) ==
    /\ W \in [Seq(1..n) -> Nat]
    /\ \A s \in Seq(1..n) : W[s] = IF s = <<>> THEN 0 ELSE W[Front(s)] + c[Last(s)]

LEMMA WeightExists ==
    ASSUME NEW n \in Nat, NEW c \in [1..n -> Nat]
    PROVE  \E W : Weighs(W, n, c)
<1> DEFINE N == 1..n
           done == {<<>>}
           base == [s \in Seq(N) |-> 0]
           next == [s \in Seq(N) |-> IF s = <<>> THEN s ELSE Front(s)]
           H == [p \in Seq(N) \X Nat |-> IF p[1] = <<>> THEN p[2] ELSE p[2] + c[Last(p[1])]]
           m == [s \in Seq(N) |-> Len(s)]
<1>1. done \in SUBSET Seq(N) /\ base \in [Seq(N) -> Nat] /\ m \in [Seq(N) -> Nat]
    OBVIOUS
<1>2. next \in [Seq(N) -> Seq(N)] /\ \A s \in Seq(N) \ done : m[next[s]] < m[s]
    <2>1. ASSUME NEW s \in Seq(N), s # <<>>
          PROVE  Front(s) \in Seq(N) /\ Len(Front(s)) < Len(s)
        <3> HIDE DEF N
        <3>1. Front(s) \in Seq(N) /\ Len(s) \in Nat \ {0} /\ Len(Front(s)) = Len(s) - 1
            BY <2>1, FrontLast, Zenon
        <3> QED BY <3>1
    <2> QED BY <2>1
<1>3. H \in [Seq(N) \X Nat -> Nat]
    <2>1. ASSUME NEW s \in Seq(N), s # <<>>, NEW x \in Nat PROVE x + c[Last(s)] \in Nat
        <3>1. Last(s) \in N
            BY <2>1, FrontLast
        <3>2. c[Last(s)] \in Nat
            BY <3>1
        <3> HIDE DEF N
        <3> QED BY <3>2
    <2> QED BY <2>1
<1>4. \A s \in Seq(N), x \in Nat : s # <<>> => H[<<s, x>>] = x + c[Last(s)]
    OBVIOUS
<1>5. PICK W \in [Seq(N) -> Nat] : \A s \in Seq(N) : Solves(W, s, done, base, next, H)
    <2> HIDE DEF done, base, next, H, m, N
    <2> QED BY <1>1, <1>2, <1>3, RecursionExists
<1>6. ASSUME NEW s \in Seq(N)
      PROVE  W[s] = IF s = <<>> THEN 0 ELSE W[Front(s)] + c[Last(s)]
    <2>1. CASE s = <<>>
        BY <1>5, <2>1 DEF Solves
    <2>2. CASE s # <<>>
        <3>1. Front(s) \in Seq(N) /\ next[s] = Front(s) /\ base[s] = 0 /\ s \notin done
            BY <2>2, FrontLast
        <3>2. W[s] = H[<<s, W[next[s]]>>]
            BY <1>5, <3>1 DEF Solves
        <3>3. W[Front(s)] \in Nat
            BY <1>5, <3>1
        <3> QED BY <1>4, <2>2, <3>1, <3>2, <3>3
    <2> QED BY <2>1, <2>2
<1>7. Weighs(W, n, c)
    BY <1>5, <1>6 DEF Weighs
<1> QED BY <1>7

\* Twice what is under a node, and what is left to do when it is on the stack
Size(lo, hi, n) == [u \in 0..n |-> IF u = 0 THEN 0 ELSE 2 * (hi[u] - lo[u] + 1)]

Weight(hi, n) == [u \in 1..n |-> 2 * (hi[u] - u) + 1]

WalkLeft(W, n, lo, hi) == [w \in Walks(n) |-> W[w.stack] + Size(lo, hi, n)[w.root]]

LEMMA Weights ==
    ASSUME NEW t, NEW n, NEW lo, NEW hi, InOrder(t, n, lo, hi)
    PROVE  /\ n \in Nat /\ Size(lo, hi, n) \in [0..n -> Nat] /\ Weight(hi, n) \in [1..n -> Nat]
           /\ \A u \in 1..n :
                 /\ t.left[u] \in 0..n /\ t.right[u] \in 0..n
                 /\ Size(lo, hi, n)[t.left[u]] + Weight(hi, n)[u] < Size(lo, hi, n)[u]
                 /\ Size(lo, hi, n)[t.right[u]] < Weight(hi, n)[u]
<1>1. n \in Nat /\ lo \in [1..n -> 1..n] /\ hi \in [1..n -> 1..n]
      /\ t.left \in [1..n -> 0..n] /\ t.right \in [1..n -> 0..n]
      /\ \A u \in 1..n : Subtree(t, u, lo, hi)
    BY DEF InOrder
<1>2. ASSUME NEW u \in 1..n
      PROVE  lo[u] \in 1..n /\ hi[u] \in 1..n /\ lo[u] <= u /\ u <= hi[u]
    BY <1>1 DEF Subtree
<1>3. ASSUME NEW u \in 1..n
      PROVE  2 * (hi[u] - lo[u] + 1) \in Nat /\ 2 * (hi[u] - u) + 1 \in Nat
    <2> DEFINE a == lo[u]
               b == hi[u]
    <2>1. a \in Int /\ b \in Int /\ a <= b /\ u <= b /\ u \in Int
        BY <1>1, <1>2
    <2> HIDE DEF a, b
    <2>2. 2 * (b - a + 1) \in Nat /\ 2 * (b - u) + 1 \in Nat
        BY <2>1
    <2> QED BY <2>2 DEF a, b
<1>4. Size(lo, hi, n) \in [0..n -> Nat] /\ Weight(hi, n) \in [1..n -> Nat]
    <2>1. \A u \in 0..n : u = 0 \/ u \in 1..n
        BY <1>1
    <2>2. \A u \in 0..n : (IF u = 0 THEN 0 ELSE 2 * (hi[u] - lo[u] + 1)) \in Nat
        BY <1>3, <2>1
    <2>3. Size(lo, hi, n) \in [0..n -> Nat]
        BY <2>2, Zenon DEF Size
    <2>4. Weight(hi, n) \in [1..n -> Nat]
        BY <1>3, Zenon DEF Weight
    <2> QED BY <2>3, <2>4
<1>5. ASSUME NEW u \in 1..n
      PROVE  /\ t.left[u] \in 0..n /\ t.right[u] \in 0..n
             /\ Size(lo, hi, n)[t.left[u]] + Weight(hi, n)[u] < Size(lo, hi, n)[u]
             /\ Size(lo, hi, n)[t.right[u]] < Weight(hi, n)[u]
    <2> DEFINE l == t.left[u]
               r == t.right[u]
               a == lo[u]
               b == hi[u]
               x == Size(lo, hi, n)[l]
               y == Size(lo, hi, n)[r]
               z == Size(lo, hi, n)[u]
               v == Weight(hi, n)[u]
    <2>1. l \in 0..n /\ r \in 0..n /\ a \in Int /\ b \in Int /\ a <= u /\ u <= b /\ u \in Int
        BY <1>1, <1>2
    <2>2. z = 2 * (b - a + 1) /\ v = 2 * (b - u) + 1
        BY <1>1 DEF Size, Weight
    <2>3. x = IF l = 0 THEN 0 ELSE 2 * (hi[l] - lo[l] + 1)
        BY <1>1, <2>1 DEF Size
    <2>4. y = IF r = 0 THEN 0 ELSE 2 * (hi[r] - lo[r] + 1)
        BY <1>1, <2>1 DEF Size
    <2>5. l # 0 => lo[l] = a /\ hi[l] = u - 1
        BY <1>1 DEF Subtree
    <2>6. r # 0 => lo[r] = u + 1 /\ hi[r] = b
        BY <1>1 DEF Subtree
    <2>7. x = 0 \/ x = 2 * (u - 1 - a + 1)
        BY <2>3, <2>5
    <2>8. y = 0 \/ y = 2 * (b - (u + 1) + 1)
        BY <2>4, <2>6
    <2> HIDE DEF l, r, a, b, x, y, z, v
    <2>9. x + v < z /\ y < v
        BY <2>1, <2>2, <2>7, <2>8
    <2> QED BY <2>1, <2>9 DEF l, r, x, y, z, v
<1> QED BY <1>1, <1>4, <1>5

LEMMA DownOver ==
    ASSUME NEW t, NEW n, NEW lo, NEW hi, InOrder(t, n, lo, hi), NEW w \in Walks(n)
    PROVE  /\ w.root # 0 => /\ w.root \in 1..n /\ Down(t, w) \in Walks(n)
                            /\ WalkNext(t, n)[w] = Down(t, w)
           /\ w.root = 0 /\ w.stack # <<>> => /\ Last(w.stack) \in 1..n /\ Over(t, w) \in Walks(n)
                                              /\ WalkNext(t, n)[w] = Over(t, w)
<1>1. w.root \in 0..n /\ w.stack \in Seq(1..n) /\ w.k \in Int
    BY DEF Walks
<1>2. n \in Nat /\ \A u \in 1..n : t.left[u] \in 0..n /\ t.right[u] \in 0..n
    BY Weights
<1>3. CASE w.root # 0
    <2>1. w.root \in 1..n
        BY <1>1, <1>2, <1>3
    <2>2. t.left[w.root] \in 0..n
        BY <1>2, <2>1
    <2>3. Append(w.stack, w.root) \in Seq(1..n)
        BY <1>1, <2>1
    <2>4. Down(t, w) \in Walks(n)
        BY <1>1, <2>2, <2>3 DEF Down, Walks
    <2> QED BY <1>3, <2>1, <2>4 DEF WalkNext
<1>4. CASE w.root = 0 /\ w.stack # <<>>
    <2>1. Last(w.stack) \in 1..n /\ Front(w.stack) \in Seq(1..n)
        BY <1>1, <1>4, FrontLast, Zenon
    <2>2. t.right[Last(w.stack)] \in 0..n
        BY <1>2, <2>1
    <2>3. w.k - 1 \in Int
        BY <1>1
    <2>4. Over(t, w) \in Walks(n)
        BY <2>1, <2>2, <2>3 DEF Over, Walks
    <2> QED BY <1>4, <2>1, <2>4 DEF WalkNext
<1> QED BY <1>3, <1>4

LEMMA WalkIsLoop ==
    ASSUME NEW t, NEW n, NEW lo, NEW hi, InOrder(t, n, lo, hi), NEW W, Weighs(W, n, Weight(hi, n))
    PROVE  IsLoop(Walks(n), WalkDone(n), WalkNext(t, n), WalkLeft(W, n, lo, hi))
<1> DEFINE sz == Size(lo, hi, n)
           wt == Weight(hi, n)
           m == WalkLeft(W, n, lo, hi)
<1>1. /\ n \in Nat /\ sz \in [0..n -> Nat] /\ wt \in [1..n -> Nat]
      /\ \A u \in 1..n : /\ t.left[u] \in 0..n /\ t.right[u] \in 0..n
                         /\ sz[t.left[u]] + wt[u] < sz[u] /\ sz[t.right[u]] < wt[u]
    BY Weights
<1>2. /\ W \in [Seq(1..n) -> Nat]
      /\ \A s \in Seq(1..n) : s # <<>> => W[s] = W[Front(s)] + wt[Last(s)]
    BY DEF Weighs
<1>3. \A w \in Walks(n) : m[w] = W[w.stack] + sz[w.root]
    BY DEF WalkLeft
<1>4. ASSUME NEW w \in Walks(n) PROVE m[w] \in Nat /\ W[w.stack] \in Nat /\ sz[w.root] \in Nat
    <2> DEFINE a == W[w.stack]
               b == sz[w.root]
    <2>1. a \in Nat /\ b \in Nat
        BY <1>1, <1>2 DEF Walks
    <2>2. m[w] = a + b
        BY <1>3
    <2> HIDE DEF a, b, m
    <2> QED BY <2>1, <2>2 DEF a, b
<1>5. m \in [Walks(n) -> Nat]
    BY <1>4 DEF WalkLeft
<1>6. ASSUME NEW w \in Walks(n)
      PROVE  WalkNext(t, n)[w] \in Walks(n)
    <2>1. CASE w.root # 0
        BY <2>1, DownOver
    <2>2. CASE w.root = 0 /\ w.stack # <<>>
        BY <2>2, DownOver
    <2>3. CASE w.root = 0 /\ w.stack = <<>>
        BY <2>3 DEF WalkNext
    <2> QED BY <2>1, <2>2, <2>3
<1>7. WalkNext(t, n) \in [Walks(n) -> Walks(n)]
    BY <1>6 DEF WalkNext
<1>8. ASSUME NEW w \in Walks(n) \ WalkDone(n) PROVE m[WalkNext(t, n)[w]] < m[w]
    <2>0. w \in Walks(n) /\ w.stack \in Seq(1..n)
        BY DEF Walks
    <2>1. CASE w.root # 0
        <3> DEFINE u == w.root
                   d == Down(t, w)
        <3>1. u \in 1..n /\ d \in Walks(n) /\ WalkNext(t, n)[w] = d
            BY <2>1, DownOver
        <3>2. d.root = t.left[u] /\ d.stack = Append(w.stack, u)
            BY DEF Down
        <3>3. d.stack \in Seq(1..n) /\ d.stack # <<>> /\ Front(d.stack) = w.stack /\ Last(d.stack) = u
            <4>1. d.stack = WithLast(w.stack, u)
                BY <3>2 DEF WithLast
            <4> HIDE DEF u, d
            <4>2. w.stack \in Seq(1..n) /\ u \in 1..n
                BY <2>0, <3>1
            <4>3. /\ WithLast(w.stack, u) \in Seq(1..n) /\ WithLast(w.stack, u) # <<>>
                  /\ Last(WithLast(w.stack, u)) = u /\ Front(WithLast(w.stack, u)) = w.stack
                BY <4>2, FrontOfAppend, Zenon
            <4> QED BY <4>1, <4>3
        <3> DEFINE a == W[w.stack]
                   b == sz[u]
                   x == W[d.stack]
                   y == sz[d.root]
                   z == wt[u]
        <3>4. x = a + z
            BY <1>2, <3>3
        <3>5. y + z < b /\ a \in Nat /\ b \in Nat /\ y \in Nat /\ z \in Nat
            BY <1>1, <1>4, <3>1, <3>2
        <3>6. m[w] = a + b /\ m[d] = x + y
            BY <1>3, <3>1
        <3> HIDE DEF a, b, x, y, z, m, d
        <3>7. m[d] < m[w]
            BY <3>4, <3>5, <3>6
        <3> QED BY <3>1, <3>7
    <2>2. CASE w.root = 0
        <3> DEFINE u == Last(w.stack)
                   d == Over(t, w)
        <3>0. w.stack # <<>>
            BY <2>2 DEF WalkDone
        <3>1. u \in 1..n /\ d \in Walks(n) /\ WalkNext(t, n)[w] = d
            BY <2>2, <3>0, DownOver
        <3>2. d.root = t.right[u] /\ d.stack = Front(w.stack)
            BY DEF Over
        <3> DEFINE a == W[w.stack]
                   b == sz[w.root]
                   x == W[d.stack]
                   y == sz[d.root]
                   z == wt[u]
        <3>4. a = x + z
            BY <1>2, <2>0, <3>0, <3>2
        <3>5. y < z /\ a \in Nat /\ b \in Nat /\ y \in Nat /\ z \in Nat /\ x \in Nat
            BY <1>1, <1>4, <3>1, <3>2
        <3>6. m[w] = a + b /\ m[d] = x + y
            BY <1>3, <3>1
        <3> HIDE DEF a, b, x, y, z, m, d
        <3>7. m[d] < m[w]
            BY <3>4, <3>5, <3>6
        <3> QED BY <3>1, <3>7
    <2> QED BY <2>1, <2>2
<1> HIDE DEF m, sz, wt
<1>9. WalkDone(n) \in SUBSET Walks(n)
    BY DEF WalkDone
<1> QED BY <1>5, <1>7, <1>8, <1>9 DEF IsLoop, m

\* The definition of Walk
WalkStates(t) == [root : DOMAIN t.val \cup {0}, stack : Seq(DOMAIN t.val), k : Int]

IsWalk(f, t) ==
    f = [w \in WalkStates(t) |->
            IF w.root # 0 THEN f[IF w.root # 0 THEN Down(t, w) ELSE Over(t, w)]
            ELSE IF w.stack = <<>> THEN Panic
            ELSE IF w.k = 1 THEN t.val[Last(w.stack)]
            ELSE f[IF w.root # 0 THEN Down(t, w) ELSE Over(t, w)]]

LEMMA WalkIs ==
    ASSUME NEW t, NEW k0
    PROVE  kth_smallest(t, k0)
               = (CHOOSE f : IsWalk(f, t))[[root |-> t.root, stack |-> <<>>, k |-> k0]]
BY Zenon DEF kth_smallest, IsWalk, WalkStates, Down, Over

LEMMA WalkEquation ==
    ASSUME NEW t, NEW n, NEW lo, NEW hi, InOrder(t, n, lo, hi), NEW f
    PROVE  IsWalk(f, t) <=> /\ f = [w \in Walks(n) |-> f[w]]
                            /\ Loops(f, Walks(n), WalkDone(n), WalkBase(t, n), WalkNext(t, n))
<1>1. WalkStates(t) = Walks(n)
    <2>1. DOMAIN t.val = 1..n /\ n \in Nat
        BY DEF InOrder
    <2>2. DOMAIN t.val \cup {0} = 0..n
        BY <2>1
    <2> QED BY <2>1, <2>2 DEF WalkStates, Walks
<1> DEFINE G(w) == IF w.root # 0 THEN f[IF w.root # 0 THEN Down(t, w) ELSE Over(t, w)]
                   ELSE IF w.stack = <<>> THEN Panic
                   ELSE IF w.k = 1 THEN t.val[Last(w.stack)]
                   ELSE f[IF w.root # 0 THEN Down(t, w) ELSE Over(t, w)]
           D(w) == IF w \in WalkDone(n) THEN WalkBase(t, n)[w] ELSE f[WalkNext(t, n)[w]]
<1>2. ASSUME NEW w \in Walks(n) PROVE G(w) = D(w)
    <2>1. CASE w.root # 0
        <3>1. w \notin WalkDone(n) /\ WalkNext(t, n)[w] = Down(t, w)
            BY <2>1, DownOver DEF WalkDone
        <3> QED BY <2>1, <3>1
    <2>2. CASE w.root = 0 /\ w.stack = <<>>
        <3>1. w \in WalkDone(n) /\ WalkBase(t, n)[w] = Panic
            BY <2>2 DEF WalkDone, WalkBase
        <3> QED BY <2>2, <3>1
    <2>3. CASE w.root = 0 /\ w.stack # <<>> /\ w.k = 1
        <3>1. w \in WalkDone(n) /\ WalkBase(t, n)[w] = t.val[Last(w.stack)]
            BY <2>3 DEF WalkDone, WalkBase
        <3> QED BY <2>3, <3>1
    <2>4. CASE w.root = 0 /\ w.stack # <<>> /\ w.k # 1
        <3>1. w \notin WalkDone(n) /\ WalkNext(t, n)[w] = Over(t, w)
            BY <2>4, DownOver DEF WalkDone
        <3> QED BY <2>4, <3>1
    <2> QED BY <2>1, <2>2, <2>3, <2>4
<1>3. IsWalk(f, t) <=> f = [w \in Walks(n) |-> G(w)]
    BY <1>1 DEF IsWalk
<1> HIDE DEF G
<1>4. f = [w \in Walks(n) |-> G(w)] <=> f = [w \in Walks(n) |-> D(w)]
    BY <1>2
<1>5. f = [w \in Walks(n) |-> D(w)] <=> f = [w \in Walks(n) |-> f[w]] /\ \A w \in Walks(n) : f[w] = D(w)
    <2> HIDE DEF D
    <2> QED OBVIOUS
<1> QED BY <1>3, <1>4, <1>5 DEF Loops

-----------------------------------------------------------------------------
(* The nodes before the one that is next were counted, and the others are    *)
(* under the root or to the right of the stack                               *)

After(n, s, i) == IF i = 1 THEN n + 1 ELSE s[i - 1]

CountedTo(t, n, lo, hi, k0, w) ==
    /\ k0 - w.k \in 0..n
    /\ k0 \notin 1..(k0 - w.k)
    /\ \A i \in 1..Len(w.stack) : hi[w.stack[i]] + 1 = After(n, w.stack, i)
    /\ w.root # 0 => /\ lo[w.root] = k0 - w.k + 1
                     /\ hi[w.root] + 1 = After(n, w.stack, Len(w.stack) + 1)
    /\ w.root = 0 => After(n, w.stack, Len(w.stack) + 1) = k0 - w.k + 1

LEMMA DownCounts ==
    ASSUME NEW t, NEW n, NEW lo, NEW hi, InOrder(t, n, lo, hi), NEW k0 \in Int,
           NEW w \in Walks(n), w.root # 0, CountedTo(t, n, lo, hi, k0, w)
    PROVE  CountedTo(t, n, lo, hi, k0, Down(t, w))
<1> DEFINE s == w.stack
           r == w.root
           d == Down(t, w)
           l == t.left[r]
           c == k0 - w.k
           m == Len(s)
<1>0. s \in Seq(1..n) /\ r \in 0..n /\ n \in Nat /\ w.k \in Int
    BY DEF Walks, InOrder
<1>1. s \in Seq(1..n) /\ r \in 1..n /\ m \in Nat /\ n \in Nat /\ w.k \in Int
    BY <1>0
<1>2. d.root = l /\ d.stack = Append(s, r) /\ d.k = w.k
    BY DEF Down
<1>3. /\ c \in 0..n /\ k0 \notin 1..c /\ \A i \in 1..m : hi[s[i]] + 1 = After(n, s, i)
      /\ lo[r] = c + 1 /\ hi[r] + 1 = After(n, s, m + 1)
    BY DEF CountedTo
<1>4. Subtree(t, r, lo, hi) /\ l \in 0..n
    BY <1>1 DEF InOrder
<1> DEFINE e == d.stack
<1> HIDE DEF s, r, d, l, c, m
<1>5. /\ Len(e) = m + 1 /\ e[m + 1] = r /\ \A i \in 1..m : e[i] = s[i]
    BY <1>1, <1>2 DEF m
<1> HIDE DEF e
<1>6. \A i \in 1..(m + 1) : After(n, e, i) = After(n, s, i)
    BY <1>1, <1>5 DEF After
<1>7. ASSUME NEW i \in 1..(m + 1) PROVE hi[e[i]] + 1 = After(n, e, i)
    <2>1. i \in 1..m \/ i = m + 1
        BY <1>1
    <2>2. CASE i \in 1..m
        BY <1>3, <1>5, <1>6, <2>2
    <2>3. CASE i = m + 1
        BY <1>3, <1>5, <1>6, <2>3
    <2> QED BY <2>1, <2>2, <2>3
<1>8. After(n, e, m + 2) = r
    <2>1. (m + 2) - 1 = m + 1 /\ m + 2 # 1
        BY <1>1
    <2> QED BY <1>5, <2>1 DEF After
<1>9. (l = 0 => r = c + 1) /\ (l # 0 => lo[l] = c + 1 /\ hi[l] + 1 = r)
    <2>1. l = 0 => lo[r] = r
        BY <1>4 DEF Subtree, l
    <2>2. l # 0 => lo[l] = lo[r] /\ hi[l] = r - 1
        BY <1>4 DEF Subtree, l
    <2> QED BY <1>1, <1>3, <2>1, <2>2
<1>10. k0 - d.k = c /\ Len(d.stack) = m + 1 /\ (m + 1) + 1 = m + 2
    BY <1>1, <1>2, <1>5 DEF c, e
<1>11. CountedTo(t, n, lo, hi, k0, d)
    <2>1. d.stack = e /\ d.root = l
        BY <1>2 DEF e
    <2> QED BY <1>3, <1>7, <1>8, <1>9, <1>10, <2>1 DEF CountedTo
<1> QED BY <1>11 DEF d

LEMMA OverCounts ==
    ASSUME NEW t, NEW n, NEW lo, NEW hi, InOrder(t, n, lo, hi), NEW k0 \in Int,
           NEW w \in Walks(n), w.root = 0, w.stack # <<>>, w.k # 1, CountedTo(t, n, lo, hi, k0, w)
    PROVE  CountedTo(t, n, lo, hi, k0, Over(t, w))
<1> DEFINE s == w.stack
           u == Last(s)
           d == Over(t, w)
           r == t.right[u]
           c == k0 - w.k
           m == Len(s)
<1>0. s \in Seq(1..n) /\ s # <<>> /\ n \in Nat /\ w.k \in Int
    BY DEF Walks, InOrder
<1>1. s \in Seq(1..n) /\ u \in 1..n /\ m \in Nat \ {0} /\ n \in Nat /\ w.k \in Int
    <2>1. u \in 1..n /\ m \in Nat \ {0}
        BY <1>0, FrontLast, Zenon
    <2> QED BY <1>0, <2>1
<1>2. d.root = r /\ d.stack = Front(s) /\ d.k = w.k - 1
    BY DEF Over
<1>3. /\ c \in 0..n /\ k0 \notin 1..c /\ \A i \in 1..m : hi[s[i]] + 1 = After(n, s, i)
      /\ After(n, s, m + 1) = c + 1
    BY DEF CountedTo
<1>4. Subtree(t, u, lo, hi) /\ r \in 0..n
    BY <1>1 DEF InOrder
<1> DEFINE e == d.stack
<1>5. /\ Len(e) = m - 1 /\ u = s[m] /\ \A i \in 1..(m - 1) : e[i] = s[i]
    <2>1. /\ Len(Front(s)) = m - 1 /\ u = s[m]
          /\ \A i \in 1..(m - 1) : Front(s)[i] = s[i]
        BY <1>0, FrontLast, ZenonT(40)
    <2> HIDE DEF u, m, d
    <2> QED BY <1>2, <2>1
<1> HIDE DEF s, u, d, r, c, m, e
<1>6. \A i \in 1..m : After(n, e, i) = After(n, s, i)
    BY <1>1, <1>5 DEF After
<1>7. \A i \in 1..(m - 1) : hi[e[i]] + 1 = After(n, e, i)
    BY <1>1, <1>3, <1>5, <1>6, SMTT(30)
<1>8. u = c + 1
    <2>1. (m + 1) - 1 = m /\ m + 1 # 1
        BY <1>1
    <2> QED BY <1>3, <1>5, <2>1 DEF After
<1>9. After(n, e, m) = hi[u] + 1
    <2>1. m \in 1..m
        BY <1>1
    <2> QED BY <1>3, <1>5, <1>6, <2>1
<1>10. (r = 0 => After(n, e, m) = c + 2) /\ (r # 0 => lo[r] = c + 2 /\ hi[r] + 1 = After(n, e, m))
    <2>1. r = 0 => hi[u] = u
        BY <1>4 DEF Subtree, r
    <2>2. r # 0 => lo[r] = u + 1 /\ hi[r] = hi[u]
        BY <1>4 DEF Subtree, r
    <2> QED BY <1>3, <1>8, <1>9, <2>1, <2>2
<1>11. k0 - d.k = c + 1 /\ Len(d.stack) = m - 1 /\ (m - 1) + 1 = m /\ (c + 1) + 1 = c + 2
    BY <1>1, <1>2, <1>5, SMTT(30) DEF c, e
<1>12. c + 1 \in 0..n /\ k0 \notin 1..(c + 1)
    <2>1. k0 # c + 1
        BY <1>1 DEF c
    <2>2. c + 1 \in 0..n
        BY <1>1, <1>3, <1>8
    <2> QED BY <1>3, <2>1, <2>2
<1>13. CountedTo(t, n, lo, hi, k0, d)
    <2>1. d.stack = e /\ d.root = r
        BY <1>2 DEF e
    <2> QED BY <1>7, <1>10, <1>11, <1>12, <2>1 DEF CountedTo
<1> QED BY <1>13 DEF d

LEMMA WalkReturns ==
    ASSUME NEW t, NEW n, NEW lo, NEW hi, InOrder(t, n, lo, hi), NEW k0 \in Int
    PROVE  kth_smallest(t, k0) = IF k0 \in 1..n THEN t.val[k0] ELSE Panic
<1> DEFINE f == CHOOSE f : IsWalk(f, t)
           start == [root |-> t.root, stack |-> <<>>, k |-> k0]
           Q == {w \in Walks(n) : CountedTo(t, n, lo, hi, k0, w)}
<1>0. n \in Nat /\ t.val \in Seq(Int) /\ Len(t.val) = n /\ \A x \in 1..n : t.val[x] \in Int
    <2>1. n \in Nat /\ t.val \in Seq(Int) /\ Len(t.val) = n
        BY DEF InOrder
    <2> QED BY <2>1
<1>1. IsLoop(Walks(n), WalkDone(n), WalkNext(t, n), WalkLeft(CHOOSE W : Weighs(W, n, Weight(hi, n)), n, lo, hi))
    <2> DEFINE W == CHOOSE W : Weighs(W, n, Weight(hi, n))
    <2>1. n \in Nat /\ Weight(hi, n) \in [1..n -> Nat]
        BY Weights
    <2>2. \E V : Weighs(V, n, Weight(hi, n))
        BY <2>1, WeightExists
    <2>3. Weighs(W, n, Weight(hi, n))
        BY <2>2
    <2> HIDE DEF W
    <2>4. IsLoop(Walks(n), WalkDone(n), WalkNext(t, n), WalkLeft(W, n, lo, hi))
        BY <2>3, WalkIsLoop, Zenon
    <2> QED BY <2>4 DEF W
<1>2. WalkBase(t, n) \in [Walks(n) -> Int \cup {Panic}]
    <2>1. ASSUME NEW w \in Walks(n), w.stack # <<>> PROVE t.val[Last(w.stack)] \in Int
        <3>1. w.stack \in Seq(1..n)
            BY DEF Walks
        <3>2. Last(w.stack) \in 1..n
            BY <2>1, <3>1, FrontLast, Zenon
        <3> QED BY <1>0, <3>2
    <2> QED BY <2>1 DEF WalkBase
<1>3. Loops(f, Walks(n), WalkDone(n), WalkBase(t, n), WalkNext(t, n))
    <2> DEFINE m == WalkLeft(CHOOSE W : Weighs(W, n, Weight(hi, n)), n, lo, hi)
               next == WalkNext(t, n)
               base == WalkBase(t, n)
    <2>1. PICK g \in [Walks(n) -> Int \cup {Panic}] : Loops(g, Walks(n), WalkDone(n), base, next)
        <3>1. base \in [Walks(n) -> Int \cup {Panic}] /\ IsLoop(Walks(n), WalkDone(n), next, m)
            BY <1>1, <1>2
        <3> HIDE DEF base, next, m
        <3> QED BY <3>1, LoopExists
    <2>2. g = [w \in Walks(n) |-> g[w]]
        OBVIOUS
    <2>3. IsWalk(g, t)
        BY <2>1, <2>2, WalkEquation
    <2>4. IsWalk(f, t)
        BY <2>3
    <2> HIDE DEF f
    <2> QED BY <2>4, WalkEquation
<1>4. kth_smallest(t, k0) = f[start]
    BY WalkIs
<1> HIDE DEF f
<1>5. start \in Q
    <2>1. start \in Walks(n)
        BY DEF Walks, InOrder
    <2>2. /\ start.stack = <<>> /\ Len(start.stack) = 0 /\ start.root = t.root /\ start.k = k0
          /\ k0 - k0 = 0 /\ After(n, <<>>, 1) = n + 1 /\ 0 + 1 = 1
        BY <1>0 DEF After
    <2>3. (t.root = 0 => n = 0) /\ (t.root # 0 => lo[t.root] = 1 /\ hi[t.root] = n)
        BY DEF InOrder
    <2> HIDE DEF start
    <2>4. CountedTo(t, n, lo, hi, k0, start)
        BY <1>0, <2>2, <2>3 DEF CountedTo
    <2> QED BY <2>1, <2>4
<1>6. Kept(Q, Walks(n), WalkDone(n), WalkNext(t, n))
    <2>1. ASSUME NEW w \in Q \ WalkDone(n) PROVE WalkNext(t, n)[w] \in Q
        <3>1. w \in Walks(n) /\ CountedTo(t, n, lo, hi, k0, w)
            OBVIOUS
        <3>2. CASE w.root # 0
            BY <3>1, <3>2, DownOver, DownCounts
        <3>3. CASE w.root = 0
            <4>1. w.stack # <<>> /\ w.k # 1
                BY <3>1, <3>3 DEF WalkDone
            <4> QED BY <3>1, <3>3, <4>1, DownOver, OverCounts
        <3> QED BY <3>2, <3>3
    <2> QED BY <2>1 DEF Kept
<1>7. PICK e \in Q \cap WalkDone(n) : f[start] = WalkBase(t, n)[e]
    <2> DEFINE m == WalkLeft(CHOOSE W : Weighs(W, n, Weight(hi, n)), n, lo, hi)
               next == WalkNext(t, n)
               base == WalkBase(t, n)
    <2> HIDE DEF start, Q, m, next, base
    <2>1. IsLoop(Walks(n), WalkDone(n), next, m)
        BY <1>1 DEF next, m
    <2>2. Loops(f, Walks(n), WalkDone(n), base, next)
        BY <1>3 DEF base, next
    <2>3. Kept(Q, Walks(n), WalkDone(n), next)
        BY <1>6 DEF next
    <2>4. \E e \in Q \cap WalkDone(n) : f[start] = base[e]
        BY <1>5, <2>1, <2>2, <2>3, LoopEnds
    <2> QED BY <2>4 DEF base
<1>8. e \in Walks(n) /\ CountedTo(t, n, lo, hi, k0, e) /\ e.root = 0 /\ (e.stack = <<>> \/ e.k = 1)
      /\ e.stack \in Seq(1..n) /\ e.k \in Int
    <2>1. e \in Walks(n) /\ CountedTo(t, n, lo, hi, k0, e) /\ e.root = 0 /\ (e.stack = <<>> \/ e.k = 1)
        BY DEF WalkDone
    <2> QED BY <2>1 DEF Walks
<1> DEFINE c == k0 - e.k
           s == e.stack
           m == Len(s)
<1>9. c \in 0..n /\ k0 \notin 1..c /\ After(n, s, m + 1) = c + 1 /\ c = k0 - e.k
    BY <1>8 DEF CountedTo
<1>10. CASE s = <<>>
    <2>1. f[start] = Panic
        BY <1>7, <1>8, <1>10 DEF WalkBase
    <2>2. m = 0
        BY <1>10
    <2>3. m + 1 = 1
        BY <2>2
    <2>4. n + 1 = c + 1
        BY <1>9, <2>3 DEF After
    <2> HIDE DEF c
    <2>5. k0 \notin 1..n
        BY <1>0, <1>9, <2>4
    <2> QED BY <1>4, <2>1, <2>5
<1>11. CASE s # <<>>
    <2>1. f[start] = t.val[Last(s)] /\ e.k = 1
        BY <1>7, <1>8, <1>11 DEF WalkBase
    <2>2. Last(s) \in 1..n /\ m \in Nat \ {0} /\ Last(s) = s[m]
        BY <1>8, <1>11, FrontLast, Zenon
    <2> HIDE DEF s, m, c
    <2>3. After(n, s, m + 1) = s[m]
        <3>1. m + 1 # 1 /\ (m + 1) - 1 = m
            BY <2>2
        <3> QED BY <3>1 DEF After
    <2>4. Last(s) = k0
        BY <1>9, <2>1, <2>2, <2>3
    <2> QED BY <1>4, <2>1, <2>2, <2>4
<1> QED BY <1>10, <1>11

-----------------------------------------------------------------------------
(* What rises has as many values up to one as there are places up to it      *)

Increasing(val) == \A i, j \in DOMAIN val : i < j => val[i] < val[j]

LEMMA ValuesUpTo ==
    ASSUME NEW val \in Seq(Int), Increasing(val), NEW k \in 0..Len(val)
    PROVE  Cardinality({val[i] : i \in 1..k}) = k
<1> DEFINE V == {val[i] : i \in 1..k}
           f == [i \in 1..k |-> val[i]]
<1>1. Len(val) \in Nat /\ DOMAIN val = 1..Len(val) /\ k \in Nat /\ \A i \in 1..k : i \in DOMAIN val /\ val[i] \in Int
    OBVIOUS
<1>2. f \in [1..k -> V] /\ \A v \in V : \E i \in 1..k : f[i] = v
    OBVIOUS
<1>3. ASSUME NEW i \in 1..k, NEW j \in 1..k, f[i] = f[j] PROVE i = j
    <2> DEFINE x == val[i]
               y == val[j]
    <2>1. x = y /\ x \in Int /\ y \in Int /\ (i < j => x < y) /\ (j < i => y < x)
        BY <1>1, <1>3 DEF Increasing
    <2> HIDE DEF x, y
    <2> QED BY <1>1, <2>1
<1> HIDE DEF f, V
<1>4. f \in Bijection(1..k, V)
    BY <1>2, <1>3 DEF Bijection, Injection, Surjection, IsInjective
<1>5. ExistsBijection(1..k, V)
    BY <1>4 DEF ExistsBijection
<1>6. Cardinality(V) = k
    BY <1>1, <1>5, FS_CountingElements
<1> QED BY <1>6 DEF V

\* On every tree whose nodes are numbered in the order of their values, the
\* walk finds the value with k0 values up to it, or there is none.
LEMMA KthOfTree ==
    ASSUME NEW t, NEW n, NEW lo, NEW hi, InOrder(t, n, lo, hi), Increasing(t.val), NEW k0 \in Int
    PROVE  IsKthSmallest(<<t, k0>>, kth_smallest(t, k0))
<1> DEFINE val == t.val
           out == kth_smallest(t, k0)
           vals == ToSet(val)
<1>1. n \in Nat /\ val \in Seq(Int) /\ Len(val) = n /\ DOMAIN val = 1..n /\ Increasing(val)
      /\ \A i \in 1..n : val[i] \in Int
    <2>1. n \in Nat /\ val \in Seq(Int) /\ Len(val) = n
        BY DEF InOrder
    <2> HIDE DEF val
    <2>2. DOMAIN val = 1..n /\ \A i \in 1..n : val[i] \in Int
        BY <2>1
    <2> QED BY <2>1, <2>2 DEF val
<1>2. out = IF k0 \in 1..n THEN val[k0] ELSE Panic
    BY WalkReturns
<1> HIDE DEF val, out
<1>3. vals = {val[i] : i \in 1..n}
    BY <1>1 DEF ToSet
<1>4. Cardinality(vals) = n
    <2>1. n \in 0..Len(val)
        BY <1>1
    <2> QED BY <1>1, <1>3, <2>1, ValuesUpTo, Zenon
<1>5. ASSUME k0 \in 1..n
      PROVE  {v \in vals : v <= val[k0]} = {val[i] : i \in 1..k0}
    <2>1. ASSUME NEW i \in 1..n PROVE val[i] <= val[k0] <=> i \in 1..k0
        <3> DEFINE x == val[i]
                   y == val[k0]
        <3>1. x \in Int /\ y \in Int /\ (i < k0 => x < y) /\ (k0 < i => y < x) /\ (i = k0 => x = y)
            BY <1>1, <1>5 DEF Increasing
        <3>2. i \in Int /\ k0 \in Int /\ i >= 1
            BY <1>1
        <3> HIDE DEF x, y
        <3>3. x <= y <=> i <= k0
            BY <3>1, <3>2
        <3> QED BY <3>2, <3>3 DEF x, y
    <2>2. \A i \in 1..k0 : i \in 1..n
        BY <1>1, <1>5
    <2> QED BY <1>3, <2>1, <2>2
<1>6. k0 \in 1..n => out \in vals /\ Cardinality({v \in vals : v <= out}) = k0
    <2>1. ASSUME k0 \in 1..n PROVE Cardinality({val[i] : i \in 1..k0}) = k0
        <3>1. k0 \in 0..Len(val)
            BY <1>1, <2>1
        <3> QED BY <1>1, <3>1, ValuesUpTo, Zenon
    <2> QED BY <1>2, <1>3, <1>5, <2>1
<1> DEFINE in == <<t, k0>>
<1>7. in[1].val = val /\ in[2] = k0
    BY DEF val
<1> HIDE DEF in, vals
<1>8. IsKthSmallest(in, out)
    <2>1. IsKthSmallest(in, out) = IF k0 \notin 1..Cardinality(vals) THEN out = Panic
                                   ELSE out \in vals /\ Cardinality({v \in vals : v <= out}) = k0
        BY <1>7 DEF IsKthSmallest, vals
    <2> QED BY <1>2, <1>4, <1>6, <2>1
<1> QED BY <1>8 DEF in, out

-----------------------------------------------------------------------------
(* The search tree of p: the nodes under u are those around it that are not  *)
(* nearer to the root                                                        *)

Nearest(p, S) == IF S = {} THEN 0 ELSE CHOOSE u \in S : \A v \in S : p[u] <= p[v]

Reach(p, u, S) == {v \in S : \A w \in Min({u, v})..Max({u, v}) : p[u] <= p[w]}

Search(p, val) ==
    [root |-> Nearest(p, DOMAIN p),
     left |-> [u \in DOMAIN p |-> Nearest(p, Reach(p, u, 1..(u - 1)))],
     right |-> [u \in DOMAIN p |-> Nearest(p, Reach(p, u, (u + 1)..Len(p)))],
     val |-> val]

LEMMA SearchIs ==
    ASSUME NEW p, NEW val
    PROVE  SearchTree(p, val) = Search(p, val)
BY Zenon DEF SearchTree, Search, Nearest, Reach

\* The ends of what is under u
IsLow(p, u, a) ==
    /\ a \in 1..u
    /\ \A w \in a..u : p[u] <= p[w]
    /\ a = 1 \/ p[a - 1] < p[u]

IsHigh(p, u, b) ==
    /\ b \in u..Len(p)
    /\ \A w \in u..b : p[u] <= p[w]
    /\ b = Len(p) \/ p[b + 1] < p[u]

LEMMA LowExists ==
    ASSUME NEW p \in Seq(Nat), NEW u \in 1..Len(p)
    PROVE  \E a \in 1..Len(p) : IsLow(p, u, a)
<1> DEFINE n == Len(p)
           A == {a \in 1..u : \A w \in a..u : p[u] <= p[w]}
<1>1. n \in Nat /\ \A i \in 1..n : p[i] \in Nat
    OBVIOUS
<1>2. u \in A
    BY <1>1
<1> DEFINE a == Min(A)
<1>3. a \in A /\ \A y \in A : a <= y
    <2>1. A \in SUBSET (1..u)
        OBVIOUS
    <2>2. A \in SUBSET Int /\ A # {} /\ 1 \in Int /\ \A y \in A : 1 <= y
        <3> HIDE DEF A, n
        <3> QED BY <1>1, <1>2, <2>1
    <2> HIDE DEF A
    <2> QED BY <2>2, MinExists
<1> HIDE DEF a
<1>4. a = 1 \/ p[a - 1] < p[u]
    <2>1. SUFFICES ASSUME a # 1, ~(p[a - 1] < p[u]) PROVE FALSE
        OBVIOUS
    <2>2. a - 1 \in 1..u /\ a - 1 \in 1..n /\ a \in Int
        BY <1>1, <1>3, <2>1
    <2>3. p[u] <= p[a - 1]
        <3>1. p[u] \in Nat /\ p[a - 1] \in Nat
            BY <1>1, <2>2
        <3> QED BY <2>1, <3>1
    <2>4. \A w \in (a - 1)..u : w = a - 1 \/ w \in a..u
        BY <2>2
    <2>5. a - 1 \in A
        BY <1>3, <2>2, <2>3, <2>4
    <2>6. a <= a - 1
        BY <1>3, <2>5
    <2> QED BY <2>2, <2>6
<1>5. IsLow(p, u, a) /\ a \in 1..n
    BY <1>1, <1>3, <1>4 DEF IsLow
<1> QED BY <1>5

LEMMA HighExists ==
    ASSUME NEW p \in Seq(Nat), NEW u \in 1..Len(p)
    PROVE  \E b \in 1..Len(p) : IsHigh(p, u, b)
<1> DEFINE n == Len(p)
           B == {b \in u..n : \A w \in u..b : p[u] <= p[w]}
<1>1. n \in Nat /\ \A i \in 1..n : p[i] \in Nat
    OBVIOUS
<1>2. u \in B
    BY <1>1
<1> DEFINE b == Max(B)
<1>3. b \in B /\ \A y \in B : y <= b
    <2>1. B \in SUBSET Int /\ B # {} /\ n \in Int /\ \A y \in B : y <= n
        BY <1>1, <1>2
    <2> HIDE DEF B
    <2> QED BY <2>1, MaxExists
<1> HIDE DEF b
<1>4. b = n \/ p[b + 1] < p[u]
    <2>1. SUFFICES ASSUME b # n, ~(p[b + 1] < p[u]) PROVE FALSE
        OBVIOUS
    <2>2. b + 1 \in u..n /\ b + 1 \in 1..n /\ b \in Int
        BY <1>1, <1>3, <2>1
    <2>3. p[u] <= p[b + 1]
        <3>1. p[u] \in Nat /\ p[b + 1] \in Nat
            BY <1>1, <2>2
        <3> QED BY <2>1, <3>1
    <2>4. \A w \in u..(b + 1) : w = b + 1 \/ w \in u..b
        BY <2>2
    <2>5. b + 1 \in B
        BY <1>3, <2>2, <2>3, <2>4
    <2>6. b + 1 <= b
        BY <1>3, <2>5
    <2> QED BY <2>2, <2>6
<1>5. IsHigh(p, u, b) /\ b \in 1..n
    BY <1>1, <1>3, <1>4 DEF IsHigh
<1> QED BY <1>5

LEMMA LowUnique ==
    ASSUME NEW p \in Seq(Nat), NEW u \in 1..Len(p), NEW a, NEW b, IsLow(p, u, a), IsLow(p, u, b)
    PROVE  a = b
<1>1. \A i \in 1..u : p[i] \in Nat
    OBVIOUS
<1>2. a \in 1..u /\ b \in 1..u /\ u \in Int
    BY DEF IsLow
<1>3. ASSUME NEW x \in 1..u, NEW y \in 1..u, IsLow(p, u, x), IsLow(p, u, y), x < y PROVE FALSE
    <2>1. y - 1 \in x..u /\ y # 1 /\ y - 1 \in 1..u /\ u \in 1..u
        BY <1>2, <1>3
    <2>2. p[u] <= p[y - 1] /\ p[y - 1] < p[u]
        BY <1>3, <2>1 DEF IsLow
    <2>3. p[u] \in Nat /\ p[y - 1] \in Nat
        BY <1>1, <2>1
    <2> QED BY <2>2, <2>3
<1> QED BY <1>2, <1>3

LEMMA HighUnique ==
    ASSUME NEW p \in Seq(Nat), NEW u \in 1..Len(p), NEW a, NEW b, IsHigh(p, u, a), IsHigh(p, u, b)
    PROVE  a = b
<1> DEFINE n == Len(p)
<1>1. n \in Nat /\ \A i \in 1..n : p[i] \in Nat
    OBVIOUS
<1>2. a \in u..n /\ b \in u..n /\ u \in 1..n
    BY DEF IsHigh
<1>3. ASSUME NEW x \in u..n, NEW y \in u..n, IsHigh(p, u, x), IsHigh(p, u, y), x < y PROVE FALSE
    <2>1. x + 1 \in u..y /\ x # n /\ x + 1 \in 1..n
        BY <1>1, <1>2, <1>3
    <2>2. p[u] <= p[x + 1] /\ p[x + 1] < p[u]
        BY <1>3, <2>1 DEF IsHigh
    <2>3. p[u] \in Nat /\ p[x + 1] \in Nat
        BY <1>1, <2>1
    <2> QED BY <2>2, <2>3
<1> QED BY <1>1, <1>2, <1>3

LEMMA NearestIs ==
    ASSUME NEW p \in Seq(Nat), NEW S \in SUBSET (1..Len(p))
    PROVE  /\ S = {} => Nearest(p, S) = 0
           /\ S # {} => Nearest(p, S) \in S /\ \A v \in S : p[Nearest(p, S)] <= p[v]
<1>1. CASE S = {}
    BY <1>1 DEF Nearest
<1>2. CASE S # {}
    <2> DEFINE P == {p[v] : v \in S}
               b == Min(P)
    <2>0. \A v \in S : p[v] \in Nat
        OBVIOUS
    <2>1. P \in SUBSET Int /\ P # {} /\ 0 \in Int /\ \A y \in P : 0 <= y
        <3>1. \A y \in P : y \in Nat
            BY <2>0
        <3>2. P # {}
            BY <1>2
        <3> HIDE DEF P
        <3> QED BY <3>1, <3>2
    <2>2. b \in P /\ \A y \in P : b <= y
        <3> HIDE DEF P
        <3> QED BY <2>1, MinExists
    <2> HIDE DEF b
    <2>3. \E u \in S : \A v \in S : p[u] <= p[v]
        BY <2>2
    <2>4. Nearest(p, S) = CHOOSE u \in S : \A v \in S : p[u] <= p[v]
        BY <1>2 DEF Nearest
    <2> QED BY <1>2, <2>3, <2>4
<1> QED BY <1>1, <1>2

LEMMA ReachIs ==
    ASSUME NEW p \in Seq(Nat), NEW u \in 1..Len(p), NEW a, NEW b, IsLow(p, u, a), IsHigh(p, u, b)
    PROVE  /\ Reach(p, u, 1..(u - 1)) = a..(u - 1)
           /\ Reach(p, u, (u + 1)..Len(p)) = (u + 1)..b
<1> DEFINE n == Len(p)
<1>1. n \in Nat /\ u \in 1..n /\ \A i \in 1..n : p[i] \in Nat
    OBVIOUS
<1>2. /\ a \in 1..u /\ b \in u..n
      /\ \A w \in a..u : p[u] <= p[w]
      /\ \A w \in u..b : p[u] <= p[w]
      /\ a = 1 \/ p[a - 1] < p[u]
      /\ b = n \/ p[b + 1] < p[u]
    BY DEF IsLow, IsHigh
<1>3. ASSUME NEW v \in 1..(u - 1)
      PROVE  (\A w \in Min({u, v})..Max({u, v}) : p[u] <= p[w]) <=> v >= a
    <2>1. v < u /\ v \in Int /\ u \in Int
        BY <1>1
    <2>2. Min({u, v}) = v /\ Max({u, v}) = u
        <3>1. {u, v} \in SUBSET Int /\ u \in {u, v} /\ v \in {u, v}
              /\ (\A y \in {u, v} : v <= y) /\ (\A y \in {u, v} : u >= y)
            BY <2>1
        <3> QED BY <3>1, MinIs, MaxIs
    <2>3. ASSUME v >= a, NEW w \in v..u PROVE p[u] <= p[w]
        <3>1. w \in a..u
            BY <1>2, <2>1, <2>3
        <3> QED BY <1>2, <3>1
    <2>4. ASSUME v < a PROVE \E w \in v..u : ~(p[u] <= p[w])
        <3>1. a - 1 \in v..u /\ a # 1 /\ a - 1 \in 1..n
            BY <1>1, <1>2, <2>1, <2>4
        <3>2. p[a - 1] < p[u] /\ p[a - 1] \in Nat /\ p[u] \in Nat
            BY <1>1, <1>2, <3>1
        <3>3. ~(p[u] <= p[a - 1])
            BY <3>2
        <3> QED BY <3>1, <3>3
    <2>5. v >= a \/ v < a
        BY <1>2, <2>1
    <2> QED BY <2>2, <2>3, <2>4, <2>5
<1>4. ASSUME NEW v \in (u + 1)..n
      PROVE  (\A w \in Min({u, v})..Max({u, v}) : p[u] <= p[w]) <=> v <= b
    <2>1. u < v /\ v \in Int /\ u \in Int
        BY <1>1
    <2>2. Min({u, v}) = u /\ Max({u, v}) = v
        <3>1. {u, v} \in SUBSET Int /\ u \in {u, v} /\ v \in {u, v}
              /\ (\A y \in {u, v} : u <= y) /\ (\A y \in {u, v} : v >= y)
            BY <2>1
        <3> QED BY <3>1, MinIs, MaxIs
    <2>3. ASSUME v <= b, NEW w \in u..v PROVE p[u] <= p[w]
        <3>1. w \in u..b
            BY <1>2, <2>1, <2>3
        <3> QED BY <1>2, <3>1
    <2>4. ASSUME v > b PROVE \E w \in u..v : ~(p[u] <= p[w])
        <3>1. b + 1 \in u..v /\ b # n /\ b + 1 \in 1..n
            BY <1>1, <1>2, <2>1, <2>4
        <3>2. p[b + 1] < p[u] /\ p[b + 1] \in Nat /\ p[u] \in Nat
            BY <1>1, <1>2, <3>1
        <3>3. ~(p[u] <= p[b + 1])
            BY <3>2
        <3> QED BY <3>1, <3>3
    <2>5. v <= b \/ v > b
        BY <1>2, <2>1
    <2> QED BY <2>2, <2>3, <2>4, <2>5
<1>5. {v \in 1..(u - 1) : v >= a} = a..(u - 1)
    BY <1>1, <1>2
<1>6. {v \in (u + 1)..n : v <= b} = (u + 1)..b
    BY <1>1, <1>2
<1> QED BY <1>3, <1>4, <1>5, <1>6 DEF Reach

-----------------------------------------------------------------------------

Low(p) == [u \in 1..Len(p) |-> CHOOSE a \in 1..Len(p) : IsLow(p, u, a)]

High(p) == [u \in 1..Len(p) |-> CHOOSE b \in 1..Len(p) : IsHigh(p, u, b)]

\* What is left of a node and what is right of it is under the nearest of them
LEMMA SearchSubtree ==
    ASSUME NEW p \in Seq(Nat), IsInjective(p), NEW val,
           NEW u \in 1..Len(p)
    PROVE  /\ Search(p, val).left[u] \in 0..Len(p) /\ Search(p, val).right[u] \in 0..Len(p)
           /\ Subtree(Search(p, val), u, Low(p), High(p))
<1> DEFINE n == Len(p)
           a == Low(p)[u]
           b == High(p)[u]
           l == Nearest(p, a..(u - 1))
           r == Nearest(p, (u + 1)..b)
<1>1. n \in Nat /\ u \in 1..n
    OBVIOUS
<1>17. \A i \in 1..n : p[i] \in Nat
    OBVIOUS
<1>18. DOMAIN p = 1..n
    OBVIOUS
<1>2. ASSUME NEW x \in 1..n
      PROVE  /\ Low(p)[x] \in 1..n /\ High(p)[x] \in 1..n
             /\ IsLow(p, x, Low(p)[x]) /\ IsHigh(p, x, High(p)[x])
    <2>1. \E y \in 1..n : IsLow(p, x, y)
        BY LowExists
    <2>2. \E y \in 1..n : IsHigh(p, x, y)
        BY HighExists
    <2> QED BY <2>1, <2>2 DEF Low, High
<1>3. a \in 1..n /\ b \in 1..n /\ IsLow(p, u, a) /\ IsHigh(p, u, b)
    BY <1>2
<1> HIDE DEF a, b
<1>4. a \in 1..u /\ b \in u..n
    BY <1>3 DEF IsLow, IsHigh
<1>15. (\A w \in a..u : p[u] <= p[w]) /\ \A w \in u..b : p[u] <= p[w]
    BY <1>3 DEF IsLow, IsHigh
<1>16. (a = 1 \/ p[a - 1] < p[u]) /\ (b = n \/ p[b + 1] < p[u])
    BY <1>3 DEF IsLow, IsHigh
<1>5. Search(p, val).left[u] = l /\ Search(p, val).right[u] = r
    <2>1. Reach(p, u, 1..(u - 1)) = a..(u - 1) /\ Reach(p, u, (u + 1)..Len(p)) = (u + 1)..b
        BY <1>3, ReachIs
    <2> QED BY <1>1, <1>18, <2>1 DEF Search
<1>19. Len(p) = n
    OBVIOUS
<1>6. /\ a..(u - 1) = {} => l = 0
      /\ a..(u - 1) # {} => l \in a..(u - 1) /\ \A v \in a..(u - 1) : p[l] <= p[v]
    <2>1. a..(u - 1) \in SUBSET (1..Len(p))
        <3> HIDE DEF n
        <3>1. a..(u - 1) \in SUBSET (1..n)
            BY <1>1, <1>4
        <3> QED BY <1>19, <3>1
    <2> QED BY <2>1, NearestIs
<1>7. /\ (u + 1)..b = {} => r = 0
      /\ (u + 1)..b # {} => r \in (u + 1)..b /\ \A v \in (u + 1)..b : p[r] <= p[v]
    <2>1. (u + 1)..b \in SUBSET (1..Len(p))
        <3> HIDE DEF n
        <3>1. (u + 1)..b \in SUBSET (1..n)
            BY <1>1, <1>4
        <3> QED BY <1>19, <3>1
    <2> QED BY <2>1, NearestIs
<1> HIDE DEF l, r, n
<1>20. l = 0 \/ l \in a..(u - 1)
    BY <1>6
<1>21. r = 0 \/ r \in (u + 1)..b
    BY <1>7
<1>8. l \in 0..n /\ r \in 0..n
    BY <1>1, <1>4, <1>20, <1>21, SMTT(30)
<1>9. l = 0 => a = u
    <2>1. l = 0 => a..(u - 1) = {}
        <3>1. a..(u - 1) # {} => l \in a..(u - 1)
            BY <1>6
        <3>2. 0 \notin a..(u - 1)
            BY <1>1, <1>4
        <3> QED BY <3>1, <3>2
    <2>2. a < u => a \in a..(u - 1)
        BY <1>4
    <2> QED BY <1>4, <2>1, <2>2
<1>10. r = 0 => b = u
    <2>1. r = 0 => (u + 1)..b = {}
        <3>1. (u + 1)..b # {} => r \in (u + 1)..b
            BY <1>7
        <3>2. 0 \notin (u + 1)..b
            BY <1>1, <1>4
        <3> QED BY <3>1, <3>2
    <2>2. u < b => b \in (u + 1)..b
        BY <1>1, <1>4
    <2> QED BY <1>1, <1>4, <2>1, <2>2
<1>11. ASSUME l # 0 PROVE Low(p)[l] = a /\ High(p)[l] = u - 1
    <2>0. l \in a..(u - 1) /\ \A v \in a..(u - 1) : p[l] <= p[v]
        BY <1>6, <1>11
    <2>1. l \in a..(u - 1) /\ l \in 1..n
        BY <1>1, <1>4, <2>0
    <2>2. p[u] < p[l] /\ p[u] \in Nat /\ p[l] \in Nat
        <3>0. l \in a..u /\ u # l
            BY <1>1, <1>4, <2>1
        <3>1. p[u] <= p[l] /\ p[u] \in Nat /\ p[l] \in Nat
            BY <1>1, <1>15, <1>17, <2>1, <3>0
        <3>2. p[u] # p[l]
            BY <1>1, <1>18, <2>1, <3>0 DEF IsInjective
        <3> QED BY <3>1, <3>2
    <2>3. a \in 1..l /\ \A w \in a..l : p[l] <= p[w]
        <3>1. a \in 1..l /\ \A w \in a..l : w \in a..(u - 1)
            BY <1>1, <1>4, <2>1
        <3> QED BY <2>0, <3>1
    <2>4. a = 1 \/ p[a - 1] < p[l]
        <3>1. a # 1 => a - 1 \in 1..n
            BY <1>1, <1>4
        <3>2. a # 1 => p[a - 1] \in Nat /\ p[a - 1] < p[u]
            BY <1>16, <1>17, <3>1
        <3> QED BY <2>2, <3>2
    <2>5. IsLow(p, l, a)
        BY <2>3, <2>4 DEF IsLow
    <2>6. u - 1 \in l..n /\ (\A w \in l..(u - 1) : p[l] <= p[w]) /\ (u - 1) + 1 = u
        <3>1. u - 1 \in l..n /\ (u - 1) + 1 = u /\ \A w \in l..(u - 1) : w \in a..(u - 1)
            BY <1>1, <1>4, <2>1
        <3> QED BY <2>0, <3>1
    <2>7. IsHigh(p, l, u - 1)
        BY <1>19, <2>2, <2>6 DEF IsHigh
    <2>8. IsLow(p, l, Low(p)[l]) /\ IsHigh(p, l, High(p)[l])
        BY <1>2, <2>1
    <2> QED BY <2>1, <1>19, <2>5, <2>7, <2>8, LowUnique, HighUnique
<1>12. ASSUME r # 0 PROVE Low(p)[r] = u + 1 /\ High(p)[r] = b
    <2>0. r \in (u + 1)..b /\ \A v \in (u + 1)..b : p[r] <= p[v]
        BY <1>7, <1>12
    <2>1. r \in (u + 1)..b /\ r \in 1..n
        BY <1>1, <1>4, <2>0
    <2>2. p[u] < p[r] /\ p[u] \in Nat /\ p[r] \in Nat
        <3>0. r \in u..b /\ u # r
            BY <1>1, <1>4, <2>1
        <3>1. p[u] <= p[r] /\ p[u] \in Nat /\ p[r] \in Nat
            BY <1>1, <1>15, <1>17, <2>1, <3>0
        <3>2. p[u] # p[r]
            BY <1>1, <1>18, <2>1, <3>0 DEF IsInjective
        <3> QED BY <3>1, <3>2
    <2>3. b \in r..n /\ \A w \in r..b : p[r] <= p[w]
        <3>1. b \in r..n /\ \A w \in r..b : w \in (u + 1)..b
            BY <1>1, <1>4, <2>1
        <3> QED BY <2>0, <3>1
    <2>4. b = n \/ p[b + 1] < p[r]
        <3>1. b # n => b + 1 \in 1..n
            BY <1>1, <1>4
        <3>2. b # n => p[b + 1] \in Nat /\ p[b + 1] < p[u]
            BY <1>16, <1>17, <3>1
        <3> QED BY <2>2, <3>2
    <2>5. IsHigh(p, r, b)
        BY <1>19, <2>3, <2>4 DEF IsHigh
    <2>6. u + 1 \in 1..r /\ (\A w \in (u + 1)..r : p[r] <= p[w]) /\ (u + 1) - 1 = u
        <3>1. u + 1 \in 1..r /\ (u + 1) - 1 = u /\ \A w \in (u + 1)..r : w \in (u + 1)..b
            BY <1>1, <1>4, <2>1
        <3> QED BY <2>0, <3>1
    <2>7. IsLow(p, r, u + 1)
        BY <2>2, <2>6 DEF IsLow
    <2>8. IsLow(p, r, Low(p)[r]) /\ IsHigh(p, r, High(p)[r])
        BY <1>2, <2>1
    <2> QED BY <2>1, <1>19, <2>5, <2>7, <2>8, LowUnique, HighUnique
<1>13. a <= u /\ u <= b
    BY <1>1, <1>4
<1> QED BY <1>5, <1>8, <1>19, <1>9, <1>10, <1>11, <1>12, <1>13 DEF Subtree, a, b

\* Any search tree: p orders the nodes by how near they are to the root, and
\* the values rise from node to node.  The k-th value is the one that has k
\* values up to it; without such a value the code unwraps None.
THEOREM KthIsKthSmallest ==
    ASSUME NEW p \in Seq(Nat), IsInjective(p), NEW val \in Seq(Int), Len(val) = Len(p), Increasing(val),
           NEW k \in Int
    PROVE  IsKthSmallest(<<SearchTree(p, val), k>>, kth_smallest(SearchTree(p, val), k))
<1> DEFINE n == Len(p)
           t == Search(p, val)
<1>1. n \in Nat /\ DOMAIN p = 1..n /\ t.val = val
    BY DEF Search
<1>2. ASSUME NEW u \in 1..n
      PROVE  /\ t.left[u] \in 0..n /\ t.right[u] \in 0..n /\ Subtree(t, u, Low(p), High(p))
             /\ Low(p)[u] \in 1..n /\ High(p)[u] \in 1..n
             /\ IsLow(p, u, Low(p)[u]) /\ IsHigh(p, u, High(p)[u])
    <2>1. \E y \in 1..n : IsLow(p, u, y)
        BY LowExists
    <2>2. \E y \in 1..n : IsHigh(p, u, y)
        BY HighExists
    <2>3. t.left[u] \in 0..n /\ t.right[u] \in 0..n /\ Subtree(t, u, Low(p), High(p))
        BY SearchSubtree
    <2> HIDE DEF t
    <2> QED BY <2>1, <2>2, <2>3 DEF Low, High
<1>3. t.left \in [1..n -> 0..n] /\ t.right \in [1..n -> 0..n]
    <2>1. t.left = [u \in 1..n |-> t.left[u]] /\ t.right = [u \in 1..n |-> t.right[u]]
        BY <1>1 DEF Search
    <2> HIDE DEF t
    <2> QED BY <1>2, <2>1
<1>4. Low(p) \in [1..n -> 1..n] /\ High(p) \in [1..n -> 1..n]
    BY <1>2 DEF Low, High
<1>5. t.root = Nearest(p, 1..n)
    BY <1>1 DEF Search
<1>6. (1..n = {} => t.root = 0) /\ (1..n # {} => t.root \in 1..n /\ \A v \in 1..n : p[t.root] <= p[v])
    <2>1. 1..n \in SUBSET (1..Len(p))
        OBVIOUS
    <2> HIDE DEF t
    <2> QED BY <1>5, <2>1, NearestIs
<1> DEFINE r == t.root
<1>7. r = 0 => n = 0
    <2> HIDE DEF t, n
    <2>1. n # 0 => 1 \in 1..n
        BY <1>1
    <2>2. 0 \notin 1..n
        BY <1>1
    <2> QED BY <1>6, <2>1, <2>2
<1>8. ASSUME r # 0 PROVE r \in 1..n /\ Low(p)[r] = 1 /\ High(p)[r] = n
    <2>1. r \in 1..n /\ \A v \in 1..n : p[r] <= p[v]
        BY <1>6, <1>8
    <2>2. IsLow(p, r, Low(p)[r]) /\ IsHigh(p, r, High(p)[r])
        BY <1>2, <2>1
    <2> HIDE DEF r, t, n
    <2>3. 1 \in 1..r /\ n \in r..n /\ (\A w \in 1..r : w \in 1..n) /\ \A w \in r..n : w \in 1..n
        BY <1>1, <2>1
    <2>4. Len(p) = n
        BY DEF n
    <2>5. IsLow(p, r, 1)
        BY <2>1, <2>3 DEF IsLow
    <2>6. IsHigh(p, r, n)
        BY <2>1, <2>3, <2>4 DEF IsHigh
    <2> QED BY <2>1, <2>2, <2>4, <2>5, <2>6, LowUnique, HighUnique
<1> HIDE DEF t
<1>9. InOrder(t, n, Low(p), High(p))
    BY <1>1, <1>2, <1>3, <1>4, <1>7, <1>8 DEF InOrder
<1>10. IsKthSmallest(<<t, k>>, kth_smallest(t, k))
    BY <1>1, <1>9, KthOfTree
<1>11. SearchTree(p, val) = t
    BY SearchIs DEF t
<1> QED BY <1>10, <1>11

-----------------------------------------------------------------------------
(* A call that returns *)

LEMMA TwoNumbersRight ==
    ASSUME NEW c, Valid(c), c.fn = "add_two_numbers", NEW out \in Results(c)
    PROVE  Right(c, out)
<1>1. c.in \in Seq(0..9) \X Seq(0..9)
    BY DEF Valid
<1>2. out = add_two_numbers(c.in[1], c.in[2])
    BY DEF Results
<1> DEFINE x == c.in[1]
           y == c.in[2]
<1>3. x \in Seq(0..9) /\ y \in Seq(0..9) /\ c.in = <<x, y>>
    BY <1>1
<1> HIDE DEF x, y
<1>4. IsSum(<<x, y>>, add_two_numbers(x, y))
    BY <1>3, AddTwoNumbersIsSum
<1>5. IsSum(c.in, out)
    BY <1>2, <1>3, <1>4 DEF x, y
<1> QED BY <1>5 DEF Right

LEMMA SubstringRight ==
    ASSUME NEW c, Valid(c), Supported(c), c.fn = "length_of_longest_substring", NEW out \in Results(c)
    PROVE  Right(c, out)
<1>1. c.in \in Seq(Characters(STRING))
    BY DEF Valid, Characters
<1>2. out = length_of_longest_substring(c.in)
    BY DEF Results
<1>3. OfOneByte(c.in)
    BY DEF Supported
<1>4. IsLongest(c.in, out)
    BY <1>1, <1>2, <1>3, SubstringIsLongest
<1> QED BY <1>4 DEF Right

LEMMA NumbersRight ==
    ASSUME NEW c, Valid(c), NEW out \in Results(c),
           c.fn \in {"max_area", "first_missing_positive", "max_sub_array",
                     "first_missing_positive_simple_to_understand", "set_zeroes"}
    PROVE  Right(c, out)
<1>1. CASE c.fn = "max_area"
    <2>1. c.in \in Seq(Nat) /\ out = max_area(c.in)
        BY <1>1 DEF Valid, Results
    <2>2. IsLargest(c.in, out)
        BY <2>1, MaxAreaIsLargest
    <2> QED BY <1>1, <2>2 DEF Right
<1>2. CASE c.fn = "first_missing_positive"
    <2>1. c.in \in Seq(Int) /\ out = first_missing_positive(c.in)
        BY <1>2 DEF Valid, Results
    <2>2. IsFirstMissing(c.in, out)
        BY <2>1, FirstMissingIsFirst
    <2> QED BY <1>2, <2>2 DEF Right
<1>3. CASE c.fn = "first_missing_positive_simple_to_understand"
    <2>1. c.in \in Seq(Int) /\ out = first_missing_positive_simple_to_understand(c.in)
        BY <1>3 DEF Valid, Results
    <2>2. IsFirstMissing(c.in, out)
        BY <2>1, SimpleFirstMissingIsFirst
    <2> QED BY <1>3, <2>2 DEF Right
<1>4. CASE c.fn = "max_sub_array"
    <2>1. c.in \in Seq(Int) /\ out = max_sub_array(c.in)
        BY <1>4 DEF Valid, Results
    <2>2. IsLargestSum(c.in, out)
        BY <2>1, MaxSubArrayIsLargest
    <2> QED BY <1>4, <2>2 DEF Right
<1>5. CASE c.fn = "set_zeroes"
    <2>1. Matrix(c.in) /\ out = set_zeroes(c.in)
        BY <1>5 DEF Valid, Results, Matrix
    <2>2. IsZeroed(c.in, out)
        BY <2>1, SetZeroesIsZeroed
    <2> QED BY <1>5, <2>2 DEF Right
<1> QED BY <1>1, <1>2, <1>3, <1>4, <1>5

\* An order in which a hash map gives its keys
LEMMA OrdersAre ==
    ASSUME NEW in \in Seq(Keys), NEW keys \in Orders(in)
    PROVE  /\ keys \in Seq(Keys) /\ ToSet(keys) = ToSet(in)
           /\ \A i, j \in 1..Len(keys) : keys[i] = keys[j] => i = j
<1> DEFINE S == ToSet(in)
           n == Cardinality(S)
<1>1. S \in SUBSET Keys
    BY DEF ToSet
<1>2. IsFiniteSet(S)
    BY <1>1, KeysFinite
<1>3. n \in Nat
    BY <1>2, FS_CardinalityType
<1>4. keys \in [1..n -> S] /\ \A i, j \in 1..n : i # j => keys[i] # keys[j]
    BY DEF Orders, SetToSeqs
<1> HIDE DEF S, n
<1>5. keys \in Seq(S) /\ Len(keys) = n
    BY <1>3, <1>4
<1>6. keys \in Seq(Keys)
    BY <1>1, <1>5
<1>7. ToSet(keys) = S
    <2>1. ToSet(keys) \in SUBSET S
        BY <1>5 DEF ToSet
    <2>2. keys \in Bijection(1..n, ToSet(keys))
        BY <1>4, <1>5 DEF ToSet, Bijection, Injection, Surjection, IsInjective
    <2>3. Cardinality(ToSet(keys)) = n
        BY <1>3, <2>2, FS_CountingElements DEF ExistsBijection
    <2> QED BY <1>2, <2>1, <2>3, FS_Subset DEF n
<1> QED BY <1>4, <1>5, <1>6, <1>7 DEF S

LEMMA ConsecutiveRight ==
    ASSUME NEW c, Valid(c), Supported(c), NEW out \in Results(c),
           c.fn \in {"longest_consecutive_initial", "longest_consecutive"}
    PROVE  Right(c, out)
<1>1. c.in \in Seq(Keys)
    BY DEF Valid, Keys
<1>2. CASE c.fn = "longest_consecutive_initial"
    <2>1. PICK keys \in Orders(c.in) : out = longest_consecutive_initial(keys)
        BY <1>2 DEF Results
    <2>2. /\ keys \in Seq(Keys) /\ ToSet(keys) = ToSet(c.in)
          /\ \A i, j \in 1..Len(keys) : keys[i] = keys[j] => i = j
        BY <1>1, OrdersAre
    <2>3. I32Max \notin ToSet(keys)
        BY <1>2, <2>2 DEF Supported
    <2>4. IsLongestRun(keys, out)
        BY <2>1, <2>2, <2>3, InitialIsLongest
    <2>5. IsLongestRun(c.in, out)
        BY <2>2, <2>4 DEF IsLongestRun
    <2> QED BY <1>2, <2>5 DEF Right
<1>3. CASE c.fn = "longest_consecutive"
    <2>1. PICK keys \in Orders(c.in) : out = longest_consecutive(keys)
        BY <1>3 DEF Results
    <2>2. keys \in Seq(Keys) /\ ToSet(keys) = ToSet(c.in)
        BY <1>1, OrdersAre
    <2>3. I32Min \notin ToSet(keys) /\ I32Max \notin ToSet(keys)
        <3>1. {I32Min, I32Max} \cap ToSet(c.in) = {}
            BY <1>3 DEF Supported
        <3> QED BY <2>2, <3>1
    <2>4. IsLongestRun(keys, out)
        BY <2>1, <2>2, <2>3, LongestConsecutiveIsLongest
    <2>5. IsLongestRun(c.in, out)
        BY <2>2, <2>4 DEF IsLongestRun
    <2> QED BY <1>3, <2>5 DEF Right
<1> QED BY <1>2, <1>3

LEMMA KthRight ==
    ASSUME NEW c, Valid(c), c.fn = "kth_smallest", NEW out \in Results(c)
    PROVE  Right(c, out)
<1>1. PICK val \in {c.in[1].val}, k \in {c.in[2]} :
          /\ val \in Seq(Int) /\ k \in Int
          /\ \A i, j \in DOMAIN val : i < j => val[i] < val[j]
          /\ \E p \in [1..Len(val) -> 1..Len(val)] :
                IsInjective(p) /\ c.in = <<SearchTree(p, val), k>>
    BY DEF Valid
<1>2. PICK p \in [1..Len(val) -> 1..Len(val)] :
          IsInjective(p) /\ c.in = <<SearchTree(p, val), k>>
    BY <1>1
<1>3. Len(val) \in Nat /\ p \in Seq(Nat) /\ Len(p) = Len(val)
    <2> DEFINE n == Len(val)
    <2>1. n \in Nat /\ p \in [1..n -> 1..n]
        BY <1>1
    <2> HIDE DEF n
    <2>2. \A i \in 1..n : p[i] \in Nat
        BY <2>1
    <2>3. p = [i \in 1..n |-> p[i]]
        BY <2>1
    <2>4. p \in Seq(Nat) /\ Len(p) = n
        BY <2>1, <2>2, <2>3, FunctionIsSequence, Zenon
    <2> QED BY <2>1, <2>4 DEF n
<1>4. Increasing(val)
    BY <1>1 DEF Increasing
<1>5. out = kth_smallest(c.in[1], c.in[2])
    BY DEF Results
<1>6. c.in[1] = SearchTree(p, val) /\ c.in[2] = k
    BY <1>2
<1>7. IsKthSmallest(<<SearchTree(p, val), k>>, kth_smallest(SearchTree(p, val), k))
    BY <1>1, <1>2, <1>3, <1>4, KthIsKthSmallest
<1>8. IsKthSmallest(c.in, out)
    BY <1>2, <1>5, <1>6, <1>7
<1> QED BY <1>8 DEF Right

LEMMA PluginsRight ==
    ASSUME NEW c, Valid(c), NEW out \in Results(c), c.fn \in {"PluginHost", "NodeAdapter"}
    PROVE  Right(c, out)
<1>1. CASE c.fn = "PluginHost"
    <2>1. c.in \in Seq(HostUses(STRING, STRING, STRING)) /\ out = Host(c.in)
        BY <1>1 DEF Valid, Results, HostUses
    <2>2. IsDispatch(c.in, out)
        BY <2>1, HostDispatches
    <2> QED BY <1>1, <2>2 DEF Right
<1>2. CASE c.fn = "NodeAdapter"
    <2>1. c.in \in STRING \X Seq(NodeCalls(STRING)) /\ out = Launch(c.in[1], c.in[2])
        BY <1>2 DEF Valid, Results, NodeCalls
    <2>2. IsLaunch(c.in[1], c.in[2], out)
        BY <2>1, LaunchIsLaunch
    <2> QED BY <1>2, <2>2 DEF Right
<1> QED BY <1>1, <1>2

LEMMA LessonsRight ==
    ASSUME NEW c, Valid(c), NEW out \in Results(c),
           c.fn \in {"index", "Museum", "MyString", "MyVecIterator", "window_count", "wnext"}
    PROVE  Right(c, out)
<1>1. CASE c.fn = "index"
    <2>1. c.in \in Seq(Int) \X Int /\ out = index(c.in[1], c.in[2])
        BY <1>1 DEF Valid, Results
    <2>2. IsIndex(c.in[1], c.in[2], out)
        BY <2>1, IndexIsIndex
    <2> QED BY <1>1, <2>2 DEF Right
<1>2. CASE c.fn = "Museum"
    <2>1. c.in \in Nat \X Seq(MuseumCalls) /\ out = Museum(c.in[1], c.in[2])
        BY <1>2 DEF Valid, Results, MuseumCalls
    <2>2. IsMuseum(c.in[1], c.in[2], out)
        BY <2>1, MuseumIsMuseum
    <2> QED BY <1>2, <2>2 DEF Right
<1>3. CASE c.fn = "MyString"
    <2>1. c.in \in Seq(Int) /\ out = MyString(c.in)
        BY <1>3 DEF Valid, Results
    <2>2. IsMyString(c.in, out)
        BY <2>1, MyStringIsMyString
    <2> QED BY <1>3, <2>2 DEF Right
<1>4. CASE c.fn = "MyVecIterator"
    <2>1. c.in \in Seq(Int) \X Nat /\ out = MyVecIterator(c.in[1], c.in[2])
        BY <1>4 DEF Valid, Results
    <2>2. IsRound(c.in[1], c.in[2], out)
        BY <2>1, MyVecIteratorIsRound
    <2> QED BY <1>4, <2>2 DEF Right
<1>5. CASE c.fn = "window_count"
    <2>1. c.in \in Seq(Int) \X Nat \X Nat /\ out = window_count(c.in[1], c.in[2], c.in[3])
        BY <1>5 DEF Valid, Results
    <2>2. IsWindows(c.in[1], c.in[2], c.in[3], out)
        BY <2>1, WindowCountIsWindows
    <2> QED BY <1>5, <2>2 DEF Right
<1>6. CASE c.fn = "wnext"
    <2>1. c.in \in Seq(Int) \X Seq(Int) /\ out = wnext(c.in[1], c.in[2])
        BY <1>6 DEF Valid, Results
    <2>2. IsLent(c.in[1], c.in[2], out)
        BY <2>1, WnextIsLent
    <2> QED BY <1>6, <2>2 DEF Right
<1> QED BY <1>1, <1>2, <1>3, <1>4, <1>5, <1>6

LEMMA ResultsRight ==
    ASSUME NEW c, Valid(c), Supported(c), NEW out \in Results(c)
    PROVE  Right(c, out)
<1>1. \/ c.fn = "add_two_numbers"
      \/ c.fn = "length_of_longest_substring"
      \/ c.fn \in {"max_area", "first_missing_positive", "max_sub_array",
                   "first_missing_positive_simple_to_understand", "set_zeroes"}
      \/ c.fn \in {"longest_consecutive_initial", "longest_consecutive"}
      \/ c.fn = "kth_smallest"
      \/ c.fn \in {"PluginHost", "NodeAdapter"}
      \/ c.fn \in {"index", "Museum", "MyString", "MyVecIterator", "window_count", "wnext"}
    BY DEF Valid
<1> QED BY <1>1, TwoNumbersRight, SubstringRight, NumbersRight, ConsecutiveRight, KthRight,
           PluginsRight, LessonsRight

\* A call that has returned is right, if its input is one of those the promise is
\* kept for
CallInv ==
    /\ call = NoCall \/ Valid(call)
    /\ ret # <<>> => call # NoCall /\ (Supported(call) => Right(call, ret[1]))

\* Whatever is called returns what it is for: each function, on all that it can
\* be called with but what Supported splits off, and for every order in which a
\* hash map may give its keys.
THEOREM CallsCompute == AlgorithmsSpec => []Computed
<1>1. AlgorithmsInit => CallInv
    BY DEF AlgorithmsInit, CallInv
<1>2. CallInv /\ [AlgorithmsNext]_algorithmVars => CallInv'
    <2> SUFFICES ASSUME CallInv, [AlgorithmsNext]_algorithmVars PROVE CallInv'
        OBVIOUS
    <2>1. CASE Call
        BY <2>1, CallsAssumption DEF Call, CallInv
    <2>2. CASE CallEnds
        <3>1. PICK r \in Results(call) : ret' = <<r>>
            BY <2>2 DEF CallEnds
        <3>2. Valid(call) /\ call # NoCall /\ call' = call
            BY <2>2 DEF CallEnds, CallInv
        <3>3. Supported(call) => Right(call, r)
            BY <3>1, <3>2, ResultsRight
        <3>4. ret'[1] = r
            BY <3>1
        <3> QED BY <3>2, <3>3, <3>4 DEF CallInv
    <2>3. CASE CallEnded \/ UNCHANGED algorithmVars
        BY <2>3 DEF CallInv, CallEnded, algorithmVars
    <2> QED BY <2>1, <2>2, <2>3 DEF AlgorithmsNext
<1>3. CallInv => Computed
    BY DEF CallInv, Computed
<1> QED BY <1>1, <1>2, <1>3, PTL DEF AlgorithmsSpec
=============================================================================
