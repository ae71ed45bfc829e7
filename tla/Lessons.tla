------------------------------- MODULE Lessons -------------------------------
(***************************************************************************)
(* concepts: the lessons that compute something or keep a state of their   *)
(* own, one operator per use of the type they define, and below it what    *)
(* the type is for (Is...).  A use is the sequence of its calls.  Vectors  *)
(* are sequences, counted from 1; a panic is the result "panic".           *)
(***************************************************************************)
EXTENDS Integers, FiniteSets, SequencesExt

CONSTANT MAX_LEN  \* bytes a MiniString holds, 30 in the code

ASSUME MaxLenAssumption == MAX_LEN \in 0..255

-----------------------------------------------------------------------------
(* 05_raii_type_trait: List[index], from either end, round and round *)

\* % of Rust, whose result has the sign of the dividend
Rem(a, b) == IF a < 0 THEN -((-a) % b) ELSE a % b

index(list, i) ==
    LET len == Len(list)
    IN  IF len = 0 THEN "panic" ELSE list[Rem(len + Rem(i, len), len) + 1]

IsIndex(list, i, out) ==
    IF list = <<>> THEN out = "panic"
    ELSE \E k \in DOMAIN list : out = list[k] /\ (i - (k - 1)) % Len(list) = 0

\* it_works: 0 to 15
IndexTests ==
    LET list == [k \in 1..16 |-> k - 1]
    IN  {[in |-> <<list, i[1]>>, out |-> i[2]] :
            i \in {<<0, 0>>, <<5, 5>>, <<15, 15>>, <<16, 0>>, <<-1, 15>>, <<128, 0>>, <<-128, 0>>}}

\* Museum: aquire takes a permit if there is one, and the drop of a ticket
\* gives it back
Museum(total, calls) ==
    LET Do(m, c) ==
            IF c = "drop" THEN [m EXCEPT !.permits = @ + 1]
            ELSE IF m.permits = 0 THEN [m EXCEPT !.given = Append(@, "None")]
            ELSE [permits |-> m.permits - 1, given |-> Append(m.given, "Ticket")]
    IN  FoldLeft(Do, [permits |-> total, given |-> <<>>], calls)

Count(s, x) == Cardinality({k \in DOMAIN s : s[k] = x})

\* There are never more tickets about than the museum has, and one is refused
\* only when all of them are
IsMuseum(total, calls, out) ==
    LET aquired(n) == Count(SubSeq(calls, 1, n), "aquire")
        about(n) == Count(SubSeq(out.given, 1, aquired(n)), "Ticket")
                        - Count(SubSeq(calls, 1, n), "drop")
    IN  /\ Len(out.given) = aquired(Len(calls))
        /\ \A n \in 0..Len(calls) : about(n) <= total
        /\ \A n \in DOMAIN calls :
              calls[n] = "aquire" /\ about(n) = about(n - 1) => about(n) = total
        /\ out.permits = total - about(Len(calls))

\* it_works, without its assertions
MuseumTest == <<"aquire", "aquire", "aquire", "aquire", "aquire", "drop", "aquire", "drop">>

-----------------------------------------------------------------------------
(* 07_smart_pt: MyString holds a string in place when it is short enough *)

\* MiniString::new; the bytes behind the string are zero
MiniString(s) == [len |-> Len(s) % 256,
                  data |-> [k \in 1..MAX_LEN |-> IF k <= Len(s) THEN s[k] ELSE 0]]

MyString(s) == IF Len(s) <= MAX_LEN THEN [custom |-> MiniString(s)] ELSE [standard |-> s]

\* MyString::deref and MiniString::deref
deref(m) == IF "custom" \in DOMAIN m THEN SubSeq(m.custom.data, 1, m.custom.len) ELSE m.standard

\* The string is held where it fits, and reads the same wherever it is held
IsMyString(s, out) == deref(out) = s /\ (Len(s) <= MAX_LEN <=> "custom" \in DOMAIN out)

-----------------------------------------------------------------------------
(* 09_iter: MyVecIterator steps by two, round and round, and has no end;   *)
(* window_count groups what any iterator gives, Items, and has none either *)

MyVecIterator(vec, n) ==
    LET Step(it, k) == LET pt == (it.pt + 2) % Len(vec)
                       IN  [pt |-> pt, out |-> Append(it.out, vec[pt + 1])]
    IN  IF vec = <<>> /\ n > 0 THEN "panic"
        ELSE FoldLeft(Step, [pt |-> 0, out |-> <<>>], [k \in 1..n |-> k]).out

\* Every second number of the vector repeated, from the third on
IsRound(vec, n, out) ==
    IF vec = <<>> /\ n > 0 THEN out = "panic"
    ELSE LET repeated == FlattenSeq([k \in 1..(2 * n + 1) |-> vec])
         IN  out = [k \in 1..n |-> repeated[2 * k + 1]]

Prefix(s, n) == SubSeq(s, 1, Min({n, Len(s)}))

\* The first calls of next() on the windows of n of an iterator that gives s
window_count(s, n, calls) ==
    LET Group(w, k) == [rest |-> SubSeq(w.rest, n + 1, Len(w.rest)),
                        out |-> Append(w.out, Prefix(w.rest, n))]
    IN  FoldLeft(Group, [rest |-> s, out |-> <<>>], [k \in 1..calls |-> k]).out

\* Nothing is skipped or given twice; only when s is used up is a window short
IsWindows(s, n, calls, out) ==
    /\ Len(out) = calls
    /\ FlattenSeq(out) = Prefix(s, n * calls)
    /\ \A k \in 1..calls : Len(out[k]) = n \/ k * n > Len(s)

-----------------------------------------------------------------------------
(* 11_generic_trait: windows of two that overlap, lent one after the other *)

\* Each call of wnext() is followed by a write to the first of the two
wnext(buf, writes) ==
    LET Lend[w \in [lent : Seq(Int), pos : 0..Len(writes)]] ==
            IF w.pos = Len(writes) THEN w.lent
            ELSE IF w.pos + 2 > Len(w.lent) THEN "panic"
            ELSE Lend[[lent |-> [w.lent EXCEPT ![w.pos + 1] = writes[w.pos + 1]],
                       pos |-> w.pos + 1]]
    IN  Lend[[lent |-> buf, pos |-> 0]]

\* Every write is to a place of its own, in their order
IsLent(buf, writes, out) ==
    IF writes # <<>> /\ Len(writes) >= Len(buf) THEN out = "panic"
    ELSE out = writes \o SubSeq(buf, Len(writes) + 1, Len(buf))

\* test_gat_lifetime_generic
LentTest == [in |-> <<<<0, 1, 2, 3>>, <<1, 5>>>>, out |-> <<1, 5, 2, 3>>]
=============================================================================
