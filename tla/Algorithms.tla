------------------------------ MODULE Algorithms ------------------------------
(***************************************************************************)
(* AlgorithmTester and the algorithms it tests (AlgorithmTester/tests).     *)
(***************************************************************************)
EXTENDS Integers, Sequences, FiniteSets, Functions, SequencesExt

CONSTANTS
    MaxLength,             (* bounds of the instance: items of a vector,               *)
    MaxFactor,             (* factors and quantities of money,                          *)
    MaxN,                  (* arguments of the counting functions,                      *)
    MaxClocks,             (* clocks of one test,                                       *)
    Bits,                  (* bits of an item (32),                                     *)
    MAP_SIZE,              (* 8                                                         *)
    VECTOR_DEFAULT_SIZE,   (* 10                                                        *)
    ItemBytes,             (* sizeof(VectorItem): 4                                     *)
    coins                  (* 1, 2, 5, 10, 20, 50, 100, 200                             *)

VARIABLE algorithm         (* its name, input, output and whether it is done            *)

Items == 0 .. 2 ^ Bits - 1
Maximum(a, b) == IF a > b THEN a ELSE b

Begin(name, input, output) ==
    algorithm = [name |-> name, input |-> input, output |-> output, done |-> FALSE]
Is(name) == algorithm.name = name /\ ~algorithm.done
Return(output) == algorithm' = [algorithm EXCEPT !.output = output, !.done = TRUE]
-----------------------------------------------------------------------------
(* bubble-sort: the inner loop, of length - i - 1 exchanges, and the outer *)
RECURSIVE Bubbled(_, _, _)
Bubbled(s, j, n) ==
    IF j > n THEN s
    ELSE Bubbled(IF s[j] > s[j + 1] THEN [s EXCEPT ![j] = s[j + 1], ![j + 1] = s[j]] ELSE s, j + 1, n)
RECURSIVE BubbledFrom(_, _)
BubbledFrom(s, i) == IF i = Len(s) THEN s ELSE BubbledFrom(Bubbled(s, 1, Len(s) - i - 1), i + 1)
bubbleSort == Is("bubbleSort") /\ Return(BubbledFrom(algorithm.input, 0))
-----------------------------------------------------------------------------
(* radix/Vector.c.  size is counted in items, but Vector_extend makes the   *)
(* block of that many bytes: it becomes smaller.  written: up to which item  *)
(* the block is written, when it has fewer                                     *)
newVector == [values |-> <<>>, size |-> VECTOR_DEFAULT_SIZE,
              bytes |-> VECTOR_DEFAULT_SIZE * ItemBytes, outside |-> FALSE]
Vector_extend(v) == [v EXCEPT !.bytes = v.size * 2, !.size = v.size * 2]
RECURSIVE ExtendedTo(_, _)
ExtendedTo(v, needed) == IF v.size < needed THEN ExtendedTo(Vector_extend(v), needed) ELSE v
Written(v, length) == [v EXCEPT !.outside = @ \/ length * ItemBytes > v.bytes]
Vector_push(v, value) ==
    LET w == ExtendedTo(v, Len(v.values) + 1) IN
    Written([w EXCEPT !.values = Append(@, value)], Len(v.values) + 1)
RECURSIVE Pushed(_, _)
Pushed(v, s) == IF s = <<>> THEN v ELSE Pushed(Vector_push(v, Head(s)), Tail(s))

(* Vector_copyFrom: of all of src, which needs as many items as it has bytes *)
Vector_copyFrom(dest, src, fromIndex) ==
    LET d == ExtendedTo(dest, Len(src) * ItemBytes)
        length == Maximum(Len(dest.values), fromIndex + Len(src)) IN
    Written([d EXCEPT !.values = [i \in 1 .. length |->
                IF i \in fromIndex + 1 .. fromIndex + Len(src) THEN src[i - fromIndex] ELSE @[i]]],
            fromIndex + Len(src))

(* radix: the items are unsigned, so the last bit is not inverted.  The two *)
(* auxiliar vectors hold no more than the first                                *)
HasBit(val, bit) == (val \div 2 ^ bit) % 2 = 1
radixSort_bit(v, bit) ==
    LET vector0 == SelectSeq(v.values, LAMBDA val : ~HasBit(val, bit))
        vector1 == SelectSeq(v.values, LAMBDA val : HasBit(val, bit)) IN
    Vector_copyFrom(Vector_copyFrom(v, vector0, 0), vector1, Len(vector0))
RECURSIVE RadixFrom(_, _)
RadixFrom(v, bit) == IF bit = Bits THEN v ELSE RadixFrom(radixSort_bit(v, bit), bit + 1)
radixSort == Is("radixSort") /\ Return(RadixFrom(Pushed(newVector, algorithm.input), 0))
-----------------------------------------------------------------------------
(* multiplication_algorithms.c.  Integer division rounds to zero *)
Quotient(a, b) == IF a >= 0 THEN a \div b ELSE -((-a) \div b)
Remainder(a, b) == a - b * Quotient(a, b)

RECURSIVE russianMultiplication(_, _)
russianMultiplication(f, g) ==
    IF f = 0 THEN 0
    ELSE (IF Remainder(f, 2) # 0 THEN g ELSE 0) + russianMultiplication(Quotient(f, 2), g * 2)

RECURSIVE DIGITS(_)
DIGITS(num) == LET n == IF num < 0 THEN -num ELSE num IN IF n < 10 THEN 1 ELSE 1 + DIGITS(n \div 10)
RECURSIVE ClassicFrom(_, _, _)
ClassicFrom(f, g, digits) ==
    IF digits = 0 THEN 0
    ELSE 10 ^ (digits - 1) * f * Remainder(Quotient(g, 10 ^ (digits - 1)), 10)
         + ClassicFrom(f, g, digits - 1)
classicMultiplication(f, g) == IF f = 0 \/ g = 0 THEN 0 ELSE ClassicFrom(f, g, DIGITS(g))

(* The four products are added without their powers of ten *)
RECURSIVE divideMultiplication(_, _)
divideMultiplication(f, g) ==
    LET max_digits == Maximum(DIGITS(f), DIGITS(g))
        exp == 10 ^ (max_digits \div 2)
        a == Quotient(f, exp) b == Remainder(f, exp)
        c == Quotient(g, exp) d == Remainder(g, exp) IN
    IF max_digits < 2 THEN classicMultiplication(f, g)
    ELSE divideMultiplication(a, c) + divideMultiplication(a, d)
         + divideMultiplication(b, c) + divideMultiplication(b, d)

(* For a factor that is not negative: from another it would count down past *)
(* the least of the numbers                                                    *)
RECURSIVE iterativeMultiplication(_, _)
iterativeMultiplication(f, g) == IF g = 0 THEN 0 ELSE f + iterativeMultiplication(f, g - 1)

multiply ==
    LET f == algorithm.input[1] g == algorithm.input[2] IN
    /\ Is("multiply")
    /\ Return(<<russianMultiplication(f, g), classicMultiplication(f, g), divideMultiplication(f, g)>>
              \o IF g < 0 THEN <<>> ELSE <<iterativeMultiplication(f, g)>>)
-----------------------------------------------------------------------------
(* money: as many as fit of each coin, from the greatest *)
RECURSIVE ChangeFrom(_, _)
ChangeFrom(quantity, i) ==
    IF i = 0 THEN <<>>
    ELSE Append(ChangeFrom(quantity % coins[i], i - 1), quantity \div coins[i])
change == Is("change") /\ Return(ChangeFrom(algorithm.input, Len(coins)))
-----------------------------------------------------------------------------
(* horse: it moves to the first place that is free, and stops when none is *)
Jumps == <<<<3, 1>>, <<3, -1>>, <<-3, 1>>, <<-3, -1>>, <<1, 3>>, <<1, -3>>, <<-1, 3>>, <<-1, -3>>>>
Board == (0 .. MAP_SIZE - 1) \X (0 .. MAP_SIZE - 1)
Jump(p, i) == <<p[1] + Jumps[i][1], p[2] + Jumps[i][2]>>
valid_move(visited, p) == p \in Board /\ ~Contains(visited, p)
move ==
    LET visited == algorithm.output
        valid == {i \in DOMAIN Jumps : valid_move(visited, Jump(Last(visited), i))} IN
    /\ Is("horse")
    /\ IF valid = {} THEN Return(visited)
       ELSE LET i == CHOOSE i \in valid : \A j \in valid : i <= j IN
            algorithm' = [algorithm EXCEPT !.output = Append(visited, Jump(Last(visited), i))]
-----------------------------------------------------------------------------
(* bag: items as <<weight, value>>, sorted by value for their weight; the   *)
(* best first.  qsort may leave those of the same ratio in any order          *)
Bag_supports(bag, item) == bag.used_capacity + item[1] <= bag.capacity
Bag_addItem(bag, item) ==
    [bag EXCEPT !.used_capacity = @ + item[1], !.value = @ + item[2], !.items = Append(@, item)]
RECURSIVE Filled(_, _)
Filled(bag, items) ==
    IF items = <<>> THEN bag
    ELSE Filled(IF Bag_supports(bag, Last(items)) THEN Bag_addItem(bag, Last(items)) ELSE bag,
                Front(items))
sortItemsByValueRatio(s) == \A i, j \in DOMAIN s : i < j => s[i][2] * s[j][1] <= s[j][2] * s[i][1]
fill ==
    LET offered == algorithm.input.items IN
    /\ Is("bag")
    /\ \E p \in {p \in [DOMAIN offered -> DOMAIN offered] : IsInjective(p)} :
          LET sorted == [i \in DOMAIN offered |-> offered[p[i]]] IN
          /\ sortItemsByValueRatio(sorted)
          /\ Return(Filled([used_capacity |-> 0, value |-> 0, items |-> <<>>,
                            capacity |-> algorithm.input.capacity], sorted))
-----------------------------------------------------------------------------
(* various: how often the loops of A, C, G, H, I and J count *)
RECURSIVE Divided(_, _), Doubled(_, _), SumTo(_, _)
Divided(j, by) == IF j = 0 THEN 0 ELSE 1 + Divided(j \div by, by)
Doubled(j, i) == IF j > i THEN 0 ELSE 1 + Doubled(2 * j, i)
SumTo(turns, n) == IF n = 0 THEN 0 ELSE SumTo(turns, n - 1) + turns[n]
A(n) == 1 + Cardinality((1 .. n) \X (1 .. n))
C(n) == 1 + n * n ^ 2 * n ^ 3
G(n) == Divided(n, 2)
H(n) == Divided(n, 3)
Outer(n) == 1 .. Maximum(n, 1)
I(n) == SumTo([i \in Outer(n) |-> Doubled(1, i)], Maximum(n, 1))
J(n) == SumTo([i \in Outer(n) |-> Cardinality({j \in 1 .. i : j % 2 = 1})], Maximum(n, 1))
count == Is("count") /\ LET n == algorithm.input IN Return(<<A(n), C(n), G(n), H(n), I(n), J(n)>>)
-----------------------------------------------------------------------------
(* AlgorithmTester_test: an algorithm takes as many clocks as it will, none *)
(* if the clock has not moved; a missing argument is its default, 0           *)
test ==
    /\ Is("test")
    /\ LET benchmark == algorithm.output config == algorithm.input IN
       IF \/ benchmark.clocks_used < config.max_execution_time
          \/ benchmark.repetitions < config.min_repetitions
       THEN \E clocks \in 0 .. MaxClocks :
               algorithm' = [algorithm EXCEPT
                               !.output = [repetitions |-> IF @.repetitions > MaxN THEN @.repetitions
                                                           ELSE @.repetitions + 1,
                                           clocks_used |-> @.clocks_used + clocks, last |-> clocks]]
       ELSE Return(benchmark)

Init ==
    \/ \E s \in SeqOf(Items, MaxLength) : Begin("bubbleSort", s, <<>>) \/ Begin("radixSort", s, <<>>)
    \/ \E f, g \in -MaxFactor .. MaxFactor : Begin("multiply", <<f, g>>, <<>>)
    \/ \E quantity \in 0 .. MaxFactor : Begin("change", quantity, <<>>)
    \/ \E start \in Board : Begin("horse", start, <<start>>)
    \/ \E items \in SeqOf((1 .. 3) \X (0 .. 2), 3), capacity \in 0 .. 5 :
          Begin("bag", [items |-> items, capacity |-> capacity], <<>>)
    \/ \E n \in 0 .. MaxN : Begin("count", n, <<>>)
    \/ \E repetitions \in 0 .. MaxN, time \in 0 .. 3 :
          Begin("test", [min_repetitions |-> repetitions, max_execution_time |-> time],
                [repetitions |-> 0, clocks_used |-> 0, last |-> 0])

Next == bubbleSort \/ radixSort \/ multiply \/ change \/ move \/ fill \/ count \/ test

Spec == Init /\ [][Next]_algorithm
-----------------------------------------------------------------------------
Out == algorithm.output
Returns(name) == algorithm.name = name /\ algorithm.done
Times(x, s) == Cardinality({i \in DOMAIN s : s[i] = x})
Sorts(s, t) ==
    /\ \A i \in 1 .. Len(t) - 1 : t[i] <= t[i + 1]
    /\ \A x \in Items : Times(x, s) = Times(x, t)

(* The least number of coins *)
RECURSIVE LeastCoins(_)
LeastCoins(quantity) ==
    IF quantity = 0 THEN 0
    ELSE LET with == {LeastCoins(quantity - coins[i]) : i \in {i \in DOMAIN coins : coins[i] <= quantity}} IN
         1 + CHOOSE n \in with : \A m \in with : n <= m
Total(s) == SumTo(s, Len(s))

(***************************************************************************)
(* The sorts sort, the radix sort unless it writes outside its block: only  *)
(* with more items than the block Vector_extend leaves.  The products are right,  *)
(* the russian for a first factor that is not negative, that by division      *)
(* only in its remainder by 9 when it divides.  The change is the least        *)
(* number of coins.  The horse never leaves the colour where it began, and      *)
(* jumps.  What does not go in the bag does not fit in it.  A test ends as       *)
(* soon as both its limits are met, at once if they are none.                     *)
(***************************************************************************)
SortsSound ==
    /\ Returns("bubbleSort") => Sorts(algorithm.input, Out)
    /\ Returns("radixSort") =>
          /\ ~Out.outside => Sorts(algorithm.input, Out.values)
          /\ Out.outside => Len(Out.values) * ItemBytes > VECTOR_DEFAULT_SIZE * 2
ProductsSound ==
    Returns("multiply") =>
        LET f == algorithm.input[1] g == algorithm.input[2] IN
        /\ Out[1] = IF f >= 0 THEN f * g ELSE -f * g
        /\ Out[2] = f * g
        /\ (Out[3] - f * g) % 9 = 0
        /\ DIGITS(f) = 1 /\ DIGITS(g) = 1 => Out[3] = f * g
        /\ g >= 0 => Out[4] = f * g
ChangeSound ==
    Returns("change") =>
        /\ Total([i \in DOMAIN coins |-> Out[i] * coins[i]]) = algorithm.input
        /\ Total(Out) = LeastCoins(algorithm.input)
HorseSound ==
    algorithm.name = "horse" =>
        /\ IsInjective(Out)
        /\ \A i \in DOMAIN Out : (Out[i][1] + Out[i][2] - Out[1][1] - Out[1][2]) % 2 = 0
BagSound ==
    Returns("bag") =>
        /\ Out.used_capacity = Total([i \in DOMAIN Out.items |-> Out.items[i][1]])
        /\ Out.used_capacity <= Out.capacity
        /\ \A item \in Range(algorithm.input.items) :
              \/ Times(item, Out.items) = Times(item, algorithm.input.items)
              \/ Out.used_capacity + item[1] > Out.capacity
CountsSound ==
    Returns("count") =>
        LET n == algorithm.input IN
        /\ Out[1] = 1 + n ^ 2 /\ Out[2] = 1 + n ^ 6
        /\ n > 0 => 2 ^ (Out[3] - 1) <= n /\ n < 2 ^ Out[3] /\ 3 ^ (Out[4] - 1) <= n /\ n < 3 ^ Out[4]
        /\ Out[5] <= Maximum(n, 1) * Maximum(Out[3], 1) /\ Out[5] >= n
        /\ n > 0 => Out[6] = ((n + 1) \div 2) * (n \div 2 + 1)
TestsSound ==
    Returns("test") =>
        LET config == algorithm.input IN
        /\ Out.clocks_used >= config.max_execution_time /\ Out.repetitions >= config.min_repetitions
        /\ Out.repetitions > 0 => \/ Out.clocks_used - Out.last < config.max_execution_time
                                  \/ Out.repetitions = config.min_repetitions

Sound ==
    SortsSound /\ ProductsSound /\ ChangeSound /\ HorseSound /\ BagSound /\ CountsSound /\ TestsSound
=============================================================================
