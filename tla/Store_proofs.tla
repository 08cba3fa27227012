----------------------------- MODULE Store_proofs -----------------------------
(***************************************************************************)
(* Theorems about Store, for every set of refills and counts, any number   *)
(* of purchases, sales and faults.                                          *)
(***************************************************************************)
EXTENDS Store, SequenceTheorems, WellFoundedInduction, TLAPS

(* What is typed is a number, and no refill is imported with less than none *)
CountsAssumption == Counts \subseteq Int /\ Stocks \subseteq Nat
-----------------------------------------------------------------------------
(* Induction, over a set of numbers *)

LEMMA LeastOf ==
    ASSUME NEW S, S \subseteq Nat, S # {}
    PROVE  \E m \in S : \A k \in S : m <= k
<1>1. PICK m \in S : \A k \in S : <<k, m>> \notin OpToRel(<, Nat)
  BY NatLessThanWellFounded, WFMin
<1>2. \A k \in S : ~(k < m)
  BY <1>1 DEF OpToRel
<1> QED BY <1>2

LEMMA UpTo ==
    ASSUME NEW m \in Nat, NEW S, 0 \in S,
           \A n \in 0 .. m : n < m /\ n \in S => n + 1 \in S
    PROVE  \A n \in 0 .. m : n \in S
<1> SUFFICES ASSUME (0 .. m) \ S # {} PROVE FALSE
  OBVIOUS
<1>1. PICK n \in (0 .. m) \ S : \A k \in (0 .. m) \ S : n <= k
  <2> DEFINE T == (0 .. m) \ S
  <2>1. T \subseteq Nat /\ T # {} OBVIOUS
  <2> HIDE DEF T
  <2>2. \E n \in T : \A k \in T : n <= k BY <2>1, LeastOf
  <2> QED BY <2>2 DEF T
<1>2. n # 0 /\ n - 1 \in 0 .. m /\ n - 1 < m /\ (n - 1) + 1 = n /\ ~(n <= n - 1)
  BY <1>1
<1>3. n - 1 \in S BY <1>1, <1>2
<1> QED BY <1>1, <1>2, <1>3
-----------------------------------------------------------------------------
(* Total is the sum of its argument: f is the one of every beginning of it *)

IsSum(f, counts) ==
    /\ f \in [0 .. Len(counts) -> Int]
    /\ f[0] = 0
    /\ \A n \in 1 .. Len(counts) : f[n] = f[n - 1] + counts[n]

LEMMA SumExists ==
    ASSUME NEW counts \in Seq(Int)
    PROVE  \E f : IsSum(f, counts)
<1> DEFINE m == Len(counts)
           S == {k \in 0 .. m : \E f \in [0 .. k -> Int] :
                      f[0] = 0 /\ \A n \in 1 .. k : f[n] = f[n - 1] + counts[n]}
<1>1. m \in Nat /\ \A n \in 1 .. m : counts[n] \in Int
  BY LenProperties, ElementOfSeq
<1>2. 0 \in S
  <2>1. [n \in 0 .. 0 |-> 0] \in [0 .. 0 -> Int] /\ [n \in 0 .. 0 |-> 0][0] = 0
    OBVIOUS
  <2>2. \E f \in [0 .. 0 -> Int] : f[0] = 0 /\ \A n \in 1 .. 0 : f[n] = f[n - 1] + counts[n]
    <3> WITNESS [n \in 0 .. 0 |-> 0] \in [0 .. 0 -> Int]
    <3> QED BY <2>1
  <2> QED BY <1>1, <2>2
<1>3. ASSUME NEW k \in 0 .. m, k < m, k \in S PROVE k + 1 \in S
  <2>1. PICK f \in [0 .. k -> Int] : f[0] = 0 /\ \A n \in 1 .. k : f[n] = f[n - 1] + counts[n]
    BY <1>3
  <2> DEFINE g == [n \in 0 .. k + 1 |-> IF n <= k THEN f[n] ELSE f[k] + counts[k + 1]]
  <2>2. k + 1 \in 1 .. m /\ k \in 0 .. k /\ counts[k + 1] \in Int /\ f[k] \in Int
    BY <1>1, <1>3, <2>1
  <2>3. g \in [0 .. k + 1 -> Int] /\ g[0] = 0
    BY <2>1, <2>2
  <2>4. ASSUME NEW n \in 1 .. k + 1 PROVE g[n] = g[n - 1] + counts[n]
    <3>1. CASE n <= k BY <2>1, <3>1
    <3>2. CASE n = k + 1 BY <2>2, <3>2
    <3> QED BY <3>1, <3>2, <1>1, <1>3
  <2> HIDE DEF g
  <2>5. k + 1 \in 0 .. m BY <2>2
  <2> QED BY <2>3, <2>4, <2>5
<1>4. m \in S
  <2> HIDE DEF S, m
  <2>1. \A n \in 0 .. m : n \in S BY <1>1, <1>2, <1>3, UpTo
  <2> QED BY <1>1, <2>1
<1> QED BY <1>4 DEF IsSum

LEMMA TotalIs ==
    ASSUME NEW counts \in Seq(Int), NEW f, IsSum(f, counts)
    PROVE  Total(counts) = f[Len(counts)]
<1> DEFINE m == Len(counts)
           Sums(g) == g = [n \in 0 .. m |-> IF n = 0 THEN 0 ELSE g[n - 1] + counts[n]]
           sum == CHOOSE g : Sums(g)
<1>1. m \in Nat BY LenProperties
<1>2. Sums(f)
  <2>1. f = [n \in 0 .. m |-> f[n]] BY DEF IsSum
  <2>2. \A n \in 0 .. m : f[n] = IF n = 0 THEN 0 ELSE f[n - 1] + counts[n]
    BY <1>1 DEF IsSum
  <2> QED BY <2>1, <2>2
<1>3. Sums(sum)
  <2> HIDE DEF Sums
  <2> QED BY <1>2
<1>4. Total(counts) = sum[m] BY DEF Total
<1> HIDE DEF sum
<1>5. ASSUME NEW n \in 0 .. m PROVE sum[n] = IF n = 0 THEN 0 ELSE sum[n - 1] + counts[n]
  BY <1>3
<1> DEFINE S == {n \in 0 .. m : sum[n] = f[n]}
<1>6. 0 \in S BY <1>1, <1>5 DEF IsSum
<1>7. ASSUME NEW n \in 0 .. m, n < m, n \in S PROVE n + 1 \in S
  <2>1. n + 1 \in 1 .. m /\ n + 1 \in 0 .. m /\ (n + 1) - 1 = n /\ n + 1 # 0 BY <1>1, <1>7
  <2>2. sum[n + 1] = sum[n] + counts[n + 1] BY <1>5, <2>1
  <2>3. f[n + 1] = f[n] + counts[n + 1] BY <2>1 DEF IsSum
  <2> QED BY <1>7, <2>1, <2>2, <2>3
<1>8. m \in S
  <2> HIDE DEF S, m
  <2>1. \A n \in 0 .. m : n \in S BY <1>1, <1>6, <1>7, UpTo
  <2> QED BY <1>1, <2>1
<1> QED BY <1>4, <1>8

LEMMA TotalType ==
    ASSUME NEW counts \in Seq(Int) PROVE Total(counts) \in Int
<1>1. PICK f : IsSum(f, counts) BY SumExists
<1>2. Len(counts) \in 0 .. Len(counts) BY LenProperties
<1> QED BY <1>1, <1>2, TotalIs DEF IsSum

LEMMA TotalEmpty == Total(<<>>) = 0
<1>1. <<>> \in Seq(Int) /\ Len(<<>>) = 0 BY EmptySeq
<1>2. PICK f : IsSum(f, <<>>) BY <1>1, SumExists
<1> QED BY <1>1, <1>2, TotalIs DEF IsSum

LEMMA TotalAppend ==
    ASSUME NEW counts \in Seq(Int), NEW x \in Int
    PROVE  Total(Append(counts, x)) = Total(counts) + x
<1> DEFINE m == Len(counts)
           longer == Append(counts, x)
<1>1. /\ m \in Nat /\ longer \in Seq(Int) /\ Len(longer) = m + 1
      /\ longer[m + 1] = x /\ \A n \in 1 .. m : longer[n] = counts[n]
  BY LenProperties, AppendProperties
<1>2. PICK f : IsSum(f, counts) BY SumExists
<1> DEFINE g == [n \in 0 .. m + 1 |-> IF n <= m THEN f[n] ELSE f[m] + x]
<1>3. IsSum(g, longer)
  <2>1. f \in [0 .. m -> Int] /\ f[0] = 0 /\ \A n \in 1 .. m : f[n] = f[n - 1] + counts[n]
    BY <1>2 DEF IsSum
  <2>2. g \in [0 .. m + 1 -> Int] /\ g[0] = 0 BY <1>1, <2>1
  <2>3. ASSUME NEW n \in 1 .. m + 1 PROVE g[n] = g[n - 1] + longer[n]
    <3> HIDE DEF longer
    <3>1. CASE n <= m
      <4>1. n \in 1 .. m /\ n - 1 <= m /\ n - 1 \in 0 .. m + 1 /\ n \in 0 .. m + 1 BY <1>1, <3>1
      <4> QED BY <4>1, <3>1, <2>1, <1>1
    <3>2. CASE n = m + 1
      <4>1. n - 1 = m /\ m \in 0 .. m + 1 /\ n \in 0 .. m + 1 /\ ~(n <= m) BY <1>1, <3>2
      <4> QED BY <4>1, <3>2, <1>1
    <3> QED BY <3>1, <3>2, <1>1
  <2> HIDE DEF g, longer
  <2> QED BY <1>1, <2>2, <2>3 DEF IsSum
<1>4. Total(longer) = g[m + 1]
  <2> HIDE DEF g, longer
  <2> QED BY <1>1, <1>3, TotalIs
<1>5. g[m + 1] = f[m] + x BY <1>1
<1>6. Total(counts) = f[m] BY <1>2, TotalIs
<1> QED BY <1>4, <1>5, <1>6

LEMMA TotalExcept ==
    ASSUME NEW counts \in Seq(Int), NEW i \in 1 .. Len(counts), NEW x \in Int
    PROVE  Total([counts EXCEPT ![i] = x]) = Total(counts) - counts[i] + x
<1> DEFINE m == Len(counts)
           other == [counts EXCEPT ![i] = x]
<1>1. /\ m \in Nat /\ other \in Seq(Int) /\ Len(other) = m /\ other[i] = x
      /\ \A n \in 1 .. m : n # i => other[n] = counts[n]
      /\ counts[i] \in Int
  BY LenProperties, ExceptSeq, ElementOfSeq
<1>2. PICK f : IsSum(f, counts) BY SumExists
<1> DEFINE g == [n \in 0 .. m |-> IF n < i THEN f[n] ELSE f[n] - counts[i] + x]
<1>3. IsSum(g, other)
  <2>1. f \in [0 .. m -> Int] /\ f[0] = 0 /\ \A n \in 1 .. m : f[n] = f[n - 1] + counts[n]
    BY <1>2 DEF IsSum
  <2>2. g \in [0 .. m -> Int] /\ g[0] = 0 BY <1>1, <2>1
  <2>3. ASSUME NEW n \in 1 .. m PROVE g[n] = g[n - 1] + other[n]
    <3> HIDE DEF other
    <3>1. /\ n - 1 \in 0 .. m /\ n \in 0 .. m /\ f[n] = f[n - 1] + counts[n]
          /\ f[n - 1] \in Int /\ f[n] \in Int
      <4>1. n - 1 \in 0 .. m /\ n \in 0 .. m BY <1>1
      <4> QED BY <2>1, <4>1
    <3>2. CASE n < i BY <1>1, <3>1, <3>2
    <3>3. CASE n = i BY <1>1, <3>1, <3>3
    <3>4. CASE n > i
      <4>1. ~(n < i) /\ ~(n - 1 < i) /\ n # i BY <3>4
      <4>2. g[n] = f[n] - counts[i] + x /\ g[n - 1] = f[n - 1] - counts[i] + x
        BY <3>1, <4>1
      <4>3. other[n] = counts[n] BY <1>1, <4>1
      <4>4. counts[n] \in Int BY ElementOfSeq
      <4> HIDE DEF g
      <4>5. f[n] - counts[i] + x = f[n - 1] - counts[i] + x + counts[n]
        <5>1. counts[i] \in Int BY <1>1
        <5> QED BY <3>1, <4>4, <5>1
      <4> QED BY <4>2, <4>3, <4>5
    <3> QED BY <3>2, <3>3, <3>4, <1>1
  <2> HIDE DEF g, other
  <2> QED BY <1>1, <2>2, <2>3 DEF IsSum
<1>4. Total(other) = g[m]
  <2> HIDE DEF g, other
  <2> QED BY <1>1, <1>3, TotalIs
<1>5. g[m] = f[m] - counts[i] + x BY <1>1
<1>6. Total(counts) = f[m] BY <1>2, TotalIs
<1> QED BY <1>4, <1>5, <1>6

(* What RemoveAt of SequencesExt makes of a sequence *)
LEMMA Removed ==
    ASSUME NEW S, NEW all \in Seq(S), NEW i \in 1 .. Len(all)
    PROVE  /\ RemoveAt(all, i) \in Seq(S)
           /\ Len(RemoveAt(all, i)) = Len(all) - 1
           /\ \A n \in 1 .. Len(all) - 1 :
                 RemoveAt(all, i)[n] = IF n < i THEN all[n] ELSE all[n + 1]
<1> DEFINE m == Len(all)
           left == SubSeq(all, 1, i - 1)
           right == SubSeq(all, i + 1, m)
<1>1. m \in Nat /\ \A n \in 1 .. m : all[n] \in S BY LenProperties, ElementOfSeq
<1>2. /\ left \in Seq(S) /\ Len(left) = i - 1 /\ \A n \in 1 .. i - 1 : left[n] = all[n]
  <2>1. \A n \in 1 .. i - 1 : all[n] \in S BY <1>1
  <2>2. i - 1 \in 1 - 1 .. m /\ 1 \in 1 .. m + 1 BY <1>1
  <2>3. /\ left \in Seq(S) /\ Len(left) = IF 1 <= i - 1 THEN i - 1 - 1 + 1 ELSE 0
        /\ \A n \in 1 .. i - 1 - 1 + 1 : left[n] = all[1 + n - 1]
    BY <2>1, <2>2, SubSeqProperties
  <2> HIDE DEF left
  <2> QED BY <1>1, <2>3
<1>3. /\ right \in Seq(S) /\ Len(right) = m - i /\ \A n \in 1 .. m - i : right[n] = all[n + i]
  <2>1. i + 1 \in 1 .. m + 1 /\ m \in i + 1 - 1 .. m BY <1>1
  <2>3. /\ right \in Seq(S) /\ Len(right) = IF i + 1 <= m THEN m - (i + 1) + 1 ELSE 0
        /\ \A n \in 1 .. m - (i + 1) + 1 : right[n] = all[(i + 1) + n - 1]
    BY <2>1, SubSeqProperties
  <2>4. m - (i + 1) + 1 = m - i /\ \A n \in 1 .. m - i : (i + 1) + n - 1 = n + i BY <1>1
  <2> HIDE DEF right
  <2>5. Len(right) = m - i BY <1>1, <2>3
  <2>6. \A n \in 1 .. m - i : right[n] = all[(i + 1) + n - 1] BY <2>3, <2>4
  <2> QED BY <2>3, <2>4, <2>5, <2>6
<1>4. RemoveAt(all, i) = left \o right BY DEF RemoveAt
<1> HIDE DEF left, right
<1>5. /\ left \o right \in Seq(S) /\ Len(left \o right) = m - 1
      /\ \A n \in 1 .. m - 1 : (left \o right)[n] = IF n <= i - 1 THEN left[n] ELSE right[n - (i - 1)]
  <2>1. /\ left \o right \in Seq(S) /\ Len(left \o right) = Len(left) + Len(right)
        /\ \A n \in 1 .. Len(left) + Len(right) :
              (left \o right)[n] = IF n <= Len(left) THEN left[n] ELSE right[n - Len(left)]
    BY <1>2, <1>3, ConcatProperties
  <2>2. Len(left) + Len(right) = m - 1 BY <1>1, <1>2, <1>3
  <2> QED BY <1>2, <2>1, <2>2
<1>6. ASSUME NEW n \in 1 .. m - 1
      PROVE  (left \o right)[n] = IF n < i THEN all[n] ELSE all[n + 1]
  <2>1. CASE n < i
    <3>1. n \in 1 .. i - 1 /\ n <= i - 1 BY <2>1
    <3> QED BY <1>2, <1>5, <2>1, <3>1
  <2>2. CASE ~(n < i)
    <3>1. n - (i - 1) \in 1 .. m - i /\ ~(n <= i - 1) /\ n - (i - 1) + i = n + 1 BY <1>1, <2>2
    <3>2. (left \o right)[n] = right[n - (i - 1)] BY <1>5, <3>1
    <3>3. right[n - (i - 1)] = all[n - (i - 1) + i] BY <1>3, <3>1
    <3> QED BY <2>2, <3>1, <3>2, <3>3
  <2> QED BY <2>1, <2>2
<1> QED BY <1>4, <1>5, <1>6

LEMMA TotalRemove ==
    ASSUME NEW counts \in Seq(Int), NEW i \in 1 .. Len(counts)
    PROVE  Total(RemoveAt(counts, i)) = Total(counts) - counts[i]
<1> DEFINE m == Len(counts)
           other == RemoveAt(counts, i)
<1>1. /\ m \in Nat /\ other \in Seq(Int) /\ Len(other) = m - 1
      /\ \A n \in 1 .. m - 1 : other[n] = IF n < i THEN counts[n] ELSE counts[n + 1]
      /\ \A n \in 1 .. m : counts[n] \in Int
  BY LenProperties, Removed, ElementOfSeq
<1>2. PICK f : IsSum(f, counts) BY SumExists
<1> DEFINE g == [n \in 0 .. m - 1 |-> IF n < i THEN f[n] ELSE f[n + 1] - counts[i]]
<1>3. f \in [0 .. m -> Int] /\ f[0] = 0 /\ \A n \in 1 .. m : f[n] = f[n - 1] + counts[n]
  BY <1>2 DEF IsSum
<1> HIDE DEF other
<1>4. IsSum(g, other)
  <2>1. /\ 0 \in 0 .. m - 1 /\ 0 < i /\ counts[i] \in Int
        /\ \A n \in 0 .. m - 1 : f[n] \in Int /\ f[n + 1] \in Int
    <3>1. 0 \in 0 .. m - 1 /\ \A n \in 0 .. m - 1 : n \in 0 .. m /\ n + 1 \in 0 .. m BY <1>1
    <3>2. \A n \in 0 .. m - 1 : f[n] \in Int /\ f[n + 1] \in Int BY <1>3, <3>1
    <3> QED BY <1>1, <3>1, <3>2
  <2>2. g \in [0 .. m - 1 -> Int] /\ g[0] = 0
    <3>1. ASSUME NEW n \in 0 .. m - 1
          PROVE  (IF n < i THEN f[n] ELSE f[n + 1] - counts[i]) \in Int
      <4>1. f[n] \in Int /\ f[n + 1] \in Int /\ counts[i] \in Int BY <2>1
      <4> QED BY <4>1
    <3> QED BY <1>3, <2>1, <3>1
  <2>3. ASSUME NEW n \in 1 .. m - 1 PROVE g[n] = g[n - 1] + other[n]
    <3>1. /\ n - 1 \in 0 .. m - 1 /\ n \in 0 .. m - 1
          /\ f[n] = f[n - 1] + counts[n] /\ f[n + 1] = f[n] + counts[n + 1]
          /\ f[n - 1] \in Int /\ f[n] \in Int /\ f[n + 1] \in Int
          /\ counts[n] \in Int /\ counts[n + 1] \in Int /\ counts[i] \in Int
      <4>1. n \in 1 .. m /\ n + 1 \in 1 .. m /\ (n + 1) - 1 = n /\ n - 1 \in 0 .. m
            /\ n \in 0 .. m /\ n + 1 \in 0 .. m
        BY <1>1
      <4>2. f[n + 1] = f[(n + 1) - 1] + counts[n + 1] BY <1>3, <4>1
      <4>3. f[n] = f[n - 1] + counts[n] BY <1>3, <4>1
      <4>4. f[n - 1] \in Int /\ f[n] \in Int /\ f[n + 1] \in Int BY <1>3, <4>1
      <4>5. counts[n] \in Int /\ counts[n + 1] \in Int /\ counts[i] \in Int BY <1>1, <4>1
      <4>6. n - 1 \in 0 .. m - 1 /\ n \in 0 .. m - 1 BY <1>1
      <4> QED BY <4>1, <4>2, <4>3, <4>4, <4>5, <4>6
    <3>2. CASE n < i BY <1>1, <3>1, <3>2
    <3>3. CASE n = i
      <4>1. g[n] = f[n + 1] - counts[i] /\ g[n - 1] = f[n - 1] BY <3>1, <3>3
      <4>2. other[n] = counts[n + 1] BY <1>1, <3>3
      <4> HIDE DEF g
      <4> QED BY <3>1, <3>3, <4>1, <4>2
    <3>4. CASE n > i
      <4>1. g[n] = f[n + 1] - counts[i] /\ g[n - 1] = f[n] - counts[i] BY <3>1, <3>4
      <4>2. other[n] = counts[n + 1] BY <1>1, <3>4
      <4> HIDE DEF g
      <4> QED BY <3>1, <4>1, <4>2
    <3> QED BY <3>2, <3>3, <3>4
  <2> HIDE DEF g
  <2> QED BY <1>1, <2>2, <2>3 DEF IsSum
<1>5. Total(other) = g[m - 1]
  <2> HIDE DEF g
  <2> QED BY <1>1, <1>4, TotalIs
<1>6. g[m - 1] = f[m] - counts[i]
  <2>1. CASE m - 1 < i
    <3>1. i = m /\ f[m] = f[m - 1] + counts[m] /\ f[m - 1] \in Int /\ counts[m] \in Int
      BY <1>1, <1>3, <2>1
    <3> QED BY <1>1, <2>1, <3>1
  <2>2. CASE ~(m - 1 < i) BY <1>1, <2>2
  <2> QED BY <2>1, <2>2
<1>7. Total(counts) = f[m] BY <1>2, TotalIs
<1> QED BY <1>5, <1>6, <1>7 DEF other

LEMMA TotalNothing ==
    ASSUME NEW counts \in Seq(Int), \A n \in 1 .. Len(counts) : counts[n] = 0
    PROVE  Total(counts) = 0
<1> DEFINE m == Len(counts)
           g == [n \in 0 .. m |-> 0]
<1>1. m \in Nat BY LenProperties
<1>2. IsSum(g, counts)
  <2>1. ASSUME NEW n \in 1 .. m PROVE g[n] = g[n - 1] + counts[n] BY <1>1
  <2> QED BY <1>1, <2>1 DEF IsSum
<1>3. Total(counts) = g[m]
  <2> HIDE DEF g
  <2> QED BY <1>2, TotalIs
<1> QED BY <1>1, <1>3
-----------------------------------------------------------------------------
(* Types *)

Files == {"clients", "providers", "refills", "purchases", "sales"}
RefillType == [id : RefillIds, stock : Int, imported : Nat]
MoveType == [id : Nat, refill : RefillIds, count : Int]
DataType == [clients : BOOLEAN, providers : BOOLEAN, refills : Seq(RefillType),
             purchases : Seq(MoveType), sales : Seq(MoveType)]
TypeInv ==
    store \in [menu : {"main", "sales", "purchases"}, memory : DataType, disk : DataType,
               saves : Seq(Files), dirty : SUBSET Files, faults : Nat, negative : BOOLEAN]

(* What a sale or a purchase counts for a refill *)
Share(move, id) == IF move.refill = id THEN move.count ELSE 0

LEMMA CountedType ==
    ASSUME NEW all \in Seq(MoveType), NEW id
    PROVE  /\ Counted(all, id) \in Seq(Int) /\ Len(Counted(all, id)) = Len(all)
           /\ \A i \in 1 .. Len(all) : Counted(all, id)[i] = Share(all[i], id)
<1>1. Len(all) \in Nat /\ DOMAIN all = 1 .. Len(all) BY LenProperties
<1>2. ASSUME NEW i \in 1 .. Len(all)
      PROVE  (IF all[i].refill = id THEN all[i].count ELSE 0) \in Int
  <2>1. all[i] \in MoveType BY ElementOfSeq
  <2> QED BY <2>1 DEF MoveType
<1>3. [i \in 1 .. Len(all) |-> IF all[i].refill = id THEN all[i].count ELSE 0] \in Seq(Int)
  BY <1>1, <1>2, IsASeq
<1>4. Counted(all, id) = [i \in 1 .. Len(all) |-> IF all[i].refill = id THEN all[i].count ELSE 0]
  BY <1>1 DEF Counted
<1>5. Len(Counted(all, id)) = Len(all) BY <1>1, <1>3, <1>4, LenProperties
<1> QED BY <1>3, <1>4, <1>5 DEF Share

LEMMA SumType ==
    ASSUME NEW all \in Seq(MoveType), NEW id PROVE SumOf(all, id) \in Int
BY CountedType, TotalType DEF SumOf

LEMMA ShareType ==
    ASSUME NEW move \in MoveType, NEW id PROVE Share(move, id) \in Int
BY DEF Share, MoveType

LEMMA SumAppend ==
    ASSUME NEW all \in Seq(MoveType), NEW move \in MoveType, NEW id
    PROVE  SumOf(Append(all, move), id) = SumOf(all, id) + Share(move, id)
<1> DEFINE more == Append(all, move)
<1>1. /\ more \in Seq(MoveType) /\ Len(more) = Len(all) + 1 /\ Len(all) \in Nat
      /\ more[Len(all) + 1] = move /\ \A i \in 1 .. Len(all) : more[i] = all[i]
  BY AppendProperties, LenProperties
<1> HIDE DEF more
<1> DEFINE old == Counted(all, id)
           new == Counted(more, id)
<1>2. /\ old \in Seq(Int) /\ Len(old) = Len(all)
      /\ new \in Seq(Int) /\ Len(new) = Len(all) + 1
      /\ \A i \in 1 .. Len(all) : old[i] = Share(all[i], id)
      /\ \A i \in 1 .. Len(all) + 1 : new[i] = Share(more[i], id)
  BY <1>1, CountedType
<1>3. Share(move, id) \in Int BY ShareType
<1> HIDE DEF old, new
<1>4. /\ Append(old, Share(move, id)) \in Seq(Int)
      /\ Len(Append(old, Share(move, id))) = Len(all) + 1
      /\ Append(old, Share(move, id))[Len(all) + 1] = Share(move, id)
      /\ \A i \in 1 .. Len(all) : Append(old, Share(move, id))[i] = old[i]
  BY <1>2, <1>3, AppendProperties
<1>5. \A i \in 1 .. Len(all) + 1 : Append(old, Share(move, id))[i] = new[i]
  BY <1>1, <1>2, <1>4
<1>6. new = Append(old, Share(move, id)) BY <1>2, <1>4, <1>5, SeqEqual
<1> QED BY <1>2, <1>3, <1>6, TotalAppend DEF SumOf, old, new, more

LEMMA SumExcept ==
    ASSUME NEW all \in Seq(MoveType), NEW i \in 1 .. Len(all), NEW move \in MoveType, NEW id
    PROVE  SumOf([all EXCEPT ![i] = move], id)
             = SumOf(all, id) - Share(all[i], id) + Share(move, id)
<1> DEFINE other == [all EXCEPT ![i] = move]
<1>1. /\ other \in Seq(MoveType) /\ Len(other) = Len(all) /\ Len(all) \in Nat
      /\ other[i] = move /\ \A j \in 1 .. Len(all) : j # i => other[j] = all[j]
  BY ExceptSeq, LenProperties
<1> HIDE DEF other
<1> DEFINE old == Counted(all, id)
           new == Counted(other, id)
<1>2. /\ old \in Seq(Int) /\ Len(old) = Len(all)
      /\ new \in Seq(Int) /\ Len(new) = Len(all)
      /\ \A j \in 1 .. Len(all) : old[j] = Share(all[j], id) /\ new[j] = Share(other[j], id)
  BY <1>1, CountedType
<1>3. Share(move, id) \in Int BY ShareType
<1> HIDE DEF old, new
<1> DEFINE changed == [old EXCEPT ![i] = Share(move, id)]
<1>4. /\ changed \in Seq(Int) /\ Len(changed) = Len(all) /\ changed[i] = Share(move, id)
      /\ \A j \in 1 .. Len(all) : j # i => changed[j] = old[j]
  BY <1>2, <1>3, ExceptSeq, LenProperties
<1> HIDE DEF changed
<1>5. \A j \in 1 .. Len(all) : changed[j] = new[j]
  BY <1>1, <1>2, <1>4
<1>6. new = changed BY <1>2, <1>4, <1>5, SeqEqual
<1>7. Total(changed) = Total(old) - old[i] + Share(move, id)
  BY <1>2, <1>3, TotalExcept DEF changed
<1> QED BY <1>2, <1>6, <1>7 DEF SumOf, old, new, other

LEMMA SumRemove ==
    ASSUME NEW all \in Seq(MoveType), NEW i \in 1 .. Len(all), NEW id
    PROVE  SumOf(RemoveAt(all, i), id) = SumOf(all, id) - Share(all[i], id)
<1> DEFINE other == RemoveAt(all, i)
<1>1. /\ other \in Seq(MoveType) /\ Len(other) = Len(all) - 1 /\ Len(all) \in Nat
      /\ \A j \in 1 .. Len(all) - 1 : other[j] = IF j < i THEN all[j] ELSE all[j + 1]
  BY Removed, LenProperties
<1> HIDE DEF other
<1> DEFINE old == Counted(all, id)
           new == Counted(other, id)
<1>2. /\ old \in Seq(Int) /\ Len(old) = Len(all)
      /\ new \in Seq(Int) /\ Len(new) = Len(all) - 1
      /\ \A j \in 1 .. Len(all) : old[j] = Share(all[j], id)
      /\ \A j \in 1 .. Len(all) - 1 : new[j] = Share(other[j], id)
  BY <1>1, CountedType
<1> HIDE DEF old, new
<1> DEFINE shorter == RemoveAt(old, i)
<1>4. /\ shorter \in Seq(Int) /\ Len(shorter) = Len(all) - 1
      /\ \A j \in 1 .. Len(all) - 1 : shorter[j] = IF j < i THEN old[j] ELSE old[j + 1]
  BY <1>2, Removed
<1> HIDE DEF shorter
<1>5. ASSUME NEW j \in 1 .. Len(all) - 1 PROVE shorter[j] = new[j]
  <2>1. j \in 1 .. Len(all) /\ j + 1 \in 1 .. Len(all) BY <1>1
  <2> QED BY <1>1, <1>2, <1>4, <2>1
<1>6. new = shorter BY <1>2, <1>4, <1>5, SeqEqual
<1>7. Total(shorter) = Total(old) - old[i]
  BY <1>2, TotalRemove DEF shorter
<1> QED BY <1>2, <1>6, <1>7 DEF SumOf, old, new, other

LEMMA SumNothing ==
    ASSUME NEW all \in Seq(MoveType), NEW id, \A i \in 1 .. Len(all) : all[i].refill # id
    PROVE  SumOf(all, id) = 0
BY CountedType, TotalNothing DEF SumOf, Share
-----------------------------------------------------------------------------
(* The first refill with an id *)

FirstOf(rs, id) == {i \in DOMAIN rs : rs[i].id = id /\ \A j \in 1 .. i - 1 : rs[j].id # id}

LEMMA RefillIs == \A id : Refill(id) = FirstOf(refills, id)
BY DEF Refill, FirstOf

LEMMA FirstIsOne ==
    ASSUME NEW rs \in Seq(RefillType), NEW id, NEW i \in FirstOf(rs, id), NEW j \in FirstOf(rs, id)
    PROVE  i = j
<1>1. DOMAIN rs = 1 .. Len(rs) /\ Len(rs) \in Nat BY LenProperties
<1>2. i \in 1 .. Len(rs) /\ j \in 1 .. Len(rs) BY <1>1 DEF FirstOf
<1>3. ~(i \in 1 .. j - 1) /\ ~(j \in 1 .. i - 1) BY DEF FirstOf
<1> QED BY <1>2, <1>3

LEMMA FirstExists ==
    ASSUME NEW rs \in Seq(RefillType), NEW k \in 1 .. Len(rs)
    PROVE  FirstOf(rs, rs[k].id) # {}
<1> DEFINE S == {i \in 1 .. Len(rs) : rs[i].id = rs[k].id}
<1>1. DOMAIN rs = 1 .. Len(rs) /\ Len(rs) \in Nat BY LenProperties
<1>2. S \subseteq Nat /\ S # {} BY <1>1
<1>3. PICK i \in S : \A j \in S : i <= j
  <2> HIDE DEF S
  <2> QED BY <1>2, LeastOf
<1>4. ASSUME NEW j \in 1 .. i - 1 PROVE rs[j].id # rs[k].id
  <2>1. j \in 1 .. Len(rs) /\ ~(i <= j) BY <1>1, <1>3
  <2> QED BY <1>3, <2>1
<1> QED BY <1>1, <1>3, <1>4 DEF FirstOf

(* Two sequences of the same refills, whatever is left of them *)
Alike(rs, ts) ==
    /\ rs \in Seq(RefillType) /\ ts \in Seq(RefillType) /\ Len(ts) = Len(rs)
    /\ \A i \in 1 .. Len(rs) : ts[i].id = rs[i].id /\ ts[i].imported = rs[i].imported

LEMMA AlikeFirst ==
    ASSUME NEW rs, NEW ts, Alike(rs, ts), NEW id
    PROVE  FirstOf(ts, id) = FirstOf(rs, id)
<1>1. /\ DOMAIN rs = 1 .. Len(rs) /\ DOMAIN ts = 1 .. Len(rs) /\ Len(rs) \in Nat
  BY LenProperties DEF Alike
<1>2. \A i \in 1 .. Len(rs) : i \in FirstOf(ts, id) <=> i \in FirstOf(rs, id)
  <2> SUFFICES ASSUME NEW i \in 1 .. Len(rs)
               PROVE  i \in FirstOf(ts, id) <=> i \in FirstOf(rs, id)
    OBVIOUS
  <2>1. \A j \in 1 .. i - 1 : j \in 1 .. Len(rs) BY <1>1
  <2> QED BY <1>1, <2>1 DEF Alike, FirstOf
<1> QED BY <1>1, <1>2 DEF FirstOf

LEMMA AddStockIs ==
    ASSUME NEW rs, Alike(refills, rs), NEW id, NEW n \in Int
    PROVE  /\ Alike(refills, AddStock(rs, id, n)) /\ Alike(rs, AddStock(rs, id, n))
           /\ \A i \in 1 .. Len(refills) :
                 AddStock(rs, id, n)[i].stock
                   = rs[i].stock + IF i \in FirstOf(refills, id) THEN n ELSE 0
<1> DEFINE m == Len(refills)
           ts == AddStock(rs, id, n)
           E(i) == IF i \in FirstOf(refills, id) THEN [rs[i] EXCEPT !.stock = @ + n] ELSE rs[i]
<1>1. /\ m \in Nat /\ DOMAIN rs = 1 .. m /\ Len(rs) = m /\ rs \in Seq(RefillType)
      /\ refills \in Seq(RefillType)
  BY LenProperties DEF Alike
<1>2. ASSUME NEW i \in 1 .. m
      PROVE  /\ E(i) \in RefillType /\ E(i).id = rs[i].id /\ E(i).imported = rs[i].imported
             /\ E(i).stock = rs[i].stock + IF i \in FirstOf(refills, id) THEN n ELSE 0
  <2>1. rs[i] \in RefillType BY <1>1, ElementOfSeq
  <2> QED BY <2>1 DEF RefillType
<1>3. ts = [i \in 1 .. m |-> E(i)] BY <1>1, RefillIs DEF AddStock
<1> HIDE DEF E, ts
<1>4. ts \in Seq(RefillType) /\ Len(ts) = m /\ \A i \in 1 .. m : ts[i] = E(i)
  <2>1. [i \in 1 .. m |-> E(i)] \in Seq(RefillType) BY <1>1, <1>2, IsASeq
  <2>2. Len(ts) = m BY <1>1, <1>3, <2>1, LenProperties
  <2> QED BY <1>3, <2>1, <2>2
<1>5. \A i \in 1 .. m : refills[i].id = rs[i].id /\ refills[i].imported = rs[i].imported
  BY DEF Alike
<1>6. Alike(refills, ts) /\ Alike(rs, ts) BY <1>1, <1>2, <1>4, <1>5 DEF Alike
<1> QED BY <1>2, <1>4, <1>6 DEF ts
-----------------------------------------------------------------------------
(* A new id is greater than those there are *)

LEMMA NewIdIsNew ==
    ASSUME NEW all \in Seq(MoveType)
    PROVE  getNewId(all) \in Nat /\ \A i \in 1 .. Len(all) : all[i].id # getNewId(all)
<1> DEFINE m == Len(all)
           T == {0} \cup {all[i].id : i \in DOMAIN all}
           S == {n \in 0 .. m : \E x \in T : \A j \in 1 .. n : x >= all[j].id}
<1>1. m \in Nat /\ DOMAIN all = 1 .. m /\ \A i \in 1 .. m : all[i].id \in Nat
  <2>1. \A i \in 1 .. m : all[i] \in MoveType BY ElementOfSeq
  <2> QED BY <2>1, LenProperties DEF MoveType
<1>2. T \subseteq Nat /\ 0 \in T /\ \A i \in 1 .. m : all[i].id \in T BY <1>1
<1> HIDE DEF T
<1>3. 0 \in S BY <1>1, <1>2
<1>4. ASSUME NEW n \in 0 .. m, n < m, n \in S PROVE n + 1 \in S
  <2>1. PICK x \in T : \A j \in 1 .. n : x >= all[j].id BY <1>4
  <2>2. n + 1 \in 1 .. m /\ n + 1 \in 0 .. m /\ x \in Nat /\ all[n + 1].id \in Nat
        /\ \A j \in 1 .. n + 1 : j \in 1 .. n \/ j = n + 1
    BY <1>1, <1>2, <1>4
  <2>3. CASE x >= all[n + 1].id BY <2>1, <2>2, <2>3
  <2>4. CASE all[n + 1].id >= x
    <3>1. ASSUME NEW j \in 1 .. n + 1 PROVE all[n + 1].id >= all[j].id
      <4>1. j \in 1 .. m /\ all[j].id \in Nat BY <1>1, <2>2
      <4>2. CASE j = n + 1 BY <2>2, <4>2
      <4>3. CASE j \in 1 .. n
        <5>1. x >= all[j].id BY <2>1, <4>3
        <5> QED BY <2>2, <2>4, <4>1, <5>1
      <4> QED BY <2>2, <4>2, <4>3
    <3> QED BY <1>2, <2>2, <3>1
  <2> QED BY <2>2, <2>3, <2>4
<1>5. m \in S
  <2> HIDE DEF S, m
  <2>1. \A n \in 0 .. m : n \in S BY <1>1, <1>3, <1>4, UpTo
  <2> QED BY <1>1, <2>1
<1>6. PICK x \in T : \A j \in 1 .. m : x >= all[j].id BY <1>5
<1>7. \A y \in T : x >= y
  BY <1>1, <1>2, <1>6 DEF T
<1>8. Max(T) \in T /\ \A y \in T : Max(T) >= y
  BY <1>7 DEF Max
<1>9. getNewId(all) = 1 + Max(T) BY DEF getNewId, T
<1>10. Max(T) \in Nat BY <1>2, <1>8
<1>11. ASSUME NEW i \in 1 .. m PROVE all[i].id # getNewId(all)
  <2>1. all[i].id \in Nat /\ Max(T) >= all[i].id BY <1>1, <1>2, <1>8
  <2> QED BY <1>9, <1>10, <2>1
<1> QED BY <1>9, <1>10, <1>11
-----------------------------------------------------------------------------
(* The books: the stock of a refill is what was imported and what has been *)
(* moved since, and nothing has been moved of one that is not there         *)

Known(rs, all) == \A i \in 1 .. Len(all) : FirstOf(rs, all[i].refill) # {}
Balance(m, id) == SumOf(m.purchases, id) - SumOf(m.sales, id)
Moved(m, i) ==
    IF i \in FirstOf(m.refills, m.refills[i].id) THEN Balance(m, m.refills[i].id) ELSE 0
Ledger(m) ==
    /\ Known(m.refills, m.sales) /\ Known(m.refills, m.purchases)
    /\ \A i \in 1 .. Len(m.refills) :
          m.refills[i].stock = m.refills[i].imported + Moved(m, i)
Positive(m) ==
    /\ \A i \in 1 .. Len(m.refills) : m.refills[i].stock >= 0
    /\ \A i \in 1 .. Len(m.sales) : m.sales[i].count >= 0
    /\ \A i \in 1 .. Len(m.purchases) : m.purchases[i].count >= 0

Distinct(all) == \A i, j \in 1 .. Len(all) : all[i].id = all[j].id => i = j

LEMMA Shape ==
    ASSUME NEW m \in DataType
    PROVE  /\ m.refills \in Seq(RefillType) /\ m.sales \in Seq(MoveType)
           /\ m.purchases \in Seq(MoveType) /\ m.clients \in BOOLEAN /\ m.providers \in BOOLEAN
           /\ Len(m.refills) \in Nat /\ DOMAIN m.refills = 1 .. Len(m.refills)
           /\ Len(m.sales) \in Nat /\ DOMAIN m.sales = 1 .. Len(m.sales)
           /\ Len(m.purchases) \in Nat /\ DOMAIN m.purchases = 1 .. Len(m.purchases)
           /\ \A id : Balance(m, id) \in Int
           /\ \A i \in 1 .. Len(m.refills) : m.refills[i] \in RefillType
           /\ \A i \in 1 .. Len(m.sales) : m.sales[i] \in MoveType
           /\ \A i \in 1 .. Len(m.purchases) : m.purchases[i] \in MoveType
<1>1. /\ m.refills \in Seq(RefillType) /\ m.sales \in Seq(MoveType)
      /\ m.purchases \in Seq(MoveType) /\ m.clients \in BOOLEAN /\ m.providers \in BOOLEAN
  BY DEF DataType
<1>2. \A id : Balance(m, id) \in Int
  <2> TAKE id
  <2>1. SumOf(m.purchases, id) \in Int /\ SumOf(m.sales, id) \in Int BY <1>1, SumType
  <2> QED BY <2>1 DEF Balance
<1> QED BY <1>1, <1>2, LenProperties, ElementOfSeq

(* What an action does to the books is right when every stock changes by    *)
(* what the action moves of its refill                                       *)
LEMMA LedgerMoves ==
    ASSUME NEW m \in DataType, NEW t \in DataType, Ledger(m), Alike(m.refills, t.refills),
           Known(m.refills, t.sales), Known(m.refills, t.purchases),
           \A i \in 1 .. Len(m.refills) :
               t.refills[i].stock = m.refills[i].stock
                 + IF i \in FirstOf(m.refills, m.refills[i].id)
                   THEN Balance(t, m.refills[i].id) - Balance(m, m.refills[i].id) ELSE 0
    PROVE  Ledger(t)
<1>1. \A id : FirstOf(t.refills, id) = FirstOf(m.refills, id) BY AlikeFirst
<1>2. Len(t.refills) = Len(m.refills) BY DEF Alike
<1>3. ASSUME NEW i \in 1 .. Len(m.refills)
      PROVE  t.refills[i].stock = t.refills[i].imported + Moved(t, i)
  <2> DEFINE id == m.refills[i].id
  <2>1. t.refills[i].id = id /\ t.refills[i].imported = m.refills[i].imported BY DEF Alike
  <2>2. m.refills[i].stock = m.refills[i].imported + Moved(m, i) BY DEF Ledger
  <2>3. m.refills[i].imported \in Int /\ Balance(t, id) \in Int /\ Balance(m, id) \in Int
    <3>1. m.refills[i] \in RefillType BY Shape
    <3> QED BY <3>1, Shape DEF RefillType
  <2>4. CASE i \in FirstOf(m.refills, id)
    <3>1. Moved(m, i) = Balance(m, id) /\ Moved(t, i) = Balance(t, id)
      BY <1>1, <2>1, <2>4 DEF Moved
    <3>2. t.refills[i].stock = m.refills[i].stock + (Balance(t, id) - Balance(m, id)) BY <2>4
    <3> QED BY <2>1, <2>2, <2>3, <3>1, <3>2
  <2>5. CASE i \notin FirstOf(m.refills, id)
    <3>1. Moved(m, i) = 0 /\ Moved(t, i) = 0
      BY <1>1, <2>1, <2>5 DEF Moved
    <3>2. t.refills[i].stock = m.refills[i].stock + 0 BY <2>5
    <3> QED BY <2>1, <2>2, <2>3, <3>1, <3>2
  <2> QED BY <2>4, <2>5
<1> QED BY <1>1, <1>2, <1>3 DEF Ledger, Known
-----------------------------------------------------------------------------
(* The invariant: the books are right, and balance, until something fails;  *)
(* the files that nobody knows to be behind are the memory                    *)

Agreed ==
    \A f \in Files : f \notin store.dirty /\ ~Contains(store.saves, f)
                      => store.disk[f] = store.memory[f]
Faultless ==
    store.faults = 0 => /\ store.dirty = {} /\ Ledger(store.memory)
                        /\ ~store.negative => Positive(store.memory)
StoreInv ==
    /\ TypeInv /\ Agreed /\ Faultless
    /\ Distinct(store.memory.sales) /\ Distinct(store.disk.sales)

LEMMA DoesInv ==
    ASSUME StoreInv, store.saves = <<>>, NEW memory \in DataType, NEW saves \in Seq(Files),
           NEW count \in Int, Does(memory, saves, count),
           \A f \in Files : ~Contains(saves, f) => memory[f] = store.memory[f],
           Distinct(memory.sales),
           store.faults = 0 => Ledger(memory),
           store.faults = 0 /\ ~store.negative /\ ~(count < 0) => Positive(memory)
    PROVE  StoreInv'
<1>1. /\ store'.memory = memory /\ store'.saves = saves /\ store'.disk = store.disk
      /\ store'.dirty = store.dirty /\ store'.faults = store.faults
      /\ store'.negative = (store.negative \/ count < 0)
  BY DEF Does, StoreInv, TypeInv
<1>2. TypeInv' BY DEF Does, StoreInv, TypeInv
<1>3. Agreed'
  <2>1. \A f : ~Contains(store.saves, f) BY DEF StoreInv, Contains
  <2> QED BY <1>1, <2>1 DEF StoreInv, Agreed
<1>4. Faultless' BY <1>1 DEF StoreInv, Faultless
<1> QED BY <1>1, <1>2, <1>3, <1>4 DEF StoreInv

LEMMA ThrowsInv ==
    ASSUME StoreInv, store.saves = <<>>, NEW memory \in DataType, NEW dirty \in SUBSET Files,
           Throws(memory, dirty),
           \A f \in Files : f \notin dirty => memory[f] = store.memory[f],
           Distinct(memory.sales),
           store.faults = 0 => memory = store.memory /\ dirty = {}
    PROVE  StoreInv'
<1>1. /\ store'.memory = memory /\ store'.saves = store.saves /\ store'.disk = store.disk
      /\ store'.dirty = store.dirty \cup dirty /\ store'.faults = store.faults
      /\ store'.negative = store.negative
  BY DEF Throws, StoreInv, TypeInv
<1>2. TypeInv' BY DEF Throws, StoreInv, TypeInv
<1>3. Agreed'
  <2>1. \A f : ~Contains(store.saves, f) BY DEF StoreInv, Contains
  <2> QED BY <1>1, <2>1 DEF StoreInv, Agreed
<1>4. Faultless' BY <1>1 DEF StoreInv, Faultless
<1> QED BY <1>1, <1>2, <1>3, <1>4 DEF StoreInv
-----------------------------------------------------------------------------
(* One lemma for each operation *)

LEMMA FirstHere ==
    ASSUME NEW rs, NEW id, NEW i \in DOMAIN rs
    PROVE  i \in FirstOf(rs, id) <=> rs[i].id = id /\ i \in FirstOf(rs, rs[i].id)
BY DEF FirstOf

(* A move of the refill with one id, and of the refill with another *)
StocksMove(m, t, a, x, b, y) ==
    \A i \in 1 .. Len(m.refills) :
        t.refills[i].stock = m.refills[i].stock
          + (IF i \in FirstOf(m.refills, a) THEN x ELSE 0)
          + (IF i \in FirstOf(m.refills, b) THEN y ELSE 0)
BalanceMoves(m, t, a, x, b, y) ==
    \A id : Balance(t, id) = Balance(m, id) + (IF a = id THEN x ELSE 0)
                                            + (IF b = id THEN y ELSE 0)

LEMMA LedgerTwo ==
    ASSUME NEW m \in DataType, NEW t \in DataType, Ledger(m), Alike(m.refills, t.refills),
           Known(m.refills, t.sales), Known(m.refills, t.purchases),
           NEW a, NEW b, NEW x \in Int, NEW y \in Int,
           StocksMove(m, t, a, x, b, y), BalanceMoves(m, t, a, x, b, y)
    PROVE  Ledger(t)
<1>1. ASSUME NEW i \in 1 .. Len(m.refills)
      PROVE  t.refills[i].stock = m.refills[i].stock
                 + IF i \in FirstOf(m.refills, m.refills[i].id)
                   THEN Balance(t, m.refills[i].id) - Balance(m, m.refills[i].id) ELSE 0
  <2> DEFINE id == m.refills[i].id
  <2>1. Balance(m, id) \in Int /\ Balance(t, id) \in Int /\ m.refills[i].stock \in Int
    <3>1. m.refills[i] \in RefillType BY Shape
    <3> QED BY <3>1, Shape DEF RefillType
  <2>2. /\ i \in FirstOf(m.refills, a) <=> id = a /\ i \in FirstOf(m.refills, id)
        /\ i \in FirstOf(m.refills, b) <=> id = b /\ i \in FirstOf(m.refills, id)
    BY Shape, FirstHere
  <2>3. Balance(t, id) = Balance(m, id) + (IF a = id THEN x ELSE 0) + (IF b = id THEN y ELSE 0)
    BY DEF BalanceMoves
  <2>4. t.refills[i].stock = m.refills[i].stock
                 + (IF i \in FirstOf(m.refills, a) THEN x ELSE 0)
                 + (IF i \in FirstOf(m.refills, b) THEN y ELSE 0)
    BY DEF StocksMove
  <2> HIDE DEF id
  <2>5. CASE i \in FirstOf(m.refills, id)
    <3>1. t.refills[i].stock = m.refills[i].stock + (IF a = id THEN x ELSE 0)
                                                  + (IF b = id THEN y ELSE 0)
      BY <2>2, <2>4, <2>5
    <3> QED BY <2>1, <2>3, <2>5, <3>1 DEF id
  <2>6. CASE i \notin FirstOf(m.refills, id)
    BY <2>1, <2>2, <2>4, <2>6 DEF id
  <2> QED BY <2>5, <2>6
<1> QED BY <1>1, LedgerMoves

(* A move of one refill *)
LEMMA LedgerOne ==
    ASSUME NEW m \in DataType, NEW t \in DataType, Ledger(m), Alike(m.refills, t.refills),
           Known(m.refills, t.sales), Known(m.refills, t.purchases),
           NEW a, NEW x \in Int,
           \A i \in 1 .. Len(m.refills) :
               t.refills[i].stock = m.refills[i].stock + IF i \in FirstOf(m.refills, a) THEN x ELSE 0,
           \A id : Balance(t, id) = Balance(m, id) + IF a = id THEN x ELSE 0
    PROVE  Ledger(t)
<1>1. ASSUME NEW i \in 1 .. Len(m.refills)
      PROVE  t.refills[i].stock = m.refills[i].stock
                 + IF i \in FirstOf(m.refills, m.refills[i].id)
                   THEN Balance(t, m.refills[i].id) - Balance(m, m.refills[i].id) ELSE 0
  <2> DEFINE id == m.refills[i].id
  <2>1. Balance(m, id) \in Int /\ Balance(t, id) \in Int BY Shape
  <2>2. i \in FirstOf(m.refills, a) <=> id = a /\ i \in FirstOf(m.refills, id)
    BY Shape, FirstHere
  <2>3. Balance(t, id) - Balance(m, id) = IF a = id THEN x ELSE 0
    <3>1. Balance(t, id) = Balance(m, id) + IF a = id THEN x ELSE 0 OBVIOUS
    <3> HIDE DEF id
    <3> QED BY <2>1, <3>1
  <2>4. t.refills[i].stock = m.refills[i].stock + IF i \in FirstOf(m.refills, a) THEN x ELSE 0
    OBVIOUS
  <2>5. CASE i \in FirstOf(m.refills, id) BY <2>2, <2>3, <2>4, <2>5
  <2>6. CASE i \notin FirstOf(m.refills, id) BY <2>2, <2>4, <2>6
  <2> QED BY <2>5, <2>6
<1> QED BY <1>1, LedgerMoves

(* Stock is that of the first refill *)
LEMMA StockIs ==
    ASSUME refills \in Seq(RefillType), NEW id, NEW i \in FirstOf(refills, id), NEW rs
    PROVE  Stock(rs, id) = rs[i].stock
<1>1. (CHOOSE j \in FirstOf(refills, id) : TRUE) = i
  <2>1. (CHOOSE j \in FirstOf(refills, id) : TRUE) \in FirstOf(refills, id) OBVIOUS
  <2> QED BY <2>1, FirstIsOne
<1> QED BY <1>1, RefillIs DEF Stock

LEMMA InvShape ==
    ASSUME StoreInv
    PROVE  /\ store.memory \in DataType /\ store.disk \in DataType
           /\ refills = store.memory.refills /\ refills \in Seq(RefillType)
           /\ sales = store.memory.sales /\ sales \in Seq(MoveType)
           /\ purchases = store.memory.purchases /\ purchases \in Seq(MoveType)
           /\ Alike(refills, refills)
BY Shape DEF StoreInv, TypeInv, refills, sales, purchases, Alike

LEMMA CreateSale ==
    ASSUME CountsAssumption, StoreInv, NEW refill \in RefillIds, NEW count \in Counts,
           sales_create(refill, count)
    PROVE  StoreInv'
<1> DEFINE m == store.memory
           move == Record(sales, refill, count)
           rs == AddStock(refills, refill, -count)
           t == [m EXCEPT !.sales = Append(@, move), !.refills = AddStock(@, refill, -count)]
<1>1. /\ store.saves = <<>> /\ Does(t, <<"sales", "refills">>, count)
      /\ Refill(refill) # {} /\ Stock(refills, refill) >= count
  BY InvShape DEF sales_create, sales_valid, At
<1>2. m \in DataType /\ count \in Int /\ -count \in Int BY InvShape DEF CountsAssumption
<1>3. move \in MoveType /\ move.refill = refill /\ move.count = count /\ move.id = getNewId(sales)
  BY <1>2, InvShape, NewIdIsNew DEF Record, MoveType
<1>4. /\ Alike(m.refills, rs)
      /\ \A i \in 1 .. Len(m.refills) :
            rs[i].stock = m.refills[i].stock + IF i \in FirstOf(m.refills, refill) THEN -count ELSE 0
  BY <1>2, InvShape, AddStockIs
<1>5. /\ Append(m.sales, move) \in Seq(MoveType)
      /\ Len(Append(m.sales, move)) = Len(m.sales) + 1
      /\ Append(m.sales, move)[Len(m.sales) + 1] = move
      /\ \A i \in 1 .. Len(m.sales) : Append(m.sales, move)[i] = m.sales[i]
  BY <1>2, <1>3, Shape, AppendProperties
<1>6. /\ t \in DataType /\ t.refills = rs /\ t.sales = Append(m.sales, move)
      /\ t.purchases = m.purchases /\ t.clients = m.clients /\ t.providers = m.providers
  <2>1. rs \in Seq(RefillType) BY <1>4 DEF Alike
  <2> HIDE DEF move
  <2> QED BY <1>2, <1>5, <2>1, InvShape DEF DataType
<1> HIDE DEF t, rs, move, m
<1>7. Len(m.sales) \in Nat BY <1>2, Shape
<1>8. \A i \in 1 .. Len(t.sales) : i \in 1 .. Len(m.sales) \/ i = Len(m.sales) + 1
  BY <1>5, <1>6, <1>7
<1>9. Distinct(t.sales)
  <2>1. \A i \in 1 .. Len(m.sales) : m.sales[i].id # move.id
    BY <1>3, InvShape, NewIdIsNew DEF m
  <2>2. Distinct(m.sales) BY DEF StoreInv, m
  <2> QED BY <1>5, <1>6, <1>8, <2>1, <2>2 DEF Distinct
<1>10. ASSUME store.faults = 0 PROVE Ledger(t)
  <2>1. Ledger(m) BY <1>10 DEF StoreInv, Faultless, m
  <2>2. Known(m.refills, t.sales)
    <3>1. FirstOf(m.refills, refill) # {} BY <1>1, RefillIs, InvShape DEF m
    <3> QED BY <1>3, <1>5, <1>6, <1>8, <2>1, <3>1 DEF Ledger, Known
  <2>3. Known(m.refills, t.purchases) BY <1>6, <2>1 DEF Ledger
  <2>4. ASSUME NEW id
        PROVE  Balance(t, id) = Balance(m, id) + IF refill = id THEN -count ELSE 0
    <3>1. SumOf(t.sales, id) = SumOf(m.sales, id) + Share(move, id)
      BY <1>2, <1>3, <1>6, Shape, SumAppend
    <3>2. SumOf(m.sales, id) \in Int /\ SumOf(m.purchases, id) \in Int
      BY <1>2, Shape, SumType
    <3>3. Share(move, id) = IF refill = id THEN count ELSE 0 BY <1>3 DEF Share
    <3> QED BY <1>2, <1>6, <3>1, <3>2, <3>3 DEF Balance
  <2>5. \A i \in 1 .. Len(m.refills) :
           t.refills[i].stock = m.refills[i].stock
               + IF i \in FirstOf(m.refills, refill) THEN -count ELSE 0
    BY <1>4, <1>6
  <2> QED BY <1>2, <1>4, <1>6, <2>1, <2>2, <2>3, <2>4, <2>5, LedgerOne
<1>11. ASSUME store.faults = 0, ~store.negative, ~(count < 0) PROVE Positive(t)
  <2>1. Positive(m) BY <1>11 DEF StoreInv, Faultless, m
  <2>2. \A i \in 1 .. Len(t.sales) : t.sales[i].count >= 0
    BY <1>2, <1>3, <1>5, <1>6, <1>8, <1>11, <2>1 DEF Positive
  <2>3. ASSUME NEW i \in 1 .. Len(t.refills) PROVE t.refills[i].stock >= 0
    <3>1. i \in 1 .. Len(m.refills) BY <1>4, <1>6 DEF Alike
    <3>2. m.refills[i].stock \in Int /\ m.refills[i].stock >= 0
      <4>1. m.refills[i] \in RefillType BY <1>2, <3>1, Shape
      <4> QED BY <2>1, <3>1, <4>1 DEF RefillType, Positive
    <3>3. CASE i \in FirstOf(m.refills, refill)
      <4>1. Stock(refills, refill) = m.refills[i].stock BY <3>3, InvShape, StockIs DEF m
      <4>2. t.refills[i].stock = m.refills[i].stock + (-count) BY <1>4, <1>6, <3>1, <3>3
      <4> QED BY <1>1, <1>2, <3>2, <4>1, <4>2
    <3>4. CASE i \notin FirstOf(m.refills, refill)
      BY <1>4, <1>6, <3>1, <3>2, <3>4
    <3> QED BY <3>3, <3>4
  <2> QED BY <1>6, <2>1, <2>2, <2>3 DEF Positive
<1>12. /\ <<"sales", "refills">> \in Seq(Files)
       /\ \A f \in Files : ~Contains(<<"sales", "refills">>, f) => t[f] = store.memory[f]
  <2>1. Contains(<<"sales", "refills">>, "sales") /\ Contains(<<"sales", "refills">>, "refills")
    BY DEF Contains
  <2> QED BY <1>6, <2>1 DEF Files, m
<1> QED BY <1>1, <1>2, <1>6, <1>9, <1>10, <1>11, <1>12, DoesInv

LEMMA CreatePurchase ==
    ASSUME CountsAssumption, StoreInv, NEW refill \in RefillIds, NEW count \in Counts,
           purchases_create(refill, count)
    PROVE  StoreInv'
<1> DEFINE m == store.memory
           move == Record(purchases, refill, count)
           rs == AddStock(refills, refill, count)
           t == [m EXCEPT !.purchases = Append(@, move), !.refills = AddStock(@, refill, count)]
<1>1. /\ store.saves = <<>> /\ Does(t, <<"purchases", "refills">>, count) /\ Refill(refill) # {}
  BY InvShape DEF purchases_create, At
<1>2. m \in DataType /\ count \in Int BY InvShape DEF CountsAssumption
<1>3. move \in MoveType /\ move.refill = refill /\ move.count = count
  BY <1>2, InvShape, NewIdIsNew DEF Record, MoveType
<1>4. /\ Alike(m.refills, rs)
      /\ \A i \in 1 .. Len(m.refills) :
            rs[i].stock = m.refills[i].stock + IF i \in FirstOf(m.refills, refill) THEN count ELSE 0
  BY <1>2, InvShape, AddStockIs
<1>5. /\ Append(m.purchases, move) \in Seq(MoveType)
      /\ Len(Append(m.purchases, move)) = Len(m.purchases) + 1
      /\ Append(m.purchases, move)[Len(m.purchases) + 1] = move
      /\ \A i \in 1 .. Len(m.purchases) : Append(m.purchases, move)[i] = m.purchases[i]
  BY <1>2, <1>3, Shape, AppendProperties
<1>6. /\ t \in DataType /\ t.refills = rs /\ t.purchases = Append(m.purchases, move)
      /\ t.sales = m.sales /\ t.clients = m.clients /\ t.providers = m.providers
  <2>1. rs \in Seq(RefillType) BY <1>4 DEF Alike
  <2> HIDE DEF move
  <2> QED BY <1>2, <1>5, <2>1, InvShape DEF DataType
<1> HIDE DEF t, rs, move, m
<1>7. \A i \in 1 .. Len(t.purchases) : i \in 1 .. Len(m.purchases) \/ i = Len(m.purchases) + 1
  <2>1. Len(m.purchases) \in Nat BY <1>2, Shape
  <2> QED BY <1>5, <1>6, <2>1
<1>8. Distinct(t.sales) BY <1>6 DEF StoreInv, m
<1>9. ASSUME store.faults = 0 PROVE Ledger(t)
  <2>1. Ledger(m) BY <1>9 DEF StoreInv, Faultless, m
  <2>2. Known(m.refills, t.purchases)
    <3>1. FirstOf(m.refills, refill) # {} BY <1>1, RefillIs, InvShape DEF m
    <3> QED BY <1>3, <1>5, <1>6, <1>7, <2>1, <3>1 DEF Ledger, Known
  <2>3. Known(m.refills, t.sales) BY <1>6, <2>1 DEF Ledger
  <2>4. ASSUME NEW id
        PROVE  Balance(t, id) = Balance(m, id) + IF refill = id THEN count ELSE 0
    <3>1. SumOf(t.purchases, id) = SumOf(m.purchases, id) + Share(move, id)
      BY <1>2, <1>3, <1>6, Shape, SumAppend
    <3>2. SumOf(m.sales, id) \in Int /\ SumOf(m.purchases, id) \in Int
      BY <1>2, Shape, SumType
    <3>3. Share(move, id) = IF refill = id THEN count ELSE 0 BY <1>3 DEF Share
    <3> QED BY <1>2, <1>6, <3>1, <3>2, <3>3 DEF Balance
  <2>5. \A i \in 1 .. Len(m.refills) :
           t.refills[i].stock = m.refills[i].stock
               + IF i \in FirstOf(m.refills, refill) THEN count ELSE 0
    BY <1>4, <1>6
  <2> QED BY <1>2, <1>4, <1>6, <2>1, <2>2, <2>3, <2>4, <2>5, LedgerOne
<1>10. ASSUME store.faults = 0, ~store.negative, ~(count < 0) PROVE Positive(t)
  <2>1. Positive(m) BY <1>10 DEF StoreInv, Faultless, m
  <2>2. \A i \in 1 .. Len(t.purchases) : t.purchases[i].count >= 0
    BY <1>2, <1>3, <1>5, <1>6, <1>7, <1>10, <2>1 DEF Positive
  <2>3. ASSUME NEW i \in 1 .. Len(t.refills) PROVE t.refills[i].stock >= 0
    <3>1. i \in 1 .. Len(m.refills) BY <1>4, <1>6 DEF Alike
    <3>2. m.refills[i].stock \in Int /\ m.refills[i].stock >= 0
      <4>1. m.refills[i] \in RefillType BY <1>2, <3>1, Shape
      <4> QED BY <2>1, <3>1, <4>1 DEF RefillType, Positive
    <3>3. t.refills[i].stock = m.refills[i].stock
              + (IF i \in FirstOf(m.refills, refill) THEN count ELSE 0)
      BY <1>4, <1>6, <3>1
    <3> QED BY <1>2, <1>10, <3>2, <3>3
  <2> QED BY <1>6, <2>1, <2>2, <2>3 DEF Positive
<1>11. /\ <<"purchases", "refills">> \in Seq(Files)
       /\ \A f \in Files : ~Contains(<<"purchases", "refills">>, f) => t[f] = store.memory[f]
  <2>1. /\ Contains(<<"purchases", "refills">>, "purchases")
        /\ Contains(<<"purchases", "refills">>, "refills")
    BY DEF Contains
  <2> QED BY <1>6, <2>1 DEF Files, m
<1> QED BY <1>1, <1>2, <1>6, <1>8, <1>9, <1>10, <1>11, DoesInv

LEMMA DestroySale ==
    ASSUME StoreInv, NEW i \in DOMAIN sales, sales_destroy(i)
    PROVE  StoreInv'
<1> DEFINE m == store.memory
           move == sales[i]
           rs == AddStock(refills, move.refill, move.count)
           t == [m EXCEPT !.refills = AddStock(@, move.refill, move.count), !.sales = RemoveAt(@, i)]
           saves == IF Refill(move.refill) = {} THEN <<"sales">> ELSE <<"refills", "sales">>
<1>1. store.saves = <<>> /\ Does(t, saves, 0)
  BY InvShape DEF sales_destroy, Restored, At
<1>2. /\ m \in DataType /\ i \in 1 .. Len(m.sales) /\ move = m.sales[i] /\ Len(m.sales) \in Nat
      /\ move \in MoveType /\ move.count \in Int
  <2>1. /\ m \in DataType /\ i \in 1 .. Len(m.sales) /\ move = m.sales[i] BY InvShape, Shape
  <2>2. move \in MoveType /\ Len(m.sales) \in Nat BY <2>1, Shape
  <2> QED BY <2>1, <2>2 DEF MoveType
<1>3. /\ Alike(m.refills, rs)
      /\ \A j \in 1 .. Len(m.refills) :
            rs[j].stock = m.refills[j].stock
                            + IF j \in FirstOf(m.refills, move.refill) THEN move.count ELSE 0
  <2> HIDE DEF move
  <2> QED BY <1>2, InvShape, AddStockIs
<1>4. /\ RemoveAt(m.sales, i) \in Seq(MoveType)
      /\ Len(RemoveAt(m.sales, i)) = Len(m.sales) - 1
      /\ \A j \in 1 .. Len(m.sales) - 1 :
            RemoveAt(m.sales, i)[j] = IF j < i THEN m.sales[j] ELSE m.sales[j + 1]
  BY <1>2, Shape, Removed
<1>5. /\ t \in DataType /\ t.refills = rs /\ t.sales = RemoveAt(m.sales, i)
      /\ t.purchases = m.purchases /\ t.clients = m.clients /\ t.providers = m.providers
  <2>1. rs \in Seq(RefillType) BY <1>3 DEF Alike
  <2> HIDE DEF move
  <2> QED BY <1>2, <1>4, <2>1, InvShape DEF DataType
<1>6. /\ saves \in Seq(Files) /\ \A f \in Files : ~Contains(saves, f) => t[f] = store.memory[f]
  <2>1. Contains(saves, "sales") BY DEF Contains
  <2>2. Contains(saves, "refills") \/ t.refills = m.refills
    <3>1. CASE Refill(move.refill) = {}
      <4>1. rs = [j \in DOMAIN refills |-> refills[j]] BY <3>1 DEF AddStock
      <4> QED BY <1>5, <4>1, InvShape
    <3>2. CASE Refill(move.refill) # {}
      <4>1. saves = <<"refills", "sales">> BY <3>2
      <4> HIDE DEF saves
      <4> QED BY <4>1 DEF Contains
    <3> QED BY <3>1, <3>2
  <2>3. saves \in Seq(Files)
    <3>1. <<"sales">> \in Seq(Files) /\ <<"refills", "sales">> \in Seq(Files) BY DEF Files
    <3> QED BY <3>1
  <2> HIDE DEF saves, t
  <2> QED BY <1>5, <2>1, <2>2, <2>3 DEF Files
<1> HIDE DEF t, rs, m, move, saves
<1>7. ASSUME NEW j \in 1 .. Len(t.sales)
      PROVE  \E k \in 1 .. Len(m.sales) : k = (IF j < i THEN j ELSE j + 1) /\ t.sales[j] = m.sales[k]
  <2>1. j \in 1 .. Len(m.sales) /\ j + 1 \in 1 .. Len(m.sales) BY <1>2, <1>4, <1>5
  <2> QED BY <1>4, <1>5, <2>1
<1>8. Distinct(t.sales)
  <2> SUFFICES ASSUME NEW j \in 1 .. Len(t.sales), NEW l \in 1 .. Len(t.sales),
                      t.sales[j].id = t.sales[l].id
               PROVE  j = l
    BY DEF Distinct
  <2>1. PICK k \in 1 .. Len(m.sales) : k = (IF j < i THEN j ELSE j + 1) /\ t.sales[j] = m.sales[k]
    BY <1>7
  <2>2. PICK n \in 1 .. Len(m.sales) : n = (IF l < i THEN l ELSE l + 1) /\ t.sales[l] = m.sales[n]
    BY <1>7
  <2>3. k = n BY <2>1, <2>2 DEF StoreInv, Distinct, m
  <2> QED BY <1>2, <2>1, <2>2, <2>3
<1>9. ASSUME store.faults = 0 PROVE Ledger(t)
  <2>1. Ledger(m) BY <1>9 DEF StoreInv, Faultless, m
  <2>2. Known(m.refills, t.sales) BY <1>7, <2>1 DEF Ledger, Known
  <2>3. Known(m.refills, t.purchases) BY <1>5, <2>1 DEF Ledger
  <2>4. ASSUME NEW id
        PROVE  Balance(t, id) = Balance(m, id) + IF move.refill = id THEN move.count ELSE 0
    <3>1. SumOf(t.sales, id) = SumOf(m.sales, id) - Share(move, id)
      BY <1>2, <1>5, Shape, SumRemove
    <3>2. SumOf(m.sales, id) \in Int /\ SumOf(m.purchases, id) \in Int
      BY <1>2, Shape, SumType
    <3> QED BY <1>2, <1>5, <3>1, <3>2 DEF Balance, Share
  <2>5. \A j \in 1 .. Len(m.refills) :
           t.refills[j].stock = m.refills[j].stock
               + IF j \in FirstOf(m.refills, move.refill) THEN move.count ELSE 0
    BY <1>3, <1>5
  <2> QED BY <1>2, <1>3, <1>5, <2>1, <2>2, <2>3, <2>4, <2>5, LedgerOne
<1>10. ASSUME store.faults = 0, ~store.negative PROVE Positive(t)
  <2>1. Positive(m) BY <1>10 DEF StoreInv, Faultless, m
  <2>2. \A j \in 1 .. Len(t.sales) : t.sales[j].count >= 0 BY <1>7, <2>1 DEF Positive
  <2>3. ASSUME NEW j \in 1 .. Len(t.refills) PROVE t.refills[j].stock >= 0
    <3>1. j \in 1 .. Len(m.refills) BY <1>3, <1>5 DEF Alike
    <3>2. m.refills[j].stock \in Int /\ m.refills[j].stock >= 0
      <4>1. m.refills[j] \in RefillType BY <1>2, <3>1, Shape
      <4> QED BY <2>1, <3>1, <4>1 DEF RefillType, Positive
    <3>3. t.refills[j].stock = m.refills[j].stock
              + (IF j \in FirstOf(m.refills, move.refill) THEN move.count ELSE 0)
      BY <1>3, <1>5, <3>1
    <3>4. move.count >= 0 BY <1>2, <2>1 DEF Positive
    <3> QED BY <1>2, <3>2, <3>3, <3>4
  <2> QED BY <1>5, <2>1, <2>2, <2>3 DEF Positive
<1> QED BY <1>1, <1>2, <1>5, <1>6, <1>8, <1>9, <1>10, DoesInv

(* What is typed for a refill is one there is, or the one of the sale *)
LEMMA TypedIs ==
    ASSUME StoreInv, NEW i \in DOMAIN sales, NEW refill
    PROVE  /\ i \in 1 .. Len(sales) /\ sales[i] \in MoveType
           /\ Typed(refill, sales[i]) \in RefillIds
           /\ store.faults = 0 => FirstOf(refills, Typed(refill, sales[i])) # {}
<1>1. i \in 1 .. Len(sales) /\ sales[i] \in MoveType BY InvShape, Shape
<1>2. CASE Refill(refill) # {}
  <2>1. PICK k \in FirstOf(refills, refill) : TRUE BY <1>2, RefillIs
  <2>2. k \in 1 .. Len(refills) /\ refills[k].id = refill
    BY <2>1, InvShape, LenProperties DEF FirstOf
  <2>3. refills[k] \in RefillType BY <2>2, InvShape, ElementOfSeq
  <2>4. refill \in RefillIds BY <2>2, <2>3 DEF RefillType
  <2> QED BY <1>1, <1>2, <2>1, <2>4 DEF Typed
<1>3. CASE Refill(refill) = {}
  <2>1. store.faults = 0 => FirstOf(refills, sales[i].refill) # {}
    BY <1>1, InvShape DEF StoreInv, Faultless, Ledger, Known
  <2> QED BY <1>1, <1>3, <2>1 DEF Typed, MoveType
<1> QED BY <1>2, <1>3

LEMMA WithSale ==
    ASSUME StoreInv, NEW i \in 1 .. Len(sales), NEW move \in MoveType, move.id = sales[i].id
    PROVE  /\ [sales EXCEPT ![i] = move] \in Seq(MoveType)
           /\ Len([sales EXCEPT ![i] = move]) = Len(sales)
           /\ \A j \in 1 .. Len(sales) :
                 [sales EXCEPT ![i] = move][j] = IF j = i THEN move ELSE sales[j]
           /\ Distinct([sales EXCEPT ![i] = move])
<1> DEFINE other == [sales EXCEPT ![i] = move]
<1>1. /\ other \in Seq(MoveType) /\ Len(other) = Len(sales)
      /\ other[i] = move /\ \A j \in 1 .. Len(sales) : j # i => other[j] = sales[j]
  BY InvShape, ExceptSeq, LenProperties
<1> HIDE DEF other
<1>2. \A j \in 1 .. Len(sales) : other[j].id = sales[j].id BY <1>1
<1>3. Distinct(other)
  <2>1. Distinct(sales) BY InvShape DEF StoreInv
  <2> QED BY <1>1, <1>2, <2>1 DEF Distinct
<1> QED BY <1>1, <1>3 DEF other

LEMMA EditSale ==
    ASSUME CountsAssumption, StoreInv, NEW i \in DOMAIN sales, NEW refill,
           NEW count \in Counts \cup {0}, sales_edit(i, refill, count)
    PROVE  StoreInv'
<1> DEFINE m == store.memory
           old == sales[i]
           s == [sales[i] EXCEPT !.refill = Typed(refill, sales[i]), !.count = Wanted(count, sales[i])]
<1>1. /\ m \in DataType /\ i \in 1 .. Len(m.sales) /\ m.sales = sales /\ m.refills = refills
      /\ old = m.sales[i] /\ old \in MoveType /\ old.count \in Int /\ store.saves = <<>>
  <2>1. m \in DataType /\ m.sales = sales /\ m.refills = refills BY InvShape
  <2>2. old \in MoveType /\ i \in 1 .. Len(sales) BY TypedIs
  <2> QED BY <2>1, <2>2 DEF MoveType, sales_edit, At
<1>2. /\ s \in MoveType /\ s.id = old.id /\ s.refill = Typed(refill, old) /\ s.count \in Int
      /\ old.count >= 0 => s.count >= 0
  <2>1. Wanted(count, old) \in Int /\ (old.count >= 0 => Wanted(count, old) >= 0)
    BY <1>1 DEF Wanted, CountsAssumption
  <2>2. Typed(refill, old) \in RefillIds BY TypedIs
  <2> QED BY <1>1, <2>1, <2>2 DEF MoveType
<1> HIDE DEF s
<1>3. CASE Refill(s.refill) = {}
  <2> DEFINE t == [m EXCEPT !.sales = [sales EXCEPT ![i] = s]]
  <2>1. Throws(t, {"sales"})
    BY <1>1, <1>3 DEF sales_edit, s
  <2>2. /\ [sales EXCEPT ![i] = s] \in Seq(MoveType) /\ Distinct([sales EXCEPT ![i] = s])
    BY <1>1, <1>2, WithSale
  <2>3. /\ t \in DataType /\ t.sales = [sales EXCEPT ![i] = s] /\ t.refills = m.refills
        /\ t.purchases = m.purchases /\ t.clients = m.clients /\ t.providers = m.providers
    BY <1>1, <2>2 DEF DataType
  <2>4. store.faults # 0
    BY <1>2, <1>3, TypedIs, RefillIs
  <2>5. \A f \in Files : f \notin {"sales"} => t[f] = store.memory[f]
    BY <2>3 DEF Files
  <2> HIDE DEF t
  <2> QED BY <1>1, <2>1, <2>2, <2>3, <2>4, <2>5, ThrowsInv DEF Files
<1>4. CASE Refill(s.refill) # {}
  <2> DEFINE back == AddStock(refills, old.refill, old.count)
             available == Stock(back, s.refill)
             taken == IF available < s.count THEN available ELSE s.count
             new == [s EXCEPT !.count = taken]
             rs == AddStock(back, s.refill, -taken)
             t == [m EXCEPT !.sales = [sales EXCEPT ![i] = new], !.refills = rs]
  <2>1. Does(t, <<"refills", "sales">>, 0)
    BY <1>1, <1>4 DEF sales_edit, GivenBack, s
  <2>2. /\ Alike(refills, back)
        /\ \A j \in 1 .. Len(refills) :
              back[j].stock = refills[j].stock
                                + IF j \in FirstOf(refills, old.refill) THEN old.count ELSE 0
    <3> HIDE DEF old
    <3> QED BY <1>1, InvShape, AddStockIs
  <2>3. PICK k \in FirstOf(refills, s.refill) : TRUE BY <1>4, RefillIs
  <2>4. k \in 1 .. Len(refills) /\ available = back[k].stock /\ available \in Int
    <3>1. k \in 1 .. Len(refills) BY <2>3, InvShape, LenProperties DEF FirstOf
    <3>2. back[k] \in RefillType BY <2>2, <3>1, ElementOfSeq DEF Alike
    <3>3. available = back[k].stock
      <4> HIDE DEF back
      <4> QED BY <2>3, InvShape, StockIs
    <3> QED BY <3>1, <3>2, <3>3 DEF RefillType
  <2>5. taken \in Int /\ -taken \in Int /\ taken <= available
        /\ (available >= 0 /\ s.count >= 0 => taken >= 0)
    <3> HIDE DEF available
    <3> QED BY <1>2, <2>4
  <2> HIDE DEF available, taken
  <2>6. new \in MoveType /\ new.id = old.id /\ new.refill = s.refill /\ new.count = taken
    BY <1>2, <2>5 DEF MoveType
  <2>7. /\ Alike(refills, rs)
        /\ \A j \in 1 .. Len(refills) :
              rs[j].stock = back[j].stock + IF j \in FirstOf(refills, s.refill) THEN -taken ELSE 0
    <3> HIDE DEF back
    <3> QED BY <2>2, <2>5, AddStockIs
  <2>8. /\ [sales EXCEPT ![i] = new] \in Seq(MoveType)
        /\ Len([sales EXCEPT ![i] = new]) = Len(sales)
        /\ \A j \in 1 .. Len(sales) :
              [sales EXCEPT ![i] = new][j] = IF j = i THEN new ELSE sales[j]
        /\ Distinct([sales EXCEPT ![i] = new])
    <3> HIDE DEF new
    <3> QED BY <1>1, <2>6, WithSale
  <2>9. /\ t \in DataType /\ t.sales = [sales EXCEPT ![i] = new] /\ t.refills = rs
        /\ t.purchases = m.purchases /\ t.clients = m.clients /\ t.providers = m.providers
    <3>1. rs \in Seq(RefillType) BY <2>7 DEF Alike
    <3> HIDE DEF rs, new
    <3> QED BY <1>1, <2>8, <3>1 DEF DataType
  <2> HIDE DEF t, rs, new, back, m, old
  <2>10. ASSUME store.faults = 0 PROVE Ledger(t)
    <3>1. Ledger(m) BY <2>10 DEF StoreInv, Faultless, m
    <3>2. Known(m.refills, t.sales)
      BY <1>1, <2>3, <2>6, <2>8, <2>9, <3>1 DEF Ledger, Known
    <3>3. Known(m.refills, t.purchases) BY <2>9, <3>1 DEF Ledger
    <3>4. ASSUME NEW id
          PROVE  Balance(t, id) = Balance(m, id) + (IF old.refill = id THEN old.count ELSE 0)
                                                 + (IF s.refill = id THEN -taken ELSE 0)
      <4>1. SumOf(t.sales, id) = SumOf(m.sales, id) - Share(old, id) + Share(new, id)
        BY <1>1, <2>6, <2>9, Shape, SumExcept
      <4>2. SumOf(m.sales, id) \in Int /\ SumOf(m.purchases, id) \in Int
        BY <1>1, Shape, SumType
      <4>3. /\ Share(old, id) = IF old.refill = id THEN old.count ELSE 0
            /\ Share(new, id) = IF s.refill = id THEN taken ELSE 0
        BY <2>6 DEF Share
      <4> QED BY <1>1, <2>5, <2>9, <4>1, <4>2, <4>3 DEF Balance
    <3>5. ASSUME NEW j \in 1 .. Len(m.refills)
          PROVE  t.refills[j].stock = m.refills[j].stock
                     + (IF j \in FirstOf(m.refills, old.refill) THEN old.count ELSE 0)
                     + (IF j \in FirstOf(m.refills, s.refill) THEN -taken ELSE 0)
      <4>1. t.refills[j].stock = back[j].stock
                                   + IF j \in FirstOf(refills, s.refill) THEN -taken ELSE 0
        BY <1>1, <2>7, <2>9
      <4>2. back[j].stock = refills[j].stock
                              + IF j \in FirstOf(refills, old.refill) THEN old.count ELSE 0
        BY <1>1, <2>2
      <4> QED BY <1>1, <4>1, <4>2
    <3>6. Alike(m.refills, t.refills) BY <1>1, <2>7, <2>9
    <3>7. t \in DataType /\ m \in DataType /\ old.count \in Int BY <1>1, <2>9
    <3> DEFINE y == -taken
               a == old.refill
               b == s.refill
               x == old.count
    <3>8. y \in Int BY <2>5
    <3>9. BalanceMoves(m, t, a, x, b, y) /\ StocksMove(m, t, a, x, b, y)
      BY <3>4, <3>5 DEF BalanceMoves, StocksMove
    <3>10. x \in Int BY <3>7
    <3> HIDE DEF x, y, a, b
    <3> QED BY <3>1, <3>2, <3>3, <3>6, <3>7, <3>8, <3>9, <3>10, LedgerTwo
  <2>11. ASSUME store.faults = 0, ~store.negative PROVE Positive(t)
    <3>1. Positive(m) BY <2>11 DEF StoreInv, Faultless, m
    <3>2. ASSUME NEW j \in 1 .. Len(refills)
          PROVE  back[j].stock \in Int /\ back[j].stock >= 0
      <4>1. refills[j].stock \in Int /\ refills[j].stock >= 0
        <5>1. refills[j] \in RefillType BY InvShape, ElementOfSeq
        <5> QED BY <1>1, <3>1, <5>1 DEF RefillType, Positive
      <4>2. old.count >= 0 BY <1>1, <3>1 DEF Positive
      <4>3. back[j].stock = refills[j].stock
                              + IF j \in FirstOf(refills, old.refill) THEN old.count ELSE 0
        BY <2>2
      <4> QED BY <1>1, <4>1, <4>2, <4>3
    <3>3. taken >= 0
      <4>1. s.count >= 0 BY <1>1, <1>2, <3>1 DEF Positive
      <4> QED BY <2>4, <2>5, <3>2, <4>1
    <3>4. ASSUME NEW j \in 1 .. Len(t.refills) PROVE t.refills[j].stock >= 0
      <4>1. j \in 1 .. Len(refills) BY <2>7, <2>9 DEF Alike
      <4>2. CASE j \in FirstOf(refills, s.refill)
        <5>1. j = k BY <2>3, <4>2, InvShape, FirstIsOne
        <5>2. t.refills[j].stock = back[k].stock + (-taken) BY <2>7, <2>9, <4>1, <4>2, <5>1
        <5> QED BY <2>4, <2>5, <3>2, <5>2
      <4>3. CASE j \notin FirstOf(refills, s.refill)
        BY <2>7, <2>9, <3>2, <4>1, <4>3
      <4> QED BY <4>2, <4>3
    <3>5. \A j \in 1 .. Len(t.sales) : t.sales[j].count >= 0
      BY <1>1, <2>6, <2>8, <2>9, <3>1, <3>3 DEF Positive
    <3>6. \A j \in 1 .. Len(t.purchases) : t.purchases[j].count >= 0
      BY <2>9, <3>1 DEF Positive
    <3> QED BY <3>4, <3>5, <3>6 DEF Positive
  <2>12. /\ <<"refills", "sales">> \in Seq(Files)
         /\ \A f \in Files : ~Contains(<<"refills", "sales">>, f) => t[f] = store.memory[f]
    <3>1. Contains(<<"refills", "sales">>, "sales") /\ Contains(<<"refills", "sales">>, "refills")
      BY DEF Contains
    <3>2. <<"refills", "sales">> \in Seq(Files) BY DEF Files
    <3>3. ASSUME NEW f \in Files, ~Contains(<<"refills", "sales">>, f)
          PROVE  t[f] = store.memory[f]
      <4>1. f # "sales" /\ f # "refills" BY <3>1, <3>3
      <4> QED BY <2>9, <4>1 DEF Files, m
    <3> QED BY <3>2, <3>3
  <2> DEFINE none == 0
  <2>13. Does(t, <<"refills", "sales">>, none) /\ none \in Int BY <2>1 DEF t, rs, new, back, m, old
  <2>14. Distinct(t.sales) BY <2>8, <2>9
  <2> HIDE DEF none
  <2> QED BY <1>1, <2>9, <2>10, <2>11, <2>12, <2>13, <2>14, DoesInv
<1> QED BY <1>3, <1>4

(* An edit that is cut short is a fault: the books may be wrong from then  *)
LEMMA GarbledEdit ==
    ASSUME StoreInv, NEW i \in DOMAIN sales, NEW refill, sales_edit_garbled(i, refill)
    PROVE  StoreInv'
<1> DEFINE move == [sales[i] EXCEPT !.refill = Typed(refill, sales[i])]
           back == GivenBack(i)
<1>1. /\ i \in 1 .. Len(sales) /\ sales[i] \in MoveType /\ sales[i].count \in Int
      /\ Typed(refill, sales[i]) \in RefillIds
  BY TypedIs DEF MoveType
<1>2. move \in MoveType /\ move.id = sales[i].id BY <1>1 DEF MoveType
<1>3. back \in Seq(RefillType)
  <2>1. Alike(refills, AddStock(refills, sales[i].refill, sales[i].count))
    BY <1>1, InvShape, AddStockIs
  <2> QED BY <2>1 DEF GivenBack, Alike
<1>4. /\ [sales EXCEPT ![i] = move] \in Seq(MoveType) /\ Distinct([sales EXCEPT ![i] = move])
  <2> HIDE DEF move
  <2> QED BY <1>1, <1>2, WithSale
<1> DEFINE t == [store.memory EXCEPT !.sales = [sales EXCEPT ![i] = move], !.refills = back]
<1>5. /\ t \in DataType /\ t.sales = [sales EXCEPT ![i] = move]
      /\ t.purchases = store.memory.purchases /\ t.clients = store.memory.clients
      /\ t.providers = store.memory.providers
  <2> HIDE DEF move, back
  <2> QED BY <1>3, <1>4, InvShape DEF DataType
<1>6. store' = [store EXCEPT !.memory = t, !.menu = "main", !.dirty = @ \cup {"sales", "refills"},
                             !.faults = @ + 1]
  BY <1>1, InvShape DEF sales_edit_garbled, StoreInv, TypeInv, DataType, sales
<1> HIDE DEF t
<1>7. TypeInv'
  <2>1. store.dirty \cup {"sales", "refills"} \in SUBSET Files /\ store.faults + 1 \in Nat
    BY DEF StoreInv, TypeInv, Files
  <2> QED BY <1>5, <1>6, <2>1 DEF StoreInv, TypeInv
<1>8. /\ store'.memory = t /\ store'.dirty = store.dirty \cup {"sales", "refills"}
      /\ store'.saves = store.saves /\ store'.disk = store.disk /\ store'.faults = store.faults + 1
  BY <1>6 DEF StoreInv, TypeInv
<1>9. Agreed'
  BY <1>5, <1>8 DEF StoreInv, Agreed, Files
<1>10. store'.faults # 0 BY <1>8 DEF StoreInv, TypeInv
<1> QED BY <1>4, <1>5, <1>7, <1>8, <1>9, <1>10 DEF StoreInv, Faultless

(* A refill of which nothing was moved before it was there *)
LEMMA ImportRefill ==
    ASSUME CountsAssumption, StoreInv, NEW id \in RefillIds, NEW stock \in Stocks,
           refills_import(id, stock)
    PROVE  StoreInv'
<1> DEFINE m == store.memory
           new == [id |-> id, stock |-> stock, imported |-> stock]
           t == [m EXCEPT !.refills = Append(@, new)]
<1>1. store.saves = <<>> /\ Does(t, <<"refills">>, 0) BY InvShape DEF refills_import, At
<1>2. /\ m \in DataType /\ m.refills \in Seq(RefillType) /\ new \in RefillType
      /\ Len(m.refills) \in Nat /\ stock \in Nat
  <2>1. m \in DataType BY InvShape
  <2>2. stock \in Nat /\ stock \in Int BY DEF CountsAssumption
  <2>3. new \in RefillType BY <2>2 DEF RefillType
  <2> HIDE DEF m, new
  <2> QED BY <2>1, <2>2, <2>3, Shape
<1>3. /\ Append(m.refills, new) \in Seq(RefillType)
      /\ Len(Append(m.refills, new)) = Len(m.refills) + 1
      /\ Append(m.refills, new)[Len(m.refills) + 1] = new
      /\ \A i \in 1 .. Len(m.refills) : Append(m.refills, new)[i] = m.refills[i]
  <2> HIDE DEF new
  <2> QED BY <1>2, AppendProperties
<1>4. /\ t \in DataType /\ t.refills = Append(m.refills, new) /\ t.sales = m.sales
      /\ t.purchases = m.purchases /\ t.clients = m.clients /\ t.providers = m.providers
  <2> HIDE DEF new
  <2> QED BY <1>2, <1>3 DEF DataType
<1>5. new.id = id /\ new.stock = stock /\ new.imported = stock OBVIOUS
<1> DEFINE none == 0
<1>13. Does(t, <<"refills">>, none) /\ store.saves = <<>> /\ none \in Int BY <1>1
<1> HIDE DEF t, new, m, none
<1> DEFINE k == Len(m.refills) + 1
<1>6. /\ Len(t.refills) = k /\ t.refills[k] = new /\ DOMAIN t.refills = 1 .. k
      /\ DOMAIN m.refills = 1 .. Len(m.refills)
      /\ \A i \in 1 .. Len(m.refills) : t.refills[i] = m.refills[i] /\ i \in 1 .. k
      /\ \A i \in 1 .. k : i \in 1 .. Len(m.refills) \/ i = k
  BY <1>2, <1>3, <1>4, LenProperties
<1>7. ASSUME NEW x, NEW i \in 1 .. Len(m.refills)
      PROVE  i \in FirstOf(t.refills, x) <=> i \in FirstOf(m.refills, x)
  <2>1. \A j \in 1 .. i - 1 : j \in 1 .. Len(m.refills) BY <1>2
  <2> QED BY <1>6, <2>1 DEF FirstOf
<1>8. \A x : FirstOf(m.refills, x) # {} => FirstOf(t.refills, x) # {}
  <2>1. \A x : FirstOf(m.refills, x) \subseteq 1 .. Len(m.refills) BY <1>6 DEF FirstOf
  <2> QED BY <1>7, <2>1
<1>9. ASSUME store.faults = 0 PROVE Ledger(t)
  <2>1. Ledger(m) BY <1>9 DEF StoreInv, Faultless, m
  <2>2. Known(t.refills, t.sales) /\ Known(t.refills, t.purchases)
    BY <1>4, <1>8, <2>1 DEF Ledger, Known
  <2>3. \A x : Balance(t, x) = Balance(m, x) BY <1>4 DEF Balance
  <2>4. ASSUME NEW i \in 1 .. Len(m.refills)
        PROVE  t.refills[i].stock = t.refills[i].imported + Moved(t, i)
    BY <1>6, <1>7, <2>1, <2>3 DEF Ledger, Moved
  <2>5. t.refills[k].stock = t.refills[k].imported + Moved(t, k)
    <3>1. CASE FirstOf(m.refills, id) = {}
      <4>1. /\ \A i \in 1 .. Len(m.sales) : m.sales[i].refill # id
            /\ \A i \in 1 .. Len(m.purchases) : m.purchases[i].refill # id
        BY <2>1, <3>1 DEF Ledger, Known
      <4>2. SumOf(m.sales, id) = 0 /\ SumOf(m.purchases, id) = 0
        BY <1>2, <4>1, Shape, SumNothing
      <4>3. Balance(t, id) = 0 BY <2>3, <4>2 DEF Balance
      <4>4. Moved(t, k) = 0 BY <1>5, <1>6, <4>3 DEF Moved
      <4> QED BY <1>2, <1>5, <1>6, <4>4
    <3>2. CASE FirstOf(m.refills, id) # {}
      <4>1. PICK j \in FirstOf(m.refills, id) : TRUE BY <3>2
      <4>2. j \in 1 .. k - 1 /\ t.refills[j].id = id BY <1>2, <1>6, <4>1 DEF FirstOf
      <4>3. k \notin FirstOf(t.refills, id) BY <4>2 DEF FirstOf
      <4>4. Moved(t, k) = 0 BY <1>5, <1>6, <4>3 DEF Moved
      <4> QED BY <1>2, <1>5, <1>6, <4>4
    <3> QED BY <3>1, <3>2
  <2>6. \A i \in 1 .. Len(t.refills) : t.refills[i].stock = t.refills[i].imported + Moved(t, i)
    BY <1>6, <2>4, <2>5
  <2> QED BY <2>2, <2>6 DEF Ledger
<1>10. ASSUME store.faults = 0, ~store.negative PROVE Positive(t)
  <2>1. Positive(m) BY <1>10 DEF StoreInv, Faultless, m
  <2> QED BY <1>2, <1>4, <1>5, <1>6, <2>1 DEF Positive
<1>11. /\ <<"refills">> \in Seq(Files)
       /\ \A f \in Files : ~Contains(<<"refills">>, f) => t[f] = store.memory[f]
  <2>1. Contains(<<"refills">>, "refills") BY DEF Contains
  <2>2. \A f \in Files : f # "refills" => t[f] = m[f] BY <1>4 DEF Files
  <2> QED BY <2>1, <2>2 DEF Files, m
<1>12. Distinct(t.sales) BY <1>4 DEF StoreInv, m
<1> QED BY <1>4, <1>9, <1>10, <1>11, <1>12, <1>13, DoesInv

LEMMA ImportPeople ==
    ASSUME StoreInv, clients_import \/ providers_import PROVE StoreInv'
<1> SUFFICES ASSUME NEW f \in {"clients", "providers"}, store.saves = <<>>,
                    Does([store.memory EXCEPT ![f] = TRUE], <<f>>, 0)
             PROVE  StoreInv'
  BY DEF clients_import, providers_import, At
<1> DEFINE m == store.memory
           t == [m EXCEPT ![f] = TRUE]
<1>1. m \in DataType BY InvShape
<1>2. /\ t \in DataType /\ t.refills = m.refills /\ t.sales = m.sales
      /\ t.purchases = m.purchases /\ \A g \in Files : g # f => t[g] = m[g]
  <2>1. CASE f = "clients" BY <1>1, <2>1 DEF DataType, Files
  <2>2. CASE f = "providers" BY <1>1, <2>2 DEF DataType, Files
  <2> QED BY <2>1, <2>2
<1>3. /\ <<f>> \in Seq(Files)
      /\ \A g \in Files : ~Contains(<<f>>, g) => t[g] = store.memory[g]
  <2>1. Contains(<<f>>, f) BY DEF Contains
  <2>2. f \in Files BY DEF Files
  <2>3. <<f>> \in Seq(Files) BY <2>2
  <2>4. ASSUME NEW g \in Files, ~Contains(<<f>>, g) PROVE t[g] = store.memory[g]
    <3>1. g # f BY <2>1, <2>4
    <3> HIDE DEF t
    <3> QED BY <1>2, <3>1
  <2> HIDE DEF t
  <2> QED BY <2>3, <2>4
<1> DEFINE none == 0
<1>6. Does(t, <<f>>, none) /\ store.saves = <<>> /\ none \in Int OBVIOUS
<1> HIDE DEF t, none
<1>4. store.faults = 0 => Ledger(t) /\ (~store.negative => Positive(t))
  <2>1. Ledger(m) => Ledger(t) BY <1>2 DEF Ledger, Known, Moved, Balance
  <2>2. Positive(m) => Positive(t) BY <1>2 DEF Positive
  <2> QED BY <2>1, <2>2 DEF StoreInv, Faultless
<1>5. Distinct(t.sales) BY <1>2 DEF StoreInv
<1> QED BY <1>2, <1>3, <1>4, <1>5, <1>6, DoesInv

(* A save that fails makes its file one that is known to be behind *)
LEMMA Save ==
    ASSUME StoreInv, save PROVE StoreInv'
<1> DEFINE f == Head(store.saves)
<1>1. /\ f \in Files /\ Tail(store.saves) \in Seq(Files) /\ store.saves \in Seq(Files)
      /\ store.saves # <<>>
      /\ \A g \in Files : Contains(store.saves, g) => g = f \/ Contains(Tail(store.saves), g)
  <2>1. store.saves \in Seq(Files) /\ store.saves # <<>> BY DEF save, StoreInv, TypeInv
  <2>2. ASSUME NEW g \in Files, Contains(store.saves, g)
        PROVE  g = f \/ Contains(Tail(store.saves), g)
    <3>1. PICK i \in 1 .. Len(store.saves) : store.saves[i] = g BY <2>2 DEF Contains
    <3>2. /\ Len(store.saves) \in Nat /\ Len(Tail(store.saves)) = Len(store.saves) - 1
          /\ f = store.saves[1]
          /\ \A j \in 1 .. Len(Tail(store.saves)) : Tail(store.saves)[j] = store.saves[j + 1]
      BY <2>1, HeadTailProperties, LenProperties
    <3>3. CASE i = 1 BY <3>1, <3>2, <3>3
    <3>4. CASE i # 1
      <4>1. i - 1 \in 1 .. Len(Tail(store.saves)) /\ (i - 1) + 1 = i BY <3>1, <3>2, <3>4
      <4> QED BY <3>1, <3>2, <4>1 DEF Contains
    <3> QED BY <3>3, <3>4
  <2> QED BY <2>1, <2>2, HeadTailProperties
<1>2. PICK data \in {store.memory[f], store.disk[f], Nothing[f]}, ok \in BOOLEAN :
         Saved(f, data, ok) /\ (ok => data = store.memory[f])
  <2>1. CASE Saved(f, store.memory[f], TRUE) BY <2>1
  <2>2. CASE \E data \in {store.disk[f], Nothing[f]} : Saved(f, data, FALSE)
    <3>1. PICK data \in {store.disk[f], Nothing[f]} : Saved(f, data, FALSE) BY <2>2
    <3> HIDE DEF f
    <3> QED BY <3>1
  <2> QED BY <2>1, <2>2 DEF save
<1> HIDE DEF f
<1>3. store.memory \in DataType /\ store.disk \in DataType BY InvShape
<1>4. [store.disk EXCEPT ![f] = data] \in DataType
  <2>1. Nothing \in DataType BY DEF Nothing, DataType
  <2>2. CASE f = "clients" BY <1>2, <1>3, <2>1, <2>2 DEF DataType
  <2>3. CASE f = "providers" BY <1>2, <1>3, <2>1, <2>3 DEF DataType
  <2>4. CASE f = "refills" BY <1>2, <1>3, <2>1, <2>4 DEF DataType
  <2>5. CASE f = "purchases" BY <1>2, <1>3, <2>1, <2>5 DEF DataType
  <2>6. CASE f = "sales" BY <1>2, <1>3, <2>1, <2>6 DEF DataType
  <2> QED BY <1>1, <2>2, <2>3, <2>4, <2>5, <2>6 DEF Files
<1> DEFINE disk == [store.disk EXCEPT ![f] = data]
<1>5. /\ store'.memory = store.memory /\ store'.disk = disk
      /\ store'.saves = Tail(store.saves) /\ store'.negative = store.negative
      /\ store'.dirty = (IF ok THEN store.dirty \ {f} ELSE store.dirty \cup {f})
      /\ store'.faults = (IF ok THEN store.faults ELSE store.faults + 1)
      /\ store'.menu = store.menu
      /\ DOMAIN store' = DOMAIN store
  BY <1>2 DEF Saved, StoreInv, TypeInv
<1>6. TypeInv'
  <2>1. /\ (IF ok THEN store.dirty \ {f} ELSE store.dirty \cup {f}) \in SUBSET Files
        /\ (IF ok THEN store.faults ELSE store.faults + 1) \in Nat
    BY <1>1 DEF StoreInv, TypeInv
  <2> QED BY <1>1, <1>2, <1>4, <2>1 DEF Saved, StoreInv, TypeInv
<1>7. disk[f] = data /\ \A g \in Files : g # f => disk[g] = store.disk[g]
  BY <1>1, <1>3 DEF DataType, Files
<1> HIDE DEF disk
<1>8. Agreed'
  <2> SUFFICES ASSUME NEW g \in Files, g \notin store'.dirty, ~Contains(store'.saves, g)
               PROVE  store'.disk[g] = store'.memory[g]
    BY DEF Agreed
  <2>1. CASE g = f BY <1>2, <1>5, <1>7, <2>1
  <2>2. CASE g # f
    <3>1. g \notin store.dirty /\ ~Contains(store.saves, g) BY <1>1, <1>5, <2>2
    <3> QED BY <1>5, <1>7, <2>2, <3>1 DEF StoreInv, Agreed
  <2> QED BY <2>1, <2>2
<1>9. Faultless'
  <2>1. store.faults \in Nat BY DEF StoreInv, TypeInv
  <2>2. CASE ok BY <1>5, <2>2 DEF StoreInv, Faultless
  <2>3. CASE ~ok BY <1>5, <2>1, <2>3 DEF Faultless
  <2> QED BY <2>2, <2>3
<1>10. Distinct(disk.sales)
  <2>1. Distinct(<<>>) BY DEF Distinct
  <2>2. CASE f = "sales"
    <3>1. Nothing.sales = <<>> BY DEF Nothing
    <3> QED BY <1>2, <1>7, <2>1, <2>2, <3>1 DEF StoreInv
  <2>3. CASE f # "sales" BY <1>7, <2>3 DEF StoreInv, Files
  <2> QED BY <2>2, <2>3
<1> QED BY <1>5, <1>6, <1>8, <1>9, <1>10 DEF StoreInv

LEMMA Restart ==
    ASSUME StoreInv, restart PROVE StoreInv'
<1>1. /\ store'.memory = store.disk /\ store'.disk = store.disk /\ store'.saves = <<>>
      /\ store'.dirty = {} /\ store'.negative = store.negative
      /\ store'.faults = IF store.saves = <<>> THEN store.faults ELSE store.faults + 1
  BY DEF restart, StoreInv, TypeInv
<1>2. TypeInv'
  <2>1. /\ (IF store.saves = <<>> THEN store.faults ELSE store.faults + 1) \in Nat
        /\ <<>> \in Seq(Files) /\ {} \in SUBSET Files
    BY DEF StoreInv, TypeInv
  <2> QED BY <2>1 DEF restart, StoreInv, TypeInv
<1>3. Agreed' BY <1>1 DEF Agreed
<1>4. Faultless'
  <2>1. store.faults \in Nat BY DEF StoreInv, TypeInv
  <2>2. CASE store'.faults = 0
    <3>1. store.faults = 0 /\ store.saves = <<>> BY <1>1, <2>1, <2>2
    <3>2. \A g : ~Contains(store.saves, g) BY <3>1 DEF Contains
    <3>3. \A g \in Files : store.disk[g] = store.memory[g]
      BY <3>1, <3>2 DEF StoreInv, Agreed, Faultless
    <3>4. store.disk = store.memory
      <4> DEFINE m == store.memory
                 d == store.disk
      <4>1. /\ m = [clients |-> m.clients, providers |-> m.providers, refills |-> m.refills,
                   purchases |-> m.purchases, sales |-> m.sales]
            /\ d = [clients |-> d.clients, providers |-> d.providers, refills |-> d.refills,
                   purchases |-> d.purchases, sales |-> d.sales]
        <5>1. m \in DataType /\ d \in DataType BY InvShape
        <5> HIDE DEF m, d
        <5> QED BY <5>1 DEF DataType
      <4>2. /\ d.clients = m.clients /\ d.providers = m.providers /\ d.refills = m.refills
            /\ d.purchases = m.purchases /\ d.sales = m.sales
        BY <3>3 DEF Files
      <4> HIDE DEF m, d
      <4>3. d = m BY <4>1, <4>2
      <4> QED BY <4>3 DEF d, m
    <3> QED BY <1>1, <3>1, <3>4 DEF StoreInv, Faultless
  <2> QED BY <2>2 DEF Faultless
<1> QED BY <1>1, <1>2, <1>3, <1>4 DEF StoreInv
-----------------------------------------------------------------------------
(* The invariant holds of the specification *)

LEMMA InvInit ==
    ASSUME Init PROVE StoreInv
<1>1. /\ store.memory = Nothing /\ store.disk = Nothing /\ store.saves = <<>>
      /\ store.dirty = {} /\ store.faults = 0
  BY DEF Init
<1>2. Nothing.sales = <<>> /\ Nothing.purchases = <<>> /\ Nothing.refills = <<>>
  BY DEF Nothing
<1>3. TypeInv
  <2>1. Nothing \in DataType BY DEF Nothing, DataType
  <2> QED BY <2>1 DEF Init, TypeInv
<1>4. Agreed BY <1>1 DEF Agreed
<1>5. Ledger(Nothing) BY <1>2 DEF Ledger, Known
<1>6. Positive(Nothing) BY <1>2 DEF Positive
<1>7. Distinct(<<>>) BY DEF Distinct
<1> QED BY <1>1, <1>2, <1>3, <1>4, <1>5, <1>6, <1>7 DEF StoreInv, Faultless

(* Moving between the menus touches nothing else *)
LEMMA Menus ==
    ASSUME StoreInv, NEW menu \in {"main", "sales", "purchases"},
           store' = [store EXCEPT !.menu = menu]
    PROVE  StoreInv'
<1>1. /\ store'.memory = store.memory /\ store'.disk = store.disk /\ store'.saves = store.saves
      /\ store'.dirty = store.dirty /\ store'.faults = store.faults
      /\ store'.negative = store.negative
  BY DEF StoreInv, TypeInv
<1>2. TypeInv' BY DEF StoreInv, TypeInv
<1>3. Agreed' BY <1>1 DEF StoreInv, Agreed
<1>4. Faultless' BY <1>1 DEF StoreInv, Faultless
<1> QED BY <1>1, <1>2, <1>3, <1>4 DEF StoreInv

LEMMA InvNext ==
    ASSUME CountsAssumption, StoreInv, [Next]_store PROVE StoreInv'
<1>1. ASSUME NEW refill \in RefillIds, NEW count \in Counts,
             sales_create(refill, count) \/ purchases_create(refill, count)
      PROVE  StoreInv'
  BY <1>1, CreateSale, CreatePurchase
<1>2. ASSUME NEW i \in DOMAIN sales, sales_destroy(i) PROVE StoreInv' BY <1>2, DestroySale
<1>3. ASSUME NEW i \in DOMAIN sales, NEW refill \in RefillIds \cup {""},
             NEW count \in Counts \cup {0},
             sales_edit(i, refill, count) \/ sales_edit_garbled(i, refill)
      PROVE  StoreInv'
  BY <1>3, EditSale, GarbledEdit
<1>4. CASE purchases_destroy
  <2> DEFINE m == store.memory
             none == {}
  <2>1. /\ store.saves = <<>> /\ Throws(m, none) /\ m \in DataType /\ none \in SUBSET Files
        /\ Distinct(m.sales)
    BY <1>4, InvShape DEF purchases_destroy, At, StoreInv
  <2>2. \A f \in Files : f \notin none => m[f] = store.memory[f] OBVIOUS
  <2>3. store.faults = 0 => m = store.memory /\ none = {} OBVIOUS
  <2> HIDE DEF none, m
  <2> QED BY <2>1, <2>2, <2>3, ThrowsInv
<1>5. CASE clients_import \/ providers_import BY <1>5, ImportPeople
<1>6. ASSUME NEW id \in RefillIds, NEW stock \in Stocks, refills_import(id, stock)
      PROVE  StoreInv'
  BY <1>6, ImportRefill
<1>7. CASE save BY <1>7, Save
<1>8. CASE restart BY <1>8, Restart
<1>9. CASE Leave BY <1>9, Menus DEF Leave
<1>10. ASSUME NEW menu \in {"sales", "purchases"}, Enter(menu) PROVE StoreInv'
  BY <1>10, Menus DEF Enter
<1>11. CASE UNCHANGED store
  BY <1>11 DEF StoreInv, TypeInv, Agreed, Faultless
<1> QED BY <1>1, <1>2, <1>3, <1>4, <1>5, <1>6, <1>7, <1>8, <1>9, <1>10, <1>11 DEF Next

(* The books and the files are as StoreInv says, in every state, whatever   *)
(* is typed, fails or ends: sales_create, sales_edit, purchases_create and   *)
(* the saves of FileBasedRepository.                                          *)
THEOREM StoreInvariant ==
    ASSUME CountsAssumption PROVE Spec => []StoreInv
<1>1. Init => StoreInv BY InvInit
<1>2. StoreInv /\ [Next]_store => StoreInv' BY InvNext
<1> QED BY <1>1, <1>2, PTL DEF Spec

(* Until a save fails, the program dies between two of them or an edit is   *)
(* cut short, the stock of every refill is what was imported and purchased   *)
(* less what was sold, and not negative unless a negative count was typed.    *)
THEOREM StocksAlwaysAgree ==
    ASSUME CountsAssumption PROVE Spec => []StocksAgree
<1>1. ASSUME StoreInv PROVE StocksAgree
  <2> SUFFICES ASSUME store.faults = 0, NEW i \in 1 .. Len(refills)
               PROVE  LET id == refills[i].id
                          moved == IF i \in Refill(id) THEN SumOf(purchases, id) - SumOf(sales, id)
                                                       ELSE 0 IN
                      /\ refills[i].stock = refills[i].imported + moved
                      /\ ~store.negative => refills[i].stock >= 0
    BY <1>1, InvShape, LenProperties DEF StocksAgree
  <2>1. refills = store.memory.refills /\ sales = store.memory.sales
        /\ purchases = store.memory.purchases
    BY <1>1, InvShape
  <2>2. Ledger(store.memory) /\ (~store.negative => Positive(store.memory))
    BY <1>1 DEF StoreInv, Faultless
  <2>3. refills[i].stock = refills[i].imported + Moved(store.memory, i)
    BY <2>1, <2>2 DEF Ledger
  <2>4. ~store.negative => refills[i].stock >= 0 BY <2>1, <2>2 DEF Positive
  <2> QED BY <2>1, <2>3, <2>4, RefillIs DEF Moved, Balance
<1> QED BY <1>1, StoreInvariant, PTL

(* Outside an action a file that is not known to be behind holds what the    *)
(* memory holds, none is behind before the first fault, and no two sales have *)
(* the same id: getNewId, and the order in which the files are saved.          *)
THEOREM FilesAlwaysAgree ==
    ASSUME CountsAssumption PROVE Spec => []FilesAgree
<1>1. ASSUME StoreInv PROVE FilesAgree
  <2>1. DOMAIN Nothing = Files BY DEF Nothing, Files
  <2>2. \A f \in DOMAIN Nothing :
          f \notin store.dirty /\ ~Contains(store.saves, f) => store.disk[f] = store.memory[f]
    BY <1>1, <2>1 DEF StoreInv, Agreed
  <2>3. store.faults = 0 => store.dirty = {} BY <1>1 DEF StoreInv, Faultless
  <2>4. IsInjective([i \in DOMAIN sales |-> sales[i].id])
    <3> DEFINE ids == [i \in DOMAIN sales |-> sales[i].id]
    <3>1. DOMAIN sales = 1 .. Len(sales) /\ Distinct(sales)
      BY <1>1, InvShape, LenProperties DEF StoreInv
    <3>2. DOMAIN ids = 1 .. Len(sales) /\ \A i \in DOMAIN ids : ids[i] = sales[i].id BY <3>1
    <3> HIDE DEF ids
    <3>3. \A a, b \in DOMAIN ids : ids[a] = ids[b] => a = b BY <3>1, <3>2 DEF Distinct
    <3> QED BY <3>3 DEF IsInjective, ids
  <2> QED BY <2>2, <2>3, <2>4 DEF FilesAgree
<1> QED BY <1>1, StoreInvariant, PTL

(* The stock agrees with the purchases and the sales, and the files with the *)
(* memory: together, what the runs check of the controllers and repositories. *)
THEOREM BooksAgree ==
    ASSUME CountsAssumption PROVE Spec => []StockAgrees
BY StocksAlwaysAgree, FilesAlwaysAgree, PTL DEF StockAgrees
=============================================================================
