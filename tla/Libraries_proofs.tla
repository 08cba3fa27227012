--------------------------- MODULE Libraries_proofs --------------------------
(***************************************************************************)
(* Theorems about the containers whose models are without recursion on     *)
(* data: the queue in a block (ContiguousQueue), the stack in a block       *)
(* (ContiguousStack), the disjoint sets (DisjointSets), the file that is     *)
(* organised as a hash (HashFile), the queue and stack of nodes               *)
(* (LinkedNodes) and the binary heap (BinaryHeap), for every value of their   *)
(* constants.                                                                 *)
(***************************************************************************)
EXTENDS ContiguousQueue, FiniteSets, FiniteSetTheorems, SequenceTheorems, WellFoundedInduction, TLAPS

CONSTANTS
    STACK_INITIAL_SIZE,                                              (* of the stack         *)
    DISJOINT_SETS_INITIAL_CAPACITY, MaxSets,                         (* of the disjoint sets *)
    Dnis, REGS_PER_BUCKET, BUCKETS, OVERFLOW_BUCKETS, MaxAlumns,     (* of the file          *)
    Addresses,                                                       (* of the nodes         *)
    Priorities, BINARY_HEAP_INITIAL_CAPACITY, MaxSize                (* of the heap          *)

VARIABLES stack, disjoint, hashed, linked, heap

Stack == INSTANCE ContiguousStack
Disjoint == INSTANCE DisjointSets
Files == INSTANCE HashFile
Nodes == INSTANCE LinkedNodes
Heaps == INSTANCE BinaryHeap
-----------------------------------------------------------------------------
(* A sequence with one more element *)
LEMMA OneMore ==
    ASSUME NEW n \in Nat, NEW s, s = [i \in 1 .. n |-> s[i]], NEW v
    PROVE  Append(s, v) = [i \in 1 .. n + 1 |-> IF i = n + 1 THEN v ELSE s[i]]
<1> DEFINE S == {s[i] : i \in 1 .. n} \cup {v}
<1>1. s \in [1 .. n -> S] /\ v \in S OBVIOUS
<1> HIDE DEF S
<1>2. s \in Seq(S) /\ Len(s) = n BY <1>1
<1>3. /\ Append(s, v) \in Seq(S) /\ Len(Append(s, v)) = n + 1
      /\ \A i \in 1 .. n : Append(s, v)[i] = s[i]
      /\ Append(s, v)[n + 1] = v
  BY <1>1, <1>2, AppendProperties
<1>4. Append(s, v) = [i \in 1 .. n + 1 |-> Append(s, v)[i]] BY <1>3, LenProperties
<1>5. \A i \in 1 .. n + 1 : i \in 1 .. n \/ i = n + 1 OBVIOUS
<1>6. \A i \in 1 .. n + 1 : Append(s, v)[i] = IF i = n + 1 THEN v ELSE s[i] BY <1>3, <1>5
<1> QED BY <1>4, <1>6

(* A sequence without its first element, and with one before it *)
LEMMA OneLess ==
    ASSUME NEW n \in Nat, n > 0, NEW s, s = [i \in 1 .. n |-> s[i]]
    PROVE  s # <<>> /\ Tail(s) = [i \in 1 .. n - 1 |-> s[i + 1]]
<1> DEFINE S == {s[i] : i \in 1 .. n}
<1>1. s \in [1 .. n -> S] OBVIOUS
<1> HIDE DEF S
<1>2. s \in Seq(S) /\ Len(s) = n BY <1>1
<1>3. s # <<>> BY <1>2
<1>4. /\ Tail(s) \in Seq(S) /\ Len(Tail(s)) = n - 1
      /\ \A i \in 1 .. n - 1 : Tail(s)[i] = s[i + 1]
  BY <1>2, <1>3, HeadTailProperties
<1>5. Tail(s) = [i \in 1 .. n - 1 |-> Tail(s)[i]] BY <1>4, LenProperties
<1> QED BY <1>3, <1>4, <1>5

LEMMA OneBefore ==
    ASSUME NEW n \in Nat, NEW s, s = [i \in 1 .. n |-> s[i]], NEW v
    PROVE  <<v>> \o s = [i \in 1 .. n + 1 |-> IF i = 1 THEN v ELSE s[i - 1]]
<1> DEFINE S == {s[i] : i \in 1 .. n} \cup {v}
<1>1. s \in [1 .. n -> S] /\ v \in S OBVIOUS
<1> HIDE DEF S
<1>2. s \in Seq(S) /\ Len(s) = n /\ <<v>> \in Seq(S) /\ Len(<<v>>) = 1 /\ <<v>>[1] = v BY <1>1
<1> DEFINE t == <<v>> \o s
<1>3. /\ t \in Seq(S) /\ Len(t) = 1 + n
      /\ \A i \in 1 .. 1 + n : t[i] = IF i <= 1 THEN <<v>>[i] ELSE s[i - 1]
  BY <1>2, ConcatProperties
<1> HIDE DEF t
<1>4. t = [i \in 1 .. n + 1 |-> t[i]] BY <1>3, LenProperties
<1>5. \A i \in 1 .. n + 1 : t[i] = IF i = 1 THEN v ELSE s[i - 1] BY <1>2, <1>3
<1> QED BY <1>4, <1>5 DEF t

(* A set of numbers has a least one: induction over data, in the proofs    *)
LEMMA LeastOf ==
    ASSUME NEW S, S \subseteq Nat, S # {}
    PROVE  \E m \in S : \A k \in S : m <= k
<1>1. PICK m \in S : \A k \in S : <<k, m>> \notin OpToRel(<, Nat)
  BY NatLessThanWellFounded, WFMin
<1>2. \A k \in S : ~(k < m) BY <1>1 DEF OpToRel
<1> QED BY <1>2

LEMMA UpTo ==
    ASSUME NEW m \in Nat, NEW S, 0 \in S,
           \A n \in 0 .. m : n < m /\ n \in S => n + 1 \in S
    PROVE  \A n \in 0 .. m : n \in S
<1> SUFFICES ASSUME (0 .. m) \ S # {} PROVE FALSE
  OBVIOUS
<1>1. PICK n \in (0 .. m) \ S : \A k \in (0 .. m) \ S : n <= k
  <2> DEFINE T == (0 .. m) \ S
  <2>1. T \subseteq Nat /\ T # {} OBVIOUS
  <2> HIDE DEF T
  <2>2. \E n \in T : \A k \in T : n <= k BY <2>1, LeastOf
  <2> QED BY <2>2 DEF T
<1>2. n # 0 /\ n - 1 \in 0 .. m /\ n - 1 < m /\ (n - 1) + 1 = n /\ ~(n <= n - 1)
  BY <1>1
<1>3. n - 1 \in S BY <1>1, <1>2
<1> QED BY <1>1, <1>2, <1>3
-----------------------------------------------------------------------------
(***************************************************************************)
(* The queue in a block                                                    *)
(***************************************************************************)
(* A queue_t: its block has as many cells as its capacity says *)
IsQueue(q) ==
    /\ q \in [data : {q.data}, first_index : Nat, size : Nat, capacity : Nat]
    /\ q.data = [i \in Cells(q.capacity) |-> q.data[i]]
    /\ q.first_index + q.size <= q.capacity

Window(q) == [i \in 1 .. q.size |-> q.data[q.first_index + i - 1]]
Stored(q) == \A i \in Cells(q.size) : q.data[q.first_index + i] \in Values
-----------------------------------------------------------------------------
(* A copy downwards reads what it has written over, which was stored too *)
LEMMA OverIsStored ==
    ASSUME IsQueue(queue), Stored(queue), queue.first_index > 0
    PROVE  \A i \in Cells(queue.size) : WrittenOver[i] \in Values
<1> DEFINE n == queue.size
           f == queue.first_index
           data == queue.data
           Over(g, S) == \A i \in S : g[i] = IF f + i < n THEN g[f + i] ELSE data[f + i]
<1>0. n \in Nat /\ f \in Nat /\ f > 0 /\ \A i \in 0 .. n - 1 : data[f + i] \in Values
  BY DEF IsQueue, Stored, Cells
<1>1. WrittenOver = CHOOSE g : g = [i \in 0 .. n - 1 |-> IF f + i < n THEN g[f + i] ELSE data[f + i]]
  BY DEF WrittenOver, Cells
<1> HIDE DEF n, f, data
<1>2. \E g \in [0 .. n - 1 -> Values] : Over(g, 0 .. n - 1)
  <2> DEFINE T == {k \in 0 .. n : \E g \in [n - k .. n - 1 -> Values] : Over(g, n - k .. n - 1)}
  <2>1. 0 \in T
    <3>1. n - 0 .. n - 1 = {} BY <1>0
    <3>2. [i \in {} |-> 0] \in [{} -> Values] OBVIOUS
    <3>3. Over([i \in {} |-> 0], {}) OBVIOUS
    <3> HIDE DEF Over
    <3>4. \E g \in [n - 0 .. n - 1 -> Values] : Over(g, n - 0 .. n - 1) BY <3>1, <3>2, <3>3, Zenon
    <3> QED BY <1>0, <3>4
  <2>2. ASSUME NEW k \in 0 .. n, k < n, k \in T PROVE k + 1 \in T
    <3>1. PICK g \in [n - k .. n - 1 -> Values] : Over(g, n - k .. n - 1) BY <2>2
    <3>0. PICK m : m = n - (k + 1) OBVIOUS
    <3>2. m \in 0 .. n - 1 /\ m \in Int BY <1>0, <2>2, <3>0
    <3>3. \A i \in m .. n - 1 :
             /\ i # m => i \in n - k .. n - 1
             /\ f + i < n => f + i \in n - k .. n - 1 /\ f + i \in m .. n - 1 /\ f + i # m
      BY <1>0, <2>2, <3>0
    <3>4. m \in m .. n - 1 BY <3>2
    <3> DEFINE new == IF f + m < n THEN g[f + m] ELSE data[f + m]
    <3>g. \A i \in n - k .. n - 1 : g[i] \in Values BY <3>1
    <3>5. new \in Values
      <4>1. CASE f + m < n
        <5>1. f + m \in n - k .. n - 1 BY <3>3, <3>4, <4>1
        <5> QED BY <3>g, <4>1, <5>1
      <4>2. CASE ~(f + m < n) BY <1>0, <3>2, <4>2
      <4> QED BY <4>1, <4>2
    <3>h. PICK h : h = [i \in m .. n - 1 |-> IF i # m THEN g[i] ELSE new] OBVIOUS
    <3>9. \A i \in m .. n - 1 : h[i] = IF i # m THEN g[i] ELSE new
      <4> HIDE DEF new
      <4> QED BY <3>h
    <3>10. h \in [m .. n - 1 -> Values]
      <4> HIDE DEF new
      <4>1. \A i \in m .. n - 1 : (IF i # m THEN g[i] ELSE new) \in Values BY <3>3, <3>g, <3>5
      <4> QED BY <3>h, <4>1
    <3>6. Over(h, m .. n - 1)
      <4> SUFFICES ASSUME NEW i \in m .. n - 1
                   PROVE  h[i] = IF f + i < n THEN h[f + i] ELSE data[f + i]
        OBVIOUS
      <4>1. f + i < n => h[f + i] = g[f + i]
        <5> HIDE DEF new
        <5> SUFFICES ASSUME f + i < n PROVE h[f + i] = g[f + i]
          OBVIOUS
        <5>1. f + i \in m .. n - 1 /\ f + i # m BY <3>3
        <5> QED BY <3>9, <5>1
      <4>2. CASE i = m
        <5>1. h[m] = new BY <3>4, <3>9
        <5> QED BY <4>1, <4>2, <5>1
      <4>3. CASE i # m
        <5>1. h[i] = g[i] /\ i \in n - k .. n - 1
          <6> HIDE DEF new
          <6> QED BY <3>3, <3>9, <4>3
        <5> QED BY <3>1, <4>1, <5>1
      <4> QED BY <4>2, <4>3
    <3> HIDE DEF Over
    <3>7. \E g2 \in [m .. n - 1 -> Values] : Over(g2, m .. n - 1) BY <3>10, <3>6
    <3>8. k + 1 \in 0 .. n BY <1>0, <2>2
    <3> QED BY <3>0, <3>7, <3>8
  <2>3. T \subseteq 0 .. n OBVIOUS
  <2> HIDE DEF T
  <2>4. n \in T BY <1>0, <2>1, <2>2, UpTo
  <2>5. \E g \in [n - n .. n - 1 -> Values] : Over(g, n - n .. n - 1) BY <2>4 DEF T
  <2>6. n - n = 0 BY <1>0
  <2> QED BY <2>5, <2>6
<1>3. PICK g \in [0 .. n - 1 -> Values] : Over(g, 0 .. n - 1) BY <1>2
<1>4. g = [i \in 0 .. n - 1 |-> IF f + i < n THEN g[f + i] ELSE data[f + i]] BY <1>3
<1>5. \A i \in 0 .. n - 1 :
         WrittenOver[i] = IF f + i < n THEN WrittenOver[f + i] ELSE data[f + i]
  <2> DEFINE P(x) == x = [i \in 0 .. n - 1 |-> IF f + i < n THEN x[f + i] ELSE data[f + i]]
  <2>1. P(g) BY <1>4
  <2> HIDE DEF P
  <2>2. P(CHOOSE x : P(x)) BY <2>1
  <2>3. P(WrittenOver) BY <1>1, <2>2 DEF P
  <2> DEFINE w == WrittenOver
  <2>4. P(w) BY <2>3
  <2> HIDE DEF w
  <2>5. \A i \in 0 .. n - 1 : w[i] = IF f + i < n THEN w[f + i] ELSE data[f + i] BY <2>4 DEF P
  <2> QED BY <2>5 DEF w
<1> DEFINE B == {j \in 1 .. n : WrittenOver[n - j] \notin Values}
<1>6. B = {}
  <2> SUFFICES ASSUME B # {} PROVE FALSE
    OBVIOUS
  <2>1. B \subseteq Nat BY <1>0
  <2> HIDE DEF B
  <2>2. PICK j \in B : \A k \in B : j <= k BY <2>1, LeastOf
  <2>3. j \in 1 .. n /\ WrittenOver[n - j] \notin Values BY <2>2 DEF B
  <2>4. n - j \in 0 .. n - 1 BY <1>0, <2>3
  <2>5. f + (n - j) < n /\ WrittenOver[f + (n - j)] \notin Values BY <1>0, <1>5, <2>3, <2>4
  <2>6. j - f \in 1 .. n /\ n - (j - f) = f + (n - j) /\ ~(j <= j - f) BY <1>0, <2>3, <2>5
  <2>7. j - f \in B BY <2>5, <2>6 DEF B
  <2> QED BY <2>2, <2>6, <2>7
<1>7. ASSUME NEW i \in Cells(n) PROVE WrittenOver[i] \in Values
  <2>1. n - i \in 1 .. n /\ n - (n - i) = i BY <1>0 DEF Cells
  <2> QED BY <1>6, <2>1
<1> QED BY <1>7 DEF n
-----------------------------------------------------------------------------
(* The block of new data that queue_grow makes has room for one more, and  *)
(* the same elements unless memcpy copied a region onto itself               *)
LEMMA Grown ==
    ASSUME QueueAssumption, IsQueue(queue), Stored(queue), AtTheEnd, NEW q \in queue_grow
    PROVE  /\ IsQueue(q) /\ q.first_index + q.size < q.capacity /\ Stored(q)
           /\ ~Overlaps => Window(q) = Window(queue)
<1> USE DEF QueueAssumption
<1>0. /\ queue.first_index \in Nat /\ queue.size \in Nat /\ queue.capacity \in Nat
      /\ queue.first_index + queue.size = queue.capacity
  BY DEF IsQueue, AtTheEnd
<1>1. CASE MovesToTheFront
  <2>1. PICK d \in Moved : q = [queue EXCEPT !.data = d, !.first_index = 0]
    BY <1>1 DEF queue_grow
  <2>2. /\ q.data = d /\ q.first_index = 0 /\ q.size = queue.size /\ q.capacity = queue.capacity
        /\ q \in [data : {q.data}, first_index : Nat, size : Nat, capacity : Nat]
    BY <2>1 DEF IsQueue
  <2>3. d = [i \in Cells(queue.capacity) |-> d[i]]
    <3>1. CASE d = CopiedUpwards
      BY <3>1, Zenon DEF CopiedUpwards
    <3>2. CASE d = CopiedDownwards
      BY <3>2, Zenon DEF CopiedDownwards
    <3> QED BY <3>1, <3>2 DEF Moved
  <2>4. queue.first_index > 0
    BY <1>0, <1>1 DEF MovesToTheFront
  <2>5. IsQueue(q) /\ q.first_index + q.size < q.capacity
    BY <1>0, <2>2, <2>3, <2>4 DEF IsQueue
  <2>6. ASSUME ~Overlaps PROVE Window(q) = Window(queue)
    <3>1. d = CopiedUpwards
      BY <2>6 DEF Moved
    <3>2. \A i \in 1 .. queue.size : i - 1 \in Cells(queue.capacity) /\ i - 1 < queue.size
      BY <1>0 DEF Cells
    <3>3. \A i \in 1 .. queue.size : d[i - 1] = queue.data[queue.first_index + (i - 1)]
      BY <3>1, <3>2 DEF CopiedUpwards
    <3>4. \A i \in 1 .. queue.size : q.data[q.first_index + i - 1] = queue.data[queue.first_index + i - 1]
      BY <1>0, <2>2, <3>3
    <3> QED BY <2>2, <3>4 DEF Window
  <2>7. Stored(q)
    <3> SUFFICES ASSUME NEW i \in Cells(queue.size) PROVE d[i] \in Values
      BY <2>2 DEF Stored, Cells
    <3>1. i \in Cells(queue.capacity) /\ i < queue.size /\ queue.data[queue.first_index + i] \in Values
      BY <1>0 DEF Stored, Cells
    <3>2. CASE d = CopiedUpwards BY <3>1, <3>2 DEF CopiedUpwards
    <3>3. CASE d = CopiedDownwards BY <2>4, <3>1, <3>3, OverIsStored DEF CopiedDownwards
    <3> QED BY <3>2, <3>3 DEF Moved
  <2> QED BY <2>5, <2>6, <2>7
<1>2. CASE ~MovesToTheFront
  <2>1. q = [queue EXCEPT !.data = Reallocated(NextCapacity), !.capacity = NextCapacity]
    BY <1>2 DEF queue_grow
  <2>2. NextCapacity \in Nat /\ NextCapacity > queue.capacity
    BY <1>0 DEF NextCapacity
  <2>3. /\ q.data = Reallocated(NextCapacity) /\ q.first_index = queue.first_index
        /\ q.size = queue.size /\ q.capacity = NextCapacity
        /\ q \in [data : {q.data}, first_index : Nat, size : Nat, capacity : Nat]
    BY <2>1, <2>2 DEF IsQueue
  <2>4. q.data = [i \in Cells(q.capacity) |-> q.data[i]]
    BY <2>3, Zenon DEF Reallocated
  <2>5. \A i \in 1 .. queue.size : q.data[queue.first_index + i - 1] = queue.data[queue.first_index + i - 1]
    <3>1. \A j \in Cells(queue.capacity) : j \in Cells(NextCapacity) /\ j < queue.capacity
      BY <1>0, <2>2 DEF Cells
    <3>2. \A j \in Cells(queue.capacity) : q.data[j] = queue.data[j]
      BY <2>3, <3>1 DEF Reallocated
    <3>3. \A i \in 1 .. queue.size : queue.first_index + i - 1 \in Cells(queue.capacity)
      BY <1>0 DEF Cells
    <3> QED BY <3>2, <3>3
  <2>6. Stored(q)
    <3> SUFFICES ASSUME NEW i \in Cells(queue.size) PROVE q.data[queue.first_index + i] \in Values
      BY <2>3 DEF Stored
    <3>1. i + 1 \in 1 .. queue.size /\ queue.first_index + (i + 1) - 1 = queue.first_index + i
      BY <1>0 DEF Cells
    <3> QED BY <2>5, <3>1 DEF Stored
  <2> QED BY <1>0, <2>2, <2>3, <2>4, <2>5, <2>6 DEF IsQueue, Window
<1> QED BY <1>1, <1>2

(* A queue with room takes one more at its end *)
Put(q, v, d, r) ==
    /\ d = [q.data EXCEPT ![q.first_index + q.size] = v]
    /\ r = [q EXCEPT !.data = d, !.size = @ + 1]
LEMMA Pushed ==
    ASSUME NEW q, IsQueue(q), q.first_index + q.size < q.capacity, NEW v \in Values,
           NEW d, NEW r, Put(q, v, d, r)
    PROVE  IsQueue(r) /\ Window(r) = Append(Window(q), v) /\ (Stored(q) => Stored(r))
<1>0. /\ q.first_index \in Nat /\ q.size \in Nat /\ q.capacity \in Nat
      /\ q.first_index + q.size \in Cells(q.capacity)
  BY DEF IsQueue, Cells
<1>1. /\ r.first_index = q.first_index /\ r.size = q.size + 1 /\ r.capacity = q.capacity
      /\ r.data = [q.data EXCEPT ![q.first_index + q.size] = v]
      /\ r \in [data : {r.data}, first_index : Nat, size : Nat, capacity : Nat]
  <2>1. q = [data |-> q.data, first_index |-> q.first_index, size |-> q.size, capacity |-> q.capacity]
    BY DEF IsQueue
  <2>2. r = [data |-> d, first_index |-> q.first_index, size |-> q.size + 1, capacity |-> q.capacity]
    BY <2>1 DEF Put
  <2> QED BY <1>0, <2>2 DEF Put
<1>2. /\ r.data = [i \in Cells(r.capacity) |-> r.data[i]]
      /\ \A i \in Cells(q.capacity) :
            r.data[i] = IF i = q.first_index + q.size THEN v ELSE q.data[i]
  BY <1>0, <1>1 DEF IsQueue
<1>3. IsQueue(r)
  BY <1>0, <1>1, <1>2 DEF IsQueue
<1> DEFINE S == {q.data[i] : i \in Cells(q.capacity)} \cup {v}
<1>4. \A i \in 1 .. q.size : q.first_index + i - 1 \in Cells(q.capacity)
  BY <1>0, <1>3 DEF IsQueue, Cells
<1>5. Window(q) \in Seq(S) /\ Len(Window(q)) = q.size
  <2>1. Window(q) \in [1 .. q.size -> S]
    BY <1>4 DEF Window
  <2> HIDE DEF S
  <2> QED BY <1>0, <2>1
<1>6. \A i \in 1 .. q.size + 1 : Append(Window(q), v)[i] = IF i = q.size + 1 THEN v ELSE Window(q)[i]
  <2>1. v \in S
    OBVIOUS
  <2> HIDE DEF S
  <2> QED BY <1>0, <1>5, <2>1, AppendProperties
<1>7. \A i \in 1 .. q.size + 1 : Window(r)[i] = IF i = q.size + 1 THEN v ELSE Window(q)[i]
  <2>1. ASSUME NEW i \in 1 .. q.size + 1 PROVE Window(r)[i] = r.data[q.first_index + i - 1]
    BY <1>0, <1>1 DEF Window
  <2>2. r.data[q.first_index + q.size] = v
    BY <1>0, <1>2
  <2>3. ASSUME NEW i \in 1 .. q.size PROVE r.data[q.first_index + i - 1] = Window(q)[i]
    <3>1. q.first_index + i - 1 # q.first_index + q.size
      BY <1>0
    <3> QED BY <1>2, <1>4, <3>1 DEF Window
  <2> QED BY <1>0, <2>1, <2>2, <2>3
<1>8. Window(r) = [i \in 1 .. q.size + 1 |-> Window(r)[i]]
  BY <1>1 DEF Window
<1>9. Append(Window(q), v) = [i \in 1 .. q.size + 1 |-> Append(Window(q), v)[i]]
  <2>1. v \in S
    OBVIOUS
  <2> HIDE DEF S
  <2>2. Append(Window(q), v) \in Seq(S) /\ Len(Append(Window(q), v)) = q.size + 1
    BY <1>5, <2>1, AppendProperties
  <2> QED BY <2>2, LenProperties
<1>10. Window(r) = Append(Window(q), v)
  BY <1>6, <1>7, <1>8, <1>9
<1>11. Stored(q) => Stored(r)
  <2> SUFFICES ASSUME Stored(q), NEW i \in Cells(q.size + 1) PROVE r.data[q.first_index + i] \in Values
    BY <1>1 DEF Stored
  <2>1. CASE i = q.size BY <1>0, <1>2, <2>1
  <2>2. CASE i # q.size
    <3>1. i \in Cells(q.size) /\ q.first_index + i \in Cells(q.capacity)
          /\ q.first_index + i # q.first_index + q.size
      BY <1>0, <2>2 DEF Cells
    <3> QED BY <1>2, <3>1 DEF Stored
  <2> QED BY <2>1, <2>2
<1> QED BY <1>3, <1>10, <1>11
-----------------------------------------------------------------------------
LEMMA Steps ==
    ASSUME QueueAssumption, IsQueue(queue), Stored(queue), [Next]_queue
    PROVE  IsQueue(queue)' /\ Stored(queue)' /\ InOrder
<1>0. Contents = Window(queue) /\ Contents' = Window(queue')
  BY DEF Contents, Window
<1> USE DEF Fifo!Next, Fifo!Push, Fifo!Pop
<1>1. ASSUME NEW v \in Values, queue_push(v) PROVE IsQueue(queue') /\ Stored(queue') /\ InOrder
  <2>1. PICK q \in (IF AtTheEnd THEN queue_grow ELSE {queue}) :
           queue' = [q EXCEPT !.data = [@ EXCEPT ![q.first_index + q.size] = v], !.size = @ + 1]
    BY <1>1, Zenon DEF queue_push
  <2>2. /\ IsQueue(q) /\ q.first_index + q.size < q.capacity /\ Stored(q)
        /\ ~Overlaps => Window(q) = Window(queue)
    <3>1. CASE AtTheEnd
      BY <2>1, <3>1, Grown
    <3>2. CASE ~AtTheEnd
      <4>1. q = queue
        BY <2>1, <3>2
      <4>2. queue.first_index \in Nat /\ queue.size \in Nat /\ queue.capacity \in Nat
        BY DEF IsQueue
      <4> QED BY <3>2, <4>1, <4>2 DEF IsQueue, AtTheEnd
    <3> QED BY <3>1, <3>2
  <2>3. IsQueue(queue') /\ Stored(queue') /\ Window(queue') = Append(Window(q), v)
    <3>1. PICK d : d = [q.data EXCEPT ![q.first_index + q.size] = v]
      OBVIOUS
    <3>2. queue' = [q EXCEPT !.data = d, !.size = @ + 1]
      BY <2>1, <3>1, Zenon
    <3>3. PICK r : r = queue' OBVIOUS
    <3>4. v \in Values BY <1>1
    <3>5. Put(q, v, d, r)
      BY <3>1, <3>2, <3>3 DEF Put
    <3>6. IsQueue(r) /\ Window(r) = Append(Window(q), v) /\ (Stored(q) => Stored(r))
      BY <2>2, <3>4, <3>5, Pushed, Zenon
    <3> QED BY <2>2, <3>3, <3>6
  <2> QED BY <1>0, <2>2, <2>3 DEF InOrder
<1>2. ASSUME queue_pop PROVE IsQueue(queue') /\ Stored(queue') /\ InOrder
  <2>1. /\ queue.first_index \in Nat /\ queue.size \in Nat \ {0} /\ queue.capacity \in Nat
        /\ queue.first_index + queue.size <= queue.capacity
    BY <1>2 DEF queue_pop, IsQueue
  <2>2. /\ queue'.first_index = queue.first_index + 1 /\ queue'.size = queue.size - 1
        /\ queue'.capacity = queue.capacity /\ queue'.data = queue.data
        /\ queue' \in [data : {queue'.data}, first_index : Nat, size : Nat, capacity : Nat]
    <3>1. queue = [data |-> queue.data, first_index |-> queue.first_index,
                   size |-> queue.size, capacity |-> queue.capacity]
      BY DEF IsQueue
    <3>2. queue' = [data |-> queue.data, first_index |-> queue.first_index + 1,
                    size |-> queue.size - 1, capacity |-> queue.capacity]
      BY <1>2, <3>1 DEF queue_pop
    <3> QED BY <2>1, <3>2
  <2>3. IsQueue(queue')
    BY <2>1, <2>2 DEF IsQueue
  <2> DEFINE S == {queue.data[i] : i \in Cells(queue.capacity)}
  <2>4. Contents \in Seq(S) /\ Len(Contents) = queue.size
    <3>1. \A i \in 1 .. queue.size : queue.first_index + i - 1 \in Cells(queue.capacity)
      BY <2>1 DEF Cells
    <3>2. Contents \in [1 .. queue.size -> S]
      BY <3>1 DEF Contents
    <3> HIDE DEF S
    <3> QED BY <2>1, <3>2
  <2>5. /\ Contents # <<>> /\ Len(Tail(Contents)) = queue.size - 1 /\ Tail(Contents) \in Seq(S)
        /\ \A i \in 1 .. queue.size - 1 : Tail(Contents)[i] = Contents[i + 1]
    <3> HIDE DEF S
    <3>1. Contents # <<>>
      BY <2>1, <2>4
    <3> QED BY <2>4, <3>1, HeadTailProperties
  <2>6. ASSUME NEW i \in 1 .. queue.size - 1 PROVE Contents'[i] = Contents[i + 1]
    <3>1. Contents'[i] = queue.data[queue.first_index + 1 + i - 1]
      BY <2>2 DEF Contents
    <3>2. Contents[i + 1] = queue.data[queue.first_index + (i + 1) - 1]
      BY <2>1 DEF Contents
    <3>3. queue.first_index + 1 + i - 1 = queue.first_index + (i + 1) - 1
      BY <2>1
    <3> QED BY <3>1, <3>2, <3>3
  <2>7. Contents' = [i \in 1 .. queue.size - 1 |-> Contents'[i]]
    BY <2>2 DEF Contents
  <2>8. Tail(Contents) = [i \in 1 .. queue.size - 1 |-> Tail(Contents)[i]]
    <3> HIDE DEF S
    <3> QED BY <2>5, LenProperties
  <2>9. Contents' = Tail(Contents)
    BY <2>5, <2>6, <2>7, <2>8
  <2>10. Stored(queue')
    <3> SUFFICES ASSUME NEW i \in Cells(queue.size - 1)
                 PROVE  queue.data[(queue.first_index + 1) + i] \in Values
      BY <2>2 DEF Stored
    <3>1. i + 1 \in Cells(queue.size) /\ queue.first_index + (i + 1) = (queue.first_index + 1) + i
      BY <2>1 DEF Cells
    <3> QED BY <3>1 DEF Stored
  <2> QED BY <2>3, <2>5, <2>9, <2>10 DEF InOrder
<1>3. CASE UNCHANGED queue
  BY <1>3 DEF InOrder, Contents
<1> QED BY <1>1, <1>2, <1>3 DEF Next

LEMMA Start == Init => IsQueue(queue) /\ Stored(queue)
BY DEF Init, IsQueue, Stored, Cells

LEMMA Invariant ==
    ASSUME QueueAssumption PROVE Spec => [](IsQueue(queue) /\ Stored(queue))
<1>1. IsQueue(queue) /\ Stored(queue) /\ [Next]_queue => (IsQueue(queue) /\ Stored(queue))'
  BY Steps
<1> QED BY <1>1, Start, PTL DEF Spec

(* The window never leaves its block, as queue.h says, and what is in it has *)
(* been pushed, even by way of a memcpy that overlaps                          *)
THEOREM WindowFits ==
    ASSUME QueueAssumption PROVE Spec => []Sound
<1>1. IsQueue(queue) /\ Stored(queue) => Sound
  <2> SUFFICES ASSUME IsQueue(queue), Stored(queue), NEW i \in 1 .. queue.size
               PROVE  WithinCapacity /\ Contents[i] \in Values
    BY DEF Sound, IsQueue, WithinCapacity
  <2>1. queue.size \in Nat /\ queue.first_index \in Nat BY DEF IsQueue
  <2>2. i - 1 \in Cells(queue.size) /\ queue.first_index + i - 1 = queue.first_index + (i - 1)
    BY <2>1 DEF Cells
  <2> QED BY <2>2 DEF IsQueue, Stored, WithinCapacity, Contents
<1> QED BY <1>1, Invariant, PTL

(* The elements leave in the order they came, unless a memcpy overlaps *)
THEOREM OrderIsKept ==
    ASSUME QueueAssumption PROVE Spec => [][InOrder]_queue
<1>1. IsQueue(queue) /\ Stored(queue) /\ [Next]_queue => [InOrder]_queue
  BY Steps
<1> QED BY <1>1, Invariant, PTL DEF Spec

(* The memcpy of queue_grow meets no overlap while the queue holds at most  *)
(* one element more than the unused space it tolerates: such a caller has    *)
(* a FIFO on every build                                                      *)
THEOREM FewNeverOverlap ==
    ASSUME QueueAssumption
    PROVE  Spec => [](queue.size <= QUEUE_MAX_ITEMS_UNUSED + 1 => ~Overlaps)
<1>1. IsQueue(queue) => (queue.size <= QUEUE_MAX_ITEMS_UNUSED + 1 => ~Overlaps)
  BY DEF QueueAssumption, IsQueue, Overlaps, MovesToTheFront
<1> QED BY <1>1, Invariant, PTL
-----------------------------------------------------------------------------
(***************************************************************************)
(* The stack in a block                                                    *)
(***************************************************************************)
(* A stack_t: its block has as many cells as its capacity says, and those    *)
(* below its size were written by a push                                       *)
IsStack(s) ==
    /\ s \in [language : {"C", "C++"}, data : {s.data}, size : Nat, capacity : Nat]
    /\ s.data = [i \in Stack!Cells(s.capacity) |-> s.data[i]]
    /\ s.size <= s.capacity
    /\ \A i \in Stack!Cells(s.size) : s.data[i] \in Values

Below(s) == [i \in 1 .. s.size |-> s.data[i - 1]]

(* A larger block holds the same elements, however it was made *)
LEMMA Reserved ==
    ASSUME IsStack(stack), NEW n \in Nat, n >= stack.size
    PROVE  LET s == Stack!reserve(n) IN
           /\ IsStack(s) /\ s.size = stack.size /\ s.language = stack.language
           /\ s.capacity >= n /\ (stack.capacity < n => s.capacity = n)
           /\ \A i \in Stack!Cells(stack.size) : s.data[i] = stack.data[i]
<1>0. /\ stack.size \in Nat /\ stack.capacity \in Nat /\ stack.size <= stack.capacity
      /\ stack = [language |-> stack.language, data |-> stack.data, size |-> stack.size,
                  capacity |-> stack.capacity]
      /\ stack.language \in {"C", "C++"}
  BY DEF IsStack
<1>1. CASE ~(stack.capacity = 0 \/ stack.capacity < n)
  BY <1>0, <1>1 DEF Stack!reserve
<1>2. CASE stack.capacity = 0 \/ stack.capacity < n
  <2> DEFINE d == IF stack.language = "C" THEN Stack!Reallocated(n) ELSE Stack!Copied(n)
             s == Stack!reserve(n)
  <2>1. s = [language |-> stack.language, data |-> d, size |-> stack.size, capacity |-> n]
    BY <1>0, <1>2 DEF Stack!reserve
  <2>2. d = [i \in Stack!Cells(n) |-> d[i]]
    <3>1. CASE stack.language = "C" BY <3>1, Zenon DEF Stack!Reallocated
    <3>2. CASE stack.language # "C" BY <3>2, Zenon DEF Stack!Copied
    <3> QED BY <3>1, <3>2
  <2>3. \A i \in Stack!Cells(stack.size) : i \in Stack!Cells(n) /\ i < stack.size /\ i < stack.capacity
    BY <1>0 DEF Stack!Cells
  <2>4. \A i \in Stack!Cells(stack.size) : d[i] = stack.data[i]
    BY <2>3 DEF Stack!Reallocated, Stack!Copied
  <2> HIDE DEF d, s
  <2>5. IsStack(s) BY <1>0, <2>1, <2>2, <2>4 DEF IsStack
  <2> QED BY <1>0, <1>2, <2>1, <2>4, <2>5 DEF s
<1> QED BY <1>1, <1>2

LEMMA StackPush ==
    ASSUME STACK_INITIAL_SIZE \in Nat \ {0}, IsStack(stack), NEW val \in Values, Stack!push(val)
    PROVE  IsStack(stack') /\ Below(stack') = Append(Below(stack), val)
             /\ stack'.data[stack'.size - 1] = val
<1>0. /\ stack.size \in Nat /\ stack.capacity \in Nat /\ stack.size <= stack.capacity
  BY DEF IsStack
<1> DEFINE s == IF Stack!Full THEN Stack!grow ELSE stack
           d == [i \in DOMAIN s.data \cup {s.size} |-> IF i = s.size THEN val ELSE s.data[i]]
<1>1. /\ IsStack(s) /\ s.size = stack.size /\ s.size < s.capacity
      /\ \A i \in Stack!Cells(stack.size) : s.data[i] = stack.data[i]
  <2>1. CASE Stack!Full
    <3>1. /\ Stack!NextCapacity \in Nat /\ Stack!NextCapacity > stack.size
          /\ stack.capacity < Stack!NextCapacity
      BY <1>0, <2>1 DEF Stack!NextCapacity, Stack!Full
    <3>2. s = Stack!reserve(Stack!NextCapacity) BY <2>1 DEF Stack!grow
    <3> HIDE DEF s
    <3> QED BY <1>0, <3>1, <3>2, Reserved
  <2>2. CASE ~Stack!Full
    <3>1. s = stack BY <2>2
    <3> QED BY <1>0, <2>2, <3>1 DEF Stack!Full
  <2> QED BY <2>1, <2>2
<1>2. stack' = [s EXCEPT !.data = d, !.size = @ + 1]
  BY Zenon DEF Stack!push
<1> HIDE DEF s
<1>3. /\ s.size \in Nat /\ s.capacity \in Nat /\ s.language \in {"C", "C++"}
      /\ DOMAIN s.data = Stack!Cells(s.capacity)
      /\ s = [language |-> s.language, data |-> s.data, size |-> s.size, capacity |-> s.capacity]
  BY <1>1 DEF IsStack
<1>4. DOMAIN s.data \cup {s.size} = Stack!Cells(s.capacity) BY <1>1, <1>3 DEF Stack!Cells
<1>5. d = [i \in Stack!Cells(s.capacity) |-> IF i = s.size THEN val ELSE s.data[i]] BY <1>4
<1> HIDE DEF d
<1>6. stack' = [language |-> s.language, data |-> d, size |-> s.size + 1, capacity |-> s.capacity]
  BY <1>2, <1>3
<1>7. /\ \A i \in Stack!Cells(s.size) : d[i] = s.data[i] /\ d[i] \in Values
      /\ d[s.size] = val
  <2>1. \A i \in Stack!Cells(s.size) : i \in Stack!Cells(s.capacity) /\ i # s.size
    BY <1>1, <1>3 DEF Stack!Cells
  <2>2. s.size \in Stack!Cells(s.capacity) BY <1>1, <1>3 DEF Stack!Cells
  <2> QED BY <1>1, <1>5, <2>1, <2>2 DEF IsStack
<1>8. IsStack(stack')
  <2>1. d = [i \in Stack!Cells(s.capacity) |-> d[i]] BY <1>5
  <2>2. \A i \in Stack!Cells(s.size + 1) : i \in Stack!Cells(s.size) \/ i = s.size
    BY <1>3 DEF Stack!Cells
  <2>3. \A i \in Stack!Cells(s.size + 1) : d[i] \in Values BY <1>7, <2>2
  <2>4. s.size + 1 \in Nat /\ s.size + 1 <= s.capacity BY <1>1, <1>3
  <2> QED BY <1>3, <1>6, <2>1, <2>3, <2>4 DEF IsStack
<1>9. Below(stack') = Append(Below(stack), val)
  <2> DEFINE n == stack.size
             t == Below(stack')
             u == Below(stack)
  <2>1. /\ t = [i \in 1 .. n + 1 |-> d[i - 1]]
        /\ u = [i \in 1 .. n |-> stack.data[i - 1]]
        /\ n \in Nat /\ n = s.size
    BY <1>0, <1>1, <1>6 DEF Below
  <2>2. \A i \in Stack!Cells(n) : d[i] = stack.data[i] BY <1>1, <1>7
  <2> HIDE DEF n, t, u
  <2>3. \A i \in 1 .. n : i \in 1 .. n + 1 /\ i - 1 \in Stack!Cells(n)
    BY <2>1 DEF Stack!Cells
  <2>4. \A i \in 1 .. n : t[i] = u[i] BY <2>1, <2>2, <2>3
  <2>5. t[n + 1] = val
    <3>1. (n + 1) - 1 = s.size BY <2>1
    <3>2. t[n + 1] = d[(n + 1) - 1] BY <2>1
    <3> QED BY <1>7, <3>1, <3>2
  <2>6. t = [i \in 1 .. n + 1 |-> t[i]] BY <2>1
  <2>7. u = [i \in 1 .. n |-> u[i]] BY <2>1
  <2>8. n \in Nat BY <2>1
  <2>9. Append(u, val) = [i \in 1 .. n + 1 |-> IF i = n + 1 THEN val ELSE u[i]]
    BY <2>7, <2>8, OneMore
  <2>10. \A i \in 1 .. n + 1 : t[i] = IF i = n + 1 THEN val ELSE u[i]
    BY <2>4, <2>5, <2>8
  <2>11. t = Append(u, val) BY <2>6, <2>9, <2>10, Zenon
  <2> QED BY <2>11 DEF t, u
<1>10. stack'.data[stack'.size - 1] = val
  <2>1. stack'.size - 1 = s.size BY <1>3, <1>6
  <2> QED BY <1>6, <1>7, <2>1
<1> QED BY <1>8, <1>9, <1>10

LEMMA StackPop ==
    ASSUME IsStack(stack), Stack!pop
    PROVE  IsStack(stack') /\ Below(stack) = Append(Below(stack'), stack.data[stack.size - 1])
<1>0. /\ stack.size \in Nat \ {0} /\ stack.capacity \in Nat /\ stack.size <= stack.capacity
      /\ stack = [language |-> stack.language, data |-> stack.data, size |-> stack.size,
                  capacity |-> stack.capacity]
      /\ stack.language \in {"C", "C++"}
      /\ stack.data = [i \in Stack!Cells(stack.capacity) |-> stack.data[i]]
  BY DEF IsStack, Stack!pop
<1>1. stack' = [language |-> stack.language, data |-> stack.data, size |-> stack.size - 1,
                capacity |-> stack.capacity]
  BY <1>0 DEF Stack!pop
<1>2. IsStack(stack')
  <2>1. \A i \in Stack!Cells(stack.size - 1) : i \in Stack!Cells(stack.size)
    BY <1>0 DEF Stack!Cells
  <2>2. \A i \in Stack!Cells(stack.size - 1) : stack.data[i] \in Values BY <2>1 DEF IsStack
  <2>3. stack.size - 1 \in Nat /\ stack.size - 1 <= stack.capacity BY <1>0
  <2> QED BY <1>0, <1>1, <2>2, <2>3 DEF IsStack
<1> DEFINE n == stack.size - 1
           t == Below(stack)
           u == Below(stack')
<1>3. /\ t = [i \in 1 .. n + 1 |-> stack.data[i - 1]]
      /\ u = [i \in 1 .. n |-> stack.data[i - 1]]
      /\ n \in Nat /\ n + 1 = stack.size
  BY <1>0, <1>1 DEF Below
<1> HIDE DEF t, u, n
<1>4. \A i \in 1 .. n : i \in 1 .. n + 1 /\ t[i] = u[i] BY <1>3
<1>5. t[n + 1] = stack.data[stack.size - 1]
  <2>1. (n + 1) - 1 = stack.size - 1 BY <1>3
  <2>2. t[n + 1] = stack.data[(n + 1) - 1] BY <1>3
  <2> QED BY <2>1, <2>2
<1>6. t = [i \in 1 .. n + 1 |-> t[i]] /\ u = [i \in 1 .. n |-> u[i]] BY <1>3
<1>7. t = Append(u, stack.data[stack.size - 1])
  <2> DEFINE v == stack.data[stack.size - 1]
  <2>1. Append(u, v) = [i \in 1 .. n + 1 |-> IF i = n + 1 THEN v ELSE u[i]]
    <3> HIDE DEF v
    <3> QED BY <1>3, <1>6, OneMore
  <2>2. \A i \in 1 .. n + 1 : t[i] = IF i = n + 1 THEN v ELSE u[i] BY <1>3, <1>4, <1>5
  <2> QED BY <1>6, <2>1, <2>2
<1> QED BY <1>2, <1>7 DEF t, u

LEMMA StackSteps ==
    ASSUME STACK_INITIAL_SIZE \in Nat \ {0}, MaxCapacity \in Nat, IsStack(stack), [Stack!Next]_stack
    PROVE  IsStack(stack)' /\ (Stack!Keeps \/ UNCHANGED stack)
<1>0. Stack!Contents = Below(stack) /\ Stack!Contents' = Below(stack') BY DEF Stack!Contents, Below
<1>1. ASSUME NEW val \in Values, Stack!push(val) PROVE IsStack(stack') /\ Stack!Keeps
  <2>1. /\ IsStack(stack') /\ Below(stack') = Append(Below(stack), val)
        /\ stack'.data[stack'.size - 1] = val
    BY <1>1, StackPush
  <2> QED BY <1>0, <2>1 DEF Stack!Keeps, Stack!top
<1>2. CASE Stack!pop
  <2>1. IsStack(stack') /\ Below(stack) = Append(Below(stack'), stack.data[stack.size - 1])
    BY <1>2, StackPop
  <2> QED BY <1>0, <1>2, <2>1 DEF Stack!Keeps, Stack!top, Stack!pop
<1>3. CASE Stack!Reserve
  <2>1. PICK n \in 1 .. MaxCapacity : stack' = Stack!reserve(n) BY <1>3 DEF Stack!Reserve
  <2>2. CASE stack.capacity < n
    <3>1. n \in Nat /\ n >= stack.size BY <2>2 DEF IsStack
    <3>2. /\ IsStack(stack') /\ stack'.size = stack.size
          /\ \A i \in Stack!Cells(stack.size) : stack'.data[i] = stack.data[i]
      BY <2>1, <3>1, Reserved
    <3>3. \A i \in 1 .. stack.size : i - 1 \in Stack!Cells(stack.size) BY DEF Stack!Cells, IsStack
    <3>4. Below(stack') = Below(stack) BY <3>2, <3>3 DEF Below
    <3> QED BY <1>0, <3>2, <3>4 DEF Stack!Keeps
  <2>3. CASE ~(stack.capacity < n)
    <3>1. stack' = stack BY <2>1, <2>3 DEF Stack!reserve, IsStack
    <3> QED BY <3>1
  <2> QED BY <2>2, <2>3
<1>4. CASE UNCHANGED stack BY <1>4
<1> QED BY <1>1, <1>2, <1>3, <1>4 DEF Stack!Next

LEMMA StackIs ==
    ASSUME STACK_INITIAL_SIZE \in Nat \ {0}, MaxCapacity \in Nat
    PROVE  Stack!Spec => []IsStack(stack)
<1>1. Stack!Init => IsStack(stack) BY DEF Stack!Init, Stack!NULL, IsStack, Stack!Cells
<1>2. IsStack(stack) /\ [Stack!Next]_stack => IsStack(stack)' BY StackSteps
<1> QED BY <1>1, <1>2, PTL DEF Stack!Spec

(* Neither stack writes outside its block, and what is below its top has      *)
(* been pushed, whatever was reserved and however often the block has grown    *)
THEOREM StackIsSound ==
    ASSUME STACK_INITIAL_SIZE \in Nat \ {0}, MaxCapacity \in Nat
    PROVE  Stack!Spec => []Stack!Sound
<1>1. IsStack(stack) => Stack!Sound
  <2> SUFFICES ASSUME IsStack(stack) PROVE Stack!Sound
    OBVIOUS
  <2>1. /\ DOMAIN stack.data = Stack!Cells(stack.capacity) /\ stack.size <= stack.capacity
        /\ stack.size \in Nat
    BY DEF IsStack
  <2>2. \A i \in 1 .. stack.size : i - 1 \in Stack!Cells(stack.size) BY <2>1 DEF Stack!Cells
  <2>3. \A i \in 1 .. stack.size : stack.data[i - 1] \in Values BY <2>2 DEF IsStack
  <2> QED BY <2>1, <2>3 DEF Stack!Sound, Stack!Contents
<1> QED BY <1>1, StackIs, PTL

(* Elements leave the stacks in the reverse of the order they came *)
THEOREM StackKeeps ==
    ASSUME STACK_INITIAL_SIZE \in Nat \ {0}, MaxCapacity \in Nat
    PROVE  Stack!Spec => [][Stack!Keeps]_stack
<1>1. IsStack(stack) /\ [Stack!Next]_stack => [Stack!Keeps]_stack BY StackSteps
<1> QED BY <1>1, StackIs, PTL DEF Stack!Spec
-----------------------------------------------------------------------------
(***************************************************************************)
(* The disjoint sets                                                       *)
(***************************************************************************)
(* What was joined is a partition, in each of whose blocks the array leads   *)
(* from anywhere to the one set that is its own parent                         *)
Parts(n, blocks) ==
    /\ \A block \in blocks : block \subseteq Disjoint!Cells(n)
    /\ \A a \in Disjoint!Cells(n) : \E block \in blocks : a \in block
    /\ \A b1, b2 \in blocks : \A a \in Disjoint!Cells(n) : a \in b1 /\ a \in b2 => b1 = b2

Leads(n, sets) ==
    \A S \in SUBSET Disjoint!Cells(n) :
        S # {} /\ Disjoint!IsClosed(sets, S) => \E root \in S : sets[root] = root

Forest(n, sets, blocks) ==
    /\ sets \in [Disjoint!Cells(n) -> Disjoint!Cells(n)]
    /\ Parts(n, blocks)
    /\ \A block \in blocks : Disjoint!IsClosed(sets, block)
    /\ \A block \in blocks : \A r, s \in block : sets[r] = r /\ sets[s] = s => r = s
    /\ Leads(n, sets)

(* The root of a set is in its block *)
LEMMA RootOfBlock ==
    ASSUME NEW n \in Nat, NEW sets, NEW blocks, Forest(n, sets, blocks),
           NEW block \in blocks, NEW a \in block
    PROVE  LET root == Disjoint!RootIn(sets, a) IN
           root \in Disjoint!Path(sets, a) /\ root \in block /\ sets[root] = root
<1> DEFINE C == Disjoint!Cells(n)
           path == Disjoint!Path(sets, a)
<1>0. sets \in [C -> C] /\ DOMAIN sets = C BY DEF Forest
<1>1. a \in C /\ block \subseteq C /\ Disjoint!IsClosed(sets, block)
  BY DEF Forest, Parts
<1> HIDE DEF C
<1>2. a \in path /\ path \subseteq block /\ path \subseteq C
  BY <1>0, <1>1 DEF Disjoint!Path
<1>3. Disjoint!IsClosed(sets, path)
  <2> SUFFICES ASSUME NEW i \in path PROVE sets[i] \in path
    BY DEF Disjoint!IsClosed
  <2>1. sets[i] \in C BY <1>0, <1>2
  <2>2. ASSUME NEW S \in SUBSET C, a \in S, Disjoint!IsClosed(sets, S) PROVE sets[i] \in S
    <3>1. i \in S BY <1>0, <2>2 DEF Disjoint!Path
    <3> QED BY <2>2, <3>1 DEF Disjoint!IsClosed
  <2> QED BY <1>0, <2>1, <2>2 DEF Disjoint!Path
<1> HIDE DEF path
<1>4. \E root \in path : sets[root] = root
  BY <1>2, <1>3 DEF Forest, Leads, C
<1>5. Disjoint!RootIn(sets, a) \in path /\ sets[Disjoint!RootIn(sets, a)] = Disjoint!RootIn(sets, a)
  BY <1>4 DEF Disjoint!RootIn, path
<1> QED BY <1>2, <1>5 DEF path

(* A set is its own parent if it is its own root *)
LEMMA RootIsRoot ==
    ASSUME NEW n \in Nat, NEW sets, NEW blocks, Forest(n, sets, blocks), NEW a \in Disjoint!Cells(n)
    PROVE  /\ Disjoint!RootIn(sets, a) = a <=> sets[a] = a
           /\ Disjoint!RootIn(sets, a) \in Disjoint!Cells(n)
           /\ sets[Disjoint!RootIn(sets, a)] = Disjoint!RootIn(sets, a)
<1>1. PICK block \in blocks : a \in block BY DEF Forest, Parts
<1>2. /\ Disjoint!RootIn(sets, a) \in block
      /\ sets[Disjoint!RootIn(sets, a)] = Disjoint!RootIn(sets, a)
  BY <1>1, RootOfBlock
<1>3. sets[a] = a => Disjoint!RootIn(sets, a) = a BY <1>1, <1>2 DEF Forest
<1> QED BY <1>1, <1>2, <1>3 DEF Forest, Parts

(* Two sets have one root if and only if they are in one block *)
LEMMA OneRoot ==
    ASSUME NEW n \in Nat, NEW sets, NEW blocks, Forest(n, sets, blocks),
           NEW a \in Disjoint!Cells(n), NEW b \in Disjoint!Cells(n)
    PROVE  (Disjoint!RootIn(sets, a) = Disjoint!RootIn(sets, b)) <=>
                \E block \in blocks : {a, b} \subseteq block
<1>1. PICK ba \in blocks : a \in ba BY DEF Forest, Parts
<1>2. PICK bb \in blocks : b \in bb BY DEF Forest, Parts
<1> DEFINE ra == Disjoint!RootIn(sets, a)
           rb == Disjoint!RootIn(sets, b)
<1>3. ra \in ba /\ sets[ra] = ra BY <1>1, RootOfBlock
<1>4. rb \in bb /\ sets[rb] = rb BY <1>2, RootOfBlock
<1>5. \A block \in blocks : a \in block => block = ba BY <1>1 DEF Forest, Parts
<1>6. \A block \in blocks : b \in block => block = bb BY <1>2 DEF Forest, Parts
<1> HIDE DEF ra, rb
<1>7. ASSUME ra = rb PROVE ba = bb BY <1>3, <1>4, <1>7 DEF Forest, Parts
<1>8. ASSUME ba = bb PROVE ra = rb BY <1>3, <1>4, <1>8 DEF Forest
<1> QED BY <1>1, <1>2, <1>5, <1>6, <1>7, <1>8 DEF ra, rb

(* Pointing any sets at their roots leaves the roots where they were *)
LEMMA Shortened ==
    ASSUME NEW n \in Nat, NEW sets, NEW blocks, Forest(n, sets, blocks), NEW P,
           NEW short, short = [i \in DOMAIN sets |-> IF i \in P THEN Disjoint!RootIn(sets, i) ELSE sets[i]]
    PROVE  /\ Forest(n, short, blocks)
           /\ \A r \in Disjoint!Cells(n) : short[r] = r <=> sets[r] = r
<1> DEFINE C == Disjoint!Cells(n)
<1>0. sets \in [C -> C] /\ DOMAIN sets = C /\ Parts(n, blocks) BY DEF Forest
<1>1. \A i \in C : /\ Disjoint!RootIn(sets, i) \in C
                   /\ Disjoint!RootIn(sets, i) = i <=> sets[i] = i
                   /\ sets[Disjoint!RootIn(sets, i)] = Disjoint!RootIn(sets, i)
  BY RootIsRoot
<1> HIDE DEF C
<1>2. short \in [C -> C] BY <1>0, <1>1
<1>3. \A r \in C : short[r] = r <=> sets[r] = r BY <1>0, <1>1
<1>4. ASSUME NEW block \in blocks PROVE Disjoint!IsClosed(short, block)
  <2> SUFFICES ASSUME NEW i \in block PROVE short[i] \in block
    BY DEF Disjoint!IsClosed
  <2>1. i \in C BY DEF Forest, Parts, C
  <2>2. Disjoint!RootIn(sets, i) \in block BY RootOfBlock
  <2>3. sets[i] \in block BY DEF Forest, Disjoint!IsClosed
  <2> QED BY <1>0, <2>1, <2>2, <2>3
<1>5. ASSUME NEW block \in blocks, NEW r \in block, NEW s \in block, short[r] = r, short[s] = s
      PROVE  r = s
  <2>1. r \in C /\ s \in C BY DEF Forest, Parts, C
  <2>2. sets[r] = r /\ sets[s] = s BY <1>3, <1>5, <2>1
  <2> QED BY <2>2 DEF Forest
<1>6. ASSUME NEW S \in SUBSET C, S # {}, Disjoint!IsClosed(short, S)
      PROVE  \E root \in S : short[root] = root
  <2>1. ASSUME NEW i \in S, i \in P PROVE \E root \in S : short[root] = root
    <3>1. short[i] = Disjoint!RootIn(sets, i) /\ short[i] \in S /\ short[i] \in C
      BY <1>0, <1>1, <1>6, <2>1 DEF Disjoint!IsClosed
    <3>2. short[short[i]] = short[i] BY <1>1, <1>3, <3>1
    <3> QED BY <3>1, <3>2
  <2>2. ASSUME \A i \in S : i \notin P PROVE \E root \in S : short[root] = root
    <3>1. \A i \in S : short[i] = sets[i] BY <1>0, <1>6, <2>2
    <3>2. Disjoint!IsClosed(sets, S) BY <1>6, <3>1 DEF Disjoint!IsClosed
    <3>3. \E root \in S : sets[root] = root BY <1>6, <3>2 DEF Forest, Leads, C
    <3> QED BY <1>3, <1>6, <3>3
  <2> QED BY <2>1, <2>2
<1>7. Forest(n, short, blocks) BY <1>0, <1>2, <1>4, <1>5, <1>6 DEF Forest, Leads, C
<1> QED BY <1>3, <1>7 DEF C

(* Pointing the root of one block at that of another joins the two *)
LEMMA Joins ==
    ASSUME NEW n \in Nat, NEW sets, NEW blocks, Forest(n, sets, blocks),
           NEW b1 \in blocks, NEW b2 \in blocks, NEW r1 \in b1, NEW r2 \in b2,
           sets[r1] = r1, sets[r2] = r2
    PROVE  Forest(n, [sets EXCEPT ![r1] = r2], (blocks \ {b1, b2}) \cup {b1 \cup b2})
<1> DEFINE C == Disjoint!Cells(n)
           new == [sets EXCEPT ![r1] = r2]
           joined == (blocks \ {b1, b2}) \cup {b1 \cup b2}
<1>0. sets \in [C -> C] /\ Parts(n, blocks) /\ r1 \in C /\ r2 \in C BY DEF Forest, Parts
<1>1. \A b, c \in blocks : \A a \in C : a \in b /\ a \in c => b = c
  BY DEF Forest, Parts
<1>2. \A b \in blocks : b \subseteq C /\ \A a \in b : sets[a] \in b
  BY DEF Forest, Parts, Disjoint!IsClosed
<1>3. \A b \in blocks : \A r, s \in b : sets[r] = r /\ sets[s] = s => r = s BY DEF Forest
<1>4. \A a \in C : \E b \in blocks : a \in b BY DEF Forest, Parts
<1> HIDE DEF C
<1>5. new \in [C -> C] /\ new[r1] = r2 /\ \A a \in C \ {r1} : new[a] = sets[a] BY <1>0
<1> HIDE DEF new
<1>6. Parts(n, joined)
  <2>1. \A b \in joined : b \subseteq C BY <1>2
  <2>2. \A a \in C : \E b \in joined : a \in b
    <3> SUFFICES ASSUME NEW a \in C PROVE \E b \in joined : a \in b
      OBVIOUS
    <3>1. PICK b \in blocks : a \in b BY <1>4
    <3>2. CASE b \in {b1, b2} BY <3>1, <3>2
    <3>3. CASE b \notin {b1, b2} BY <3>1, <3>3
    <3> QED BY <3>2, <3>3
  <2>3. ASSUME NEW b \in joined, NEW c \in joined, NEW a \in C, a \in b, a \in c PROVE b = c
    <3>1. ASSUME NEW d \in blocks \ {b1, b2}, a \in d PROVE a \notin b1 \cup b2
      BY <1>1, <3>1
    <3> QED BY <1>1, <2>3, <3>1
  <2> QED BY <2>1, <2>2, <2>3 DEF Parts, C
<1>7. ASSUME NEW b \in joined, NEW a \in b PROVE new[a] \in b
  <2>1. a \in C BY <1>2
  <2>2. CASE b = b1 \cup b2 BY <1>2, <1>5, <2>1, <2>2
  <2>3. CASE b \in blocks \ {b1, b2}
    <3>1. a # r1 BY <1>1, <2>1, <2>3
    <3> QED BY <1>2, <1>5, <2>1, <2>3, <3>1
  <2> QED BY <2>2, <2>3
<1>8. ASSUME NEW b \in joined, NEW r \in b, NEW s \in b, new[r] = r, new[s] = s PROVE r = s
  <2>1. r \in C /\ s \in C BY <1>2
  <2>2. CASE b = b1 \cup b2
    <3>1. ASSUME NEW t \in b, t \in C, new[t] = t PROVE t = r2
      <4>1. CASE t = r1 BY <1>5, <3>1, <4>1
      <4>2. CASE t # r1 /\ t \in b1
        <5>1. sets[t] = t BY <1>5, <3>1, <4>2
        <5> QED BY <1>3, <4>2, <5>1
      <4>3. CASE t # r1 /\ t \in b2
        <5>1. sets[t] = t BY <1>5, <3>1, <4>3
        <5> QED BY <1>3, <4>3, <5>1
      <4> QED BY <2>2, <4>1, <4>2, <4>3
    <3> QED BY <1>8, <2>1, <3>1
  <2>3. CASE b \in blocks \ {b1, b2}
    <3>1. r # r1 /\ s # r1 BY <1>1, <2>1, <2>3
    <3>2. sets[r] = r /\ sets[s] = s BY <1>5, <1>8, <2>1, <3>1
    <3> QED BY <1>3, <2>3, <3>2
  <2> QED BY <2>2, <2>3
<1>9. ASSUME NEW S \in SUBSET C, S # {}, Disjoint!IsClosed(new, S)
      PROVE  \E root \in S : new[root] = root
  <2>0. new[r2] = r2 BY <1>0, <1>5
  <2>1. CASE r1 \in S
    <3>1. r2 \in S BY <1>5, <1>9, <2>1 DEF Disjoint!IsClosed
    <3> QED BY <2>0, <3>1
  <2>2. CASE r1 \notin S
    <3>1. \A a \in S : new[a] = sets[a] BY <1>5, <2>2
    <3>2. Disjoint!IsClosed(sets, S) BY <1>9, <3>1 DEF Disjoint!IsClosed
    <3>3. \E root \in S : sets[root] = root BY <1>9, <3>2 DEF Forest, Leads, C
    <3> QED BY <3>1, <3>3
  <2> QED BY <2>1, <2>2
<1> QED BY <1>5, <1>6, <1>7, <1>8, <1>9 DEF Forest, Leads, Disjoint!IsClosed, C, new

(* A new set is a block of its own *)
LEMMA Added ==
    ASSUME NEW n \in Nat, NEW sets, NEW blocks, Forest(n, sets, blocks),
           NEW new, new = [i \in Disjoint!Cells(n + 1) |-> IF i = n THEN i ELSE sets[i]]
    PROVE  Forest(n + 1, new, blocks \cup {{n}})
<1> DEFINE C == Disjoint!Cells(n)
           D == Disjoint!Cells(n + 1)
<1>0. sets \in [C -> C] BY DEF Forest
<1>1. D = C \cup {n} /\ n \notin C BY DEF Disjoint!Cells
<1>2. \A b \in blocks : b \subseteq C /\ \A a \in b : sets[a] \in b
  BY DEF Forest, Parts, Disjoint!IsClosed
<1>3. Parts(n, blocks) /\ \A b \in blocks : \A r, s \in b : sets[r] = r /\ sets[s] = s => r = s
  BY DEF Forest
<1>4. /\ \A b1, b2 \in blocks : \A a \in C : a \in b1 /\ a \in b2 => b1 = b2
      /\ \A a \in C : \E b \in blocks : a \in b
  BY <1>3 DEF Parts
<1> HIDE DEF C
<1>5. new = [i \in D |-> IF i = n THEN i ELSE sets[i]] OBVIOUS
<1> HIDE DEF D
<1>6. new \in [D -> D] /\ new[n] = n /\ \A i \in C : new[i] = sets[i] BY <1>0, <1>1, <1>5
<1>7. Parts(n + 1, blocks \cup {{n}})
  <2>1. \A b \in blocks \cup {{n}} : b \subseteq D BY <1>1, <1>2
  <2>2. \A a \in D : \E b \in blocks \cup {{n}} : a \in b
    <3>1. \A a \in C : \E b \in blocks \cup {{n}} : a \in b BY <1>4
    <3> QED BY <1>1, <3>1
  <2>3. ASSUME NEW b1 \in blocks \cup {{n}}, NEW b2 \in blocks \cup {{n}}, NEW a \in D,
               a \in b1, a \in b2
        PROVE  b1 = b2
    <3>1. CASE a = n
      <4>1. \A b \in blocks : a \notin b BY <1>1, <1>2, <3>1
      <4> QED BY <2>3, <4>1
    <3>2. CASE a \in C
      <4>1. a # n BY <1>1, <3>2
      <4> QED BY <1>4, <2>3, <3>2, <4>1
    <3> QED BY <1>1, <3>1, <3>2
  <2> QED BY <2>1, <2>2, <2>3 DEF Parts, D
<1>8. ASSUME NEW b \in blocks \cup {{n}}
      PROVE  /\ \A a \in b : new[a] \in b
             /\ \A r, s \in b : new[r] = r /\ new[s] = s => r = s
  <2>1. CASE b = {n} BY <1>6, <2>1
  <2>2. CASE b \in blocks
    <3>1. \A a \in b : new[a] = sets[a] BY <1>2, <1>6, <2>2
    <3> QED BY <1>2, <1>3, <2>2, <3>1
  <2> QED BY <2>1, <2>2
<1>9. ASSUME NEW S \in SUBSET D, S # {}, Disjoint!IsClosed(new, S)
      PROVE  \E root \in S : new[root] = root
  <2>1. CASE n \in S BY <1>6, <2>1
  <2>2. CASE n \notin S
    <3>1. S \subseteq C /\ \A a \in S : new[a] = sets[a] BY <1>1, <1>6, <2>2
    <3>2. Disjoint!IsClosed(sets, S) BY <1>9, <3>1 DEF Disjoint!IsClosed
    <3>3. \E root \in S : sets[root] = root BY <1>9, <3>1, <3>2 DEF Forest, Leads, C
    <3> QED BY <3>1, <3>3
  <2> QED BY <2>1, <2>2
<1> QED BY <1>6, <1>7, <1>8, <1>9 DEF Forest, Leads, Disjoint!IsClosed, D
-----------------------------------------------------------------------------
IsForest ==
    /\ disjoint \in [sets : {disjoint.sets}, size : Nat, capacity : Nat, blocks : {disjoint.blocks}]
    /\ disjoint.size <= disjoint.capacity
    /\ Forest(disjoint.size, disjoint.sets, disjoint.blocks)

LEMMA ForestInit == MaxSets \in Nat /\ Disjoint!Init => IsForest
<1> SUFFICES ASSUME MaxSets \in Nat, NEW n \in 0 .. MaxSets, Disjoint!new_with_size(n)
             PROVE  IsForest
  BY DEF Disjoint!Init
<1> DEFINE C == Disjoint!Cells(n)
           sets == [i \in C |-> i]
           blocks == {{i} : i \in C}
<1>1. /\ disjoint.sets = sets /\ disjoint.size = n /\ disjoint.capacity = n
      /\ disjoint.blocks = blocks /\ n \in Nat
      /\ disjoint \in [sets : {sets}, size : Nat, capacity : Nat, blocks : {blocks}]
  BY DEF Disjoint!new_with_size
<1> HIDE DEF C
<1>2. sets \in [C -> C] /\ \A i \in C : sets[i] = i OBVIOUS
<1>3. Parts(n, blocks) BY DEF Parts, C
<1>4. \A b \in blocks : /\ Disjoint!IsClosed(sets, b)
                        /\ \A r, s \in b : r = s
  BY <1>2 DEF Disjoint!IsClosed
<1>5. Leads(n, sets) BY <1>2 DEF Leads, C
<1> HIDE DEF sets, blocks
<1>6. Forest(n, sets, blocks) BY <1>2, <1>3, <1>4, <1>5 DEF Forest, C
<1> QED BY <1>1, <1>6 DEF IsForest

LEMMA ForestNext ==
    ASSUME DISJOINT_SETS_INITIAL_CAPACITY \in Nat \ {0}, IsForest, [Disjoint!Next]_disjoint
    PROVE  IsForest'
<1> DEFINE n == disjoint.size
           sets == disjoint.sets
           blocks == disjoint.blocks
           C == Disjoint!Cells(n)
<1>0. /\ n \in Nat /\ disjoint.capacity \in Nat /\ n <= disjoint.capacity
      /\ Forest(n, sets, blocks) /\ DOMAIN sets = C
      /\ disjoint = [sets |-> sets, size |-> n, capacity |-> disjoint.capacity, blocks |-> blocks]
  BY DEF IsForest, Forest
<1>1. CASE Disjoint!add_set
  <2> DEFINE new == [i \in Disjoint!Cells(n + 1) |-> IF i = n THEN i ELSE sets[i]]
  <2>1. disjoint' = [sets |-> new, size |-> n + 1, capacity |-> Disjoint!grow,
                     blocks |-> blocks \cup {{n}}]
    BY <1>1 DEF Disjoint!add_set
  <2>2. Forest(n + 1, new, blocks \cup {{n}}) BY <1>0, Added
  <2>3. Disjoint!grow \in Nat /\ n + 1 <= Disjoint!grow BY <1>0 DEF Disjoint!grow
  <2> HIDE DEF new, n, blocks
  <2>4. n + 1 \in Nat BY <1>0
  <2> QED BY <2>1, <2>2, <2>3, <2>4 DEF IsForest
<1>2. ASSUME NEW set_1 \in C, NEW set_2 \in C,
             Disjoint!are_same_set(set_1, set_2) \/ Disjoint!join(set_1, set_2)
      PROVE  IsForest'
  <2> DEFINE short == Disjoint!Compressed({set_1, set_2})
             P == {i \in C : i < n /\ \E s \in {set_1, set_2} : i \in Disjoint!Path(sets, s)}
  <2>1. short = [i \in DOMAIN sets |-> IF i \in P THEN Disjoint!RootIn(sets, i) ELSE sets[i]]
    BY <1>0 DEF Disjoint!Compressed, Disjoint!root_of
  <2>2. Forest(n, short, blocks) /\ \A r \in C : short[r] = r <=> sets[r] = r
    <3> HIDE DEF short, P, n, sets, blocks
    <3> QED BY <1>0, <2>1, Shortened DEF C
  <2> HIDE DEF short
  <2>3. CASE Disjoint!are_same_set(set_1, set_2)
    <3>1. disjoint' = [sets |-> short, size |-> n, capacity |-> disjoint.capacity, blocks |-> blocks]
      BY <1>0, <2>3, Zenon DEF Disjoint!are_same_set, short
    <3> HIDE DEF n, sets, blocks
    <3> QED BY <1>0, <2>2, <3>1 DEF IsForest
  <2>4. CASE Disjoint!join(set_1, set_2)
    <3> DEFINE of(s) == CHOOSE b \in blocks : s \in b
               r1 == Disjoint!RootIn(sets, set_1)
               r2 == Disjoint!RootIn(sets, set_2)
    <3>1. of(set_1) \in blocks /\ set_1 \in of(set_1) /\ of(set_2) \in blocks /\ set_2 \in of(set_2)
      BY <1>0 DEF Forest, Parts
    <3>2. disjoint' = [disjoint EXCEPT !.sets = [short EXCEPT ![r1] = r2],
                                       !.blocks = (@ \ {of(set_1), of(set_2)})
                                                    \cup {of(set_1) \cup of(set_2)}]
      BY <2>4, Zenon DEF Disjoint!join, Disjoint!Joined, Disjoint!root_of, short
    <3>3. PICK b1, b2 : b1 = of(set_1) /\ b2 = of(set_2) OBVIOUS
    <3> HIDE DEF of
    <3>4. disjoint' = [sets |-> [short EXCEPT ![r1] = r2], size |-> n, capacity |-> disjoint.capacity,
                       blocks |-> (blocks \ {b1, b2}) \cup {b1 \cup b2}]
      BY <1>0, <3>2, <3>3
    <3>5. b1 \in blocks /\ b2 \in blocks /\ set_1 \in b1 /\ set_2 \in b2 BY <3>1, <3>3
    <3> HIDE DEF n, sets, blocks
    <3>6. /\ r1 \in b1 /\ sets[r1] = r1 /\ r1 \in C
          /\ r2 \in b2 /\ sets[r2] = r2 /\ r2 \in C
      <4>1. r1 \in b1 /\ sets[r1] = r1 BY <1>0, <3>5, RootOfBlock
      <4>2. r2 \in b2 /\ sets[r2] = r2 BY <1>0, <3>5, RootOfBlock
      <4> QED BY <1>0, <3>5, <4>1, <4>2 DEF Forest, Parts
    <3> HIDE DEF r1, r2, C
    <3>7. short[r1] = r1 /\ short[r2] = r2 BY <2>2, <3>6
    <3>8. Forest(n, [short EXCEPT ![r1] = r2], (blocks \ {b1, b2}) \cup {b1 \cup b2})
      BY <1>0, <2>2, <3>5, <3>6, <3>7, Joins
    <3> QED BY <1>0, <3>4, <3>8 DEF IsForest
  <2> QED BY <1>2, <2>3, <2>4
<1>3. CASE UNCHANGED disjoint BY <1>3 DEF IsForest
<1> QED BY <1>1, <1>2, <1>3 DEF Disjoint!Next

(* Two sets have one root if and only if they were joined, for every number  *)
(* of sets, whatever was asked in between and however the questions shortened *)
(* the paths; every walk to a root ends                                         *)
THEOREM SetsAreSound ==
    ASSUME DISJOINT_SETS_INITIAL_CAPACITY \in Nat \ {0}, MaxSets \in Nat
    PROVE  Disjoint!Spec => []Disjoint!Sound
<1>1. Disjoint!Init => IsForest BY ForestInit
<1>2. IsForest /\ [Disjoint!Next]_disjoint => IsForest' BY ForestNext
<1>3. IsForest => Disjoint!Sound
  <2> SUFFICES ASSUME IsForest PROVE Disjoint!Sound
    OBVIOUS
  <2> DEFINE n == disjoint.size
             sets == disjoint.sets
             blocks == disjoint.blocks
  <2>1. n \in Nat /\ n <= disjoint.capacity /\ Forest(n, sets, blocks) BY DEF IsForest
  <2> HIDE DEF n, sets, blocks
  <2>2. ASSUME NEW a \in Disjoint!Cells(n)
        PROVE  \E root \in Disjoint!Path(sets, a) : sets[root] = root
    <3>1. PICK block \in blocks : a \in block BY <2>1 DEF Forest, Parts
    <3>2. /\ Disjoint!RootIn(sets, a) \in Disjoint!Path(sets, a)
          /\ sets[Disjoint!RootIn(sets, a)] = Disjoint!RootIn(sets, a)
      BY <2>1, <3>1, RootOfBlock
    <3> QED BY <3>2
  <2>3. \A a, b \in Disjoint!Cells(n) :
           (Disjoint!RootIn(sets, a) = Disjoint!RootIn(sets, b)) <=>
                \E block \in blocks : {a, b} \subseteq block
    BY <2>1, OneRoot
  <2> QED BY <2>1, <2>2, <2>3 DEF Disjoint!Sound, Disjoint!root_of, n, sets, blocks
<1> QED BY <1>1, <1>2, <1>3, PTL DEF Disjoint!Spec
-----------------------------------------------------------------------------
(***************************************************************************)
(* The file organised as a hash                                            *)
(***************************************************************************)
FilesAssumption ==
    /\ Dnis \subseteq Nat /\ MaxAlumns \in Nat
    /\ REGS_PER_BUCKET \in Nat \ {0} /\ BUCKETS \in Nat \ {0} /\ OVERFLOW_BUCKETS \in Nat \ {0}

Homes == Files!Indexes \ Files!Overflow
Bucket == [alumns : Seq(Nat), element_count : Nat]
In(b) == {b.alumns[n] : n \in DOMAIN b.alumns}

(* The same as in the model, of any file *)
Found(file, dni) ==
    \/ dni \in In(file[Files!hash(dni)])
    \/ ~Files!HasRoom(file[Files!hash(dni)]) /\ \E i \in Files!Overflow : dni \in In(file[i])
Beyond(file) ==
    UNION {{i} \X (Len(file[i].alumns) + 1 .. file[i].element_count) : i \in Homes}
Overflown(file) == UNION {{i} \X (1 .. file[i].element_count) : i \in Files!Overflow}

(* A bucket of the hash is full before its count exceeds what it holds; an   *)
(* overflow bucket never counts more than it holds, nor is written in the     *)
(* buffer                                                                      *)
IsHash(file, flushed) ==
    /\ file \in [Files!Indexes -> Bucket]
    /\ \A i \in Homes :
          Len(file[i].alumns) = IF Files!HasRoom(file[i]) THEN file[i].element_count ELSE REGS_PER_BUCKET
    /\ \A i \in Files!Overflow :
          /\ Len(file[i].alumns) = file[i].element_count /\ file[i].element_count <= REGS_PER_BUCKET
          /\ i >= flushed => file[i] = Files!EmptyBucket
    /\ flushed = BUCKETS => \A i \in Homes : file[i].element_count <= REGS_PER_BUCKET
    /\ IsFiniteSet(Beyond(file)) /\ IsFiniteSet(Overflown(file))
    /\ Cardinality(Beyond(file)) = Cardinality(Overflown(file))

HashInv ==
    /\ hashed \in [file : {hashed.file}, flushed : {BUCKETS, Files!Total - 1}, input : Seq(Dnis),
                   alumn : Nat, accepted : SUBSET Nat, refused : SUBSET Nat,
                   pc : {"reading", "read", "ended"}]
    /\ IsHash(hashed.file, hashed.flushed)
    /\ \A dni \in hashed.accepted : Found(hashed.file, dni)
    /\ hashed.refused # {} => Files!WithRoom = {}

LEMMA Places ==
    ASSUME FilesAssumption
    PROVE  /\ Homes = 0 .. BUCKETS - 1
           /\ Files!Overflow = BUCKETS .. Files!Total - 1
           /\ Files!Indexes = Homes \cup Files!Overflow /\ Homes \cap Files!Overflow = {}
           /\ Files!Total - 1 \in Nat /\ BUCKETS <= Files!Total - 1
           /\ \A dni \in Nat : Files!hash(dni) \in Homes
BY DEF FilesAssumption, Homes, Files!Indexes, Files!Overflow, Files!Total, Files!hash

LEMMA WithIs ==
    ASSUME NEW b \in Bucket, NEW alumn \in Nat
    PROVE  /\ Files!With(b, alumn) \in Bucket
           /\ Files!With(b, alumn).element_count = b.element_count + 1
           /\ Len(Files!With(b, alumn).alumns) = Len(b.alumns) + 1
           /\ In(Files!With(b, alumn)) = In(b) \cup {alumn}
<1> DEFINE s == b.alumns
           t == Append(s, alumn)
<1>1. s \in Seq(Nat) /\ b.element_count \in Nat BY DEF Bucket
<1>2. Files!With(b, alumn) = [alumns |-> t, element_count |-> b.element_count + 1]
  BY DEF Files!With
<1> HIDE DEF s
<1>3. /\ t \in Seq(Nat) /\ Len(t) = Len(s) + 1 /\ Len(s) \in Nat
      /\ \A n \in 1 .. Len(s) : t[n] = s[n]
      /\ t[Len(s) + 1] = alumn
      /\ DOMAIN s = 1 .. Len(s) /\ DOMAIN t = 1 .. Len(s) + 1
  BY <1>1, AppendProperties, LenProperties
<1> HIDE DEF t
<1>4. {t[n] : n \in DOMAIN t} = {s[n] : n \in DOMAIN s} \cup {alumn}
  <2>1. \A n \in 1 .. Len(s) + 1 : n \in 1 .. Len(s) \/ n = Len(s) + 1 BY <1>3
  <2> DEFINE A == {t[n] : n \in DOMAIN t}
             B == {s[n] : n \in DOMAIN s}
  <2>2. ASSUME NEW x \in A PROVE x \in B \cup {alumn}
    <3>1. PICK n \in 1 .. Len(s) + 1 : x = t[n] BY <1>3
    <3> QED BY <1>3, <2>1, <3>1
  <2>3. ASSUME NEW x \in B PROVE x \in A
    <3>1. PICK n \in 1 .. Len(s) : x = s[n] BY <1>3
    <3>2. n \in 1 .. Len(s) + 1 BY <1>3
    <3> QED BY <1>3, <3>1, <3>2
  <2>4. alumn \in A
    <3>1. Len(s) + 1 \in 1 .. Len(s) + 1 BY <1>3
    <3> QED BY <1>3, <3>1
  <2> HIDE DEF A, B
  <2>5. A = B \cup {alumn} BY <2>2, <2>3, <2>4
  <2> QED BY <2>5 DEF A, B
<1> DEFINE w == Files!With(b, alumn)
<1>5. w.alumns = t /\ w.element_count = b.element_count + 1 /\ w \in Bucket
  BY <1>1, <1>2, <1>3 DEF Bucket
<1>6. In(w) = {t[n] : n \in DOMAIN t} /\ In(b) = {s[n] : n \in DOMAIN s} BY <1>5 DEF In, s
<1> HIDE DEF w
<1>7. In(w) = In(b) \cup {alumn} BY <1>4, <1>6
<1>8. Len(w.alumns) = Len(b.alumns) + 1 BY <1>3, <1>5 DEF s
<1> QED BY <1>5, <1>7, <1>8 DEF w

LEMMA FirstIs ==
    ASSUME NEW S, S \subseteq Nat, S # {} PROVE Files!First(S) \in S
<1>1. PICK m \in S : \A k \in S : <<k, m>> \notin OpToRel(<, Nat)
  BY NatLessThanWellFounded, WFMin
<1>2. \A k \in S : ~(k < m) BY <1>1 DEF OpToRel
<1>3. \A k \in S : m <= k BY <1>2
<1>4. \E i \in S : \A j \in S : i <= j BY <1>3
<1> QED BY <1>4 DEF Files!First
-----------------------------------------------------------------------------
LEMMA OneLonger ==
    ASSUME NEW m \in Nat, NEW k \in Nat, m <= k
    PROVE  m + 1 .. k + 1 = (m + 1 .. k) \cup {k + 1}
OBVIOUS

(* A student for whom the bucket has room *)
LEMMA InsertHome ==
    ASSUME FilesAssumption, NEW file, NEW flushed, IsHash(file, flushed), NEW alumn \in Nat,
           Files!HasRoom(file[Files!hash(alumn)])
    PROVE  LET home == Files!hash(alumn)
               new == [file EXCEPT ![home] = Files!With(file[home], alumn)] IN
           /\ IsHash(new, flushed) /\ alumn \in In(new[home])
           /\ \A i \in Files!Indexes : /\ In(file[i]) \subseteq In(new[i])
                                       /\ file[i].element_count <= new[i].element_count
<1> DEFINE home == Files!hash(alumn)
           new == [file EXCEPT ![home] = Files!With(file[home], alumn)]
<1>0. /\ home \in Homes /\ home \in Files!Indexes /\ Files!Indexes = Homes \cup Files!Overflow
      /\ home \notin Files!Overflow /\ REGS_PER_BUCKET \in Nat
  BY Places DEF FilesAssumption
<1> DEFINE b == file[home]
           w == Files!With(b, alumn)
<1>1. file \in [Files!Indexes -> Bucket] /\ b \in Bucket BY <1>0 DEF IsHash
<1>2. /\ w \in Bucket /\ w.element_count = b.element_count + 1
      /\ Len(w.alumns) = Len(b.alumns) + 1 /\ In(w) = In(b) \cup {alumn}
  BY <1>1, WithIs
<1>3. /\ b.element_count < REGS_PER_BUCKET /\ Len(b.alumns) = b.element_count
      /\ b.element_count \in Nat
  BY <1>0, <1>1 DEF IsHash, Files!HasRoom, Bucket
<1> HIDE DEF w
<1>4. /\ new \in [Files!Indexes -> Bucket] /\ new[home] = w
      /\ \A i \in Files!Indexes \ {home} : new[i] = file[i]
  BY <1>0, <1>1, <1>2 DEF w
<1> HIDE DEF b, home, new
<1>5. ASSUME NEW i \in Homes
      PROVE  /\ Len(new[i].alumns) = IF Files!HasRoom(new[i]) THEN new[i].element_count ELSE REGS_PER_BUCKET
             /\ Len(new[i].alumns) + 1 .. new[i].element_count
                  = Len(file[i].alumns) + 1 .. file[i].element_count
             /\ flushed = BUCKETS => new[i].element_count <= REGS_PER_BUCKET
  <2>1. CASE i = home
    <3>1. Len(w.alumns) = w.element_count /\ w.element_count <= REGS_PER_BUCKET
      BY <1>0, <1>2, <1>3
    <3>2. ~Files!HasRoom(w) => w.element_count = REGS_PER_BUCKET
      BY <1>0, <1>2, <1>3, <3>1 DEF Files!HasRoom
    <3>3. Len(w.alumns) + 1 .. w.element_count = {} BY <1>2, <1>3
    <3>4. Len(b.alumns) + 1 .. b.element_count = {} BY <1>3
    <3> QED BY <1>4, <2>1, <3>1, <3>2, <3>3, <3>4 DEF b
  <2>2. CASE i # home BY <1>0, <1>4, <2>2 DEF IsHash
  <2> QED BY <2>1, <2>2
<1>6. \A i \in Files!Overflow : new[i] = file[i] BY <1>0, <1>4
<1>7. Beyond(new) = Beyond(file) BY <1>5 DEF Beyond
<1>8. Overflown(new) = Overflown(file) BY <1>6 DEF Overflown
<1>9. IsHash(new, flushed) BY <1>4, <1>5, <1>6, <1>7, <1>8 DEF IsHash
<1>10. \A i \in Files!Indexes : /\ In(file[i]) \subseteq In(new[i])
                                /\ file[i].element_count <= new[i].element_count
  <2>1. \A i \in Files!Indexes : file[i].element_count \in Nat BY <1>1 DEF Bucket
  <2> QED BY <1>2, <1>3, <1>4, <2>1 DEF b
<1> QED BY <1>2, <1>4, <1>9, <1>10 DEF home, new

(* A student who goes to the first overflow bucket with room *)
LEMMA InsertOverflow ==
    ASSUME FilesAssumption, NEW file, NEW flushed \in Nat, IsHash(file, flushed), NEW alumn \in Nat,
           ~Files!HasRoom(file[Files!hash(alumn)]),
           NEW o \in Files!Overflow, o < flushed, Files!HasRoom(file[o])
    PROVE  LET home == Files!hash(alumn)
               new == [file EXCEPT ![home] = Files!Counted(file[home]), ![o] = Files!With(@, alumn)] IN
           /\ IsHash(new, flushed) /\ alumn \in In(new[o]) /\ ~Files!HasRoom(new[home])
           /\ \A i \in Files!Indexes : /\ In(file[i]) \subseteq In(new[i])
                                       /\ file[i].element_count <= new[i].element_count
<1> DEFINE home == Files!hash(alumn)
           new == [file EXCEPT ![home] = Files!Counted(file[home]), ![o] = Files!With(@, alumn)]
<1>0. /\ home \in Homes /\ home \in Files!Indexes /\ Files!Indexes = Homes \cup Files!Overflow
      /\ home \notin Files!Overflow /\ o \notin Homes /\ REGS_PER_BUCKET \in Nat /\ o \in Files!Indexes
      /\ home # o
  BY Places DEF FilesAssumption
<1> DEFINE b == file[home]
           c == Files!Counted(b)
           w == Files!With(file[o], alumn)
<1>1. file \in [Files!Indexes -> Bucket] /\ b \in Bucket /\ file[o] \in Bucket BY <1>0 DEF IsHash
<1>2. /\ w \in Bucket /\ w.element_count = file[o].element_count + 1
      /\ Len(w.alumns) = Len(file[o].alumns) + 1 /\ In(w) = In(file[o]) \cup {alumn}
  BY <1>1, WithIs
<1>3. /\ c \in Bucket /\ c.element_count = b.element_count + 1 /\ c.alumns = b.alumns
      /\ b.element_count \in Nat
  <2>1. b = [alumns |-> b.alumns, element_count |-> b.element_count]
        /\ b.alumns \in Seq(Nat) /\ b.element_count \in Nat
    BY <1>1 DEF Bucket
  <2> HIDE DEF b
  <2>2. c = [alumns |-> b.alumns, element_count |-> b.element_count + 1]
    BY <2>1 DEF Files!Counted
  <2> QED BY <2>1, <2>2 DEF Bucket
<1>4. /\ ~(b.element_count < REGS_PER_BUCKET) /\ Len(b.alumns) = REGS_PER_BUCKET
      /\ file[o].element_count < REGS_PER_BUCKET /\ Len(file[o].alumns) = file[o].element_count
      /\ file[o].element_count \in Nat
  BY <1>0, <1>1 DEF IsHash, Files!HasRoom, Bucket
<1> HIDE DEF w, c
<1>5. /\ new \in [Files!Indexes -> Bucket] /\ new[home] = c /\ new[o] = w
      /\ \A i \in Files!Indexes \ {home, o} : new[i] = file[i]
  BY <1>0, <1>1, <1>2, <1>3 DEF w, c
<1> HIDE DEF b, home, new
<1>6. ~Files!HasRoom(c) BY <1>0, <1>3, <1>4 DEF Files!HasRoom
<1>7. \A i \in Homes :
         Len(new[i].alumns) = IF Files!HasRoom(new[i]) THEN new[i].element_count ELSE REGS_PER_BUCKET
  <2> SUFFICES ASSUME NEW i \in Homes
               PROVE  Len(new[i].alumns) = IF Files!HasRoom(new[i]) THEN new[i].element_count ELSE REGS_PER_BUCKET
    OBVIOUS
  <2>1. CASE i = home BY <1>3, <1>4, <1>5, <1>6, <2>1
  <2>2. CASE i # home
    <3>1. new[i] = file[i] BY <1>0, <1>5, <2>2
    <3> QED BY <3>1 DEF IsHash
  <2> QED BY <2>1, <2>2
<1>8. \A i \in Files!Overflow :
         /\ Len(new[i].alumns) = new[i].element_count /\ new[i].element_count <= REGS_PER_BUCKET
         /\ i >= flushed => new[i] = Files!EmptyBucket
  <2> SUFFICES ASSUME NEW i \in Files!Overflow
               PROVE  /\ Len(new[i].alumns) = new[i].element_count /\ new[i].element_count <= REGS_PER_BUCKET
                      /\ i >= flushed => new[i] = Files!EmptyBucket
    OBVIOUS
  <2>1. CASE i = o
    <3>1. ~(o >= flushed) BY Places DEF FilesAssumption
    <3> QED BY <1>0, <1>2, <1>4, <1>5, <2>1, <3>1
  <2>2. CASE i # o
    <3>1. new[i] = file[i] BY <1>0, <1>5, <2>2
    <3> QED BY <3>1 DEF IsHash
  <2> QED BY <2>1, <2>2
<1>9. flushed # BUCKETS BY Places DEF FilesAssumption
<1>10. /\ IsFiniteSet(Beyond(new)) /\ Cardinality(Beyond(new)) = Cardinality(Beyond(file)) + 1
  <2> DEFINE p == <<home, b.element_count + 1>>
             R(f, i) == Len(f[i].alumns) + 1 .. f[i].element_count
  <2>1. R(new, home) = R(file, home) \cup {b.element_count + 1}
    <3>1. R(new, home) = REGS_PER_BUCKET + 1 .. b.element_count + 1 BY <1>3, <1>4, <1>5
    <3>2. R(file, home) = REGS_PER_BUCKET + 1 .. b.element_count BY <1>4 DEF b
    <3>3. REGS_PER_BUCKET <= b.element_count BY <1>0, <1>3, <1>4
    <3> QED BY <1>0, <1>3, <3>1, <3>2, <3>3, OneLonger
  <2>2. b.element_count + 1 \notin R(file, home) BY <1>3, <1>4 DEF b
  <2>3. \A i \in Homes \ {home} : R(new, i) = R(file, i) BY <1>0, <1>5
  <2>4. /\ Beyond(new) = UNION {{i} \X R(new, i) : i \in Homes}
        /\ Beyond(file) = UNION {{i} \X R(file, i) : i \in Homes}
    BY DEF Beyond
  <2> HIDE DEF R
  <2>5. Beyond(new) = Beyond(file) \cup {p}
    <3>1. ASSUME NEW q \in Beyond(new) PROVE q \in Beyond(file) \cup {p}
      <4>1. PICK i \in Homes : q \in {i} \X R(new, i) BY <2>4, <3>1
      <4>2. CASE i = home
        <5>1. q[2] \in R(file, home) \/ q[2] = b.element_count + 1 BY <2>1, <4>1, <4>2
        <5>2. q = <<home, q[2]>> BY <4>1, <4>2
        <5> QED BY <1>0, <2>4, <5>1, <5>2
      <4>3. CASE i # home BY <2>3, <2>4, <4>1, <4>3
      <4> QED BY <4>2, <4>3
    <3>2. ASSUME NEW q \in Beyond(file) PROVE q \in Beyond(new)
      <4>1. PICK i \in Homes : q \in {i} \X R(file, i) BY <2>4, <3>2
      <4>2. R(file, i) \subseteq R(new, i) BY <2>1, <2>3
      <4>3. q \in {i} \X R(new, i) BY <4>1, <4>2
      <4> QED BY <2>4, <4>3
    <3>3. p \in Beyond(new)
      <4>1. p \in {home} \X R(new, home) BY <2>1
      <4> HIDE DEF p
      <4> QED BY <1>0, <2>4, <4>1
    <3> QED BY <3>1, <3>2, <3>3
  <2>6. p \notin Beyond(file)
    <3>1. ASSUME NEW i \in Homes, p \in {i} \X R(file, i) PROVE FALSE
      <4>1. i = home /\ b.element_count + 1 \in R(file, i) BY <3>1
      <4> QED BY <2>2, <4>1
    <3> QED BY <2>4, <3>1
  <2> HIDE DEF p
  <2> QED BY <2>5, <2>6, FS_AddElement DEF IsHash
<1>11. /\ IsFiniteSet(Overflown(new)) /\ Cardinality(Overflown(new)) = Cardinality(Overflown(file)) + 1
  <2> DEFINE p == <<o, file[o].element_count + 1>>
             R(f, i) == 1 .. f[i].element_count
  <2>1. R(new, o) = R(file, o) \cup {file[o].element_count + 1} BY <1>2, <1>4, <1>5
  <2>2. file[o].element_count + 1 \notin R(file, o) BY <1>4
  <2>3. \A i \in Files!Overflow \ {o} : R(new, i) = R(file, i) BY <1>0, <1>5
  <2>4. /\ Overflown(new) = UNION {{i} \X R(new, i) : i \in Files!Overflow}
        /\ Overflown(file) = UNION {{i} \X R(file, i) : i \in Files!Overflow}
    BY DEF Overflown
  <2> HIDE DEF R
  <2>5. Overflown(new) = Overflown(file) \cup {p}
    <3>1. ASSUME NEW q \in Overflown(new) PROVE q \in Overflown(file) \cup {p}
      <4>1. PICK i \in Files!Overflow : q \in {i} \X R(new, i) BY <2>4, <3>1
      <4>2. CASE i = o
        <5>1. q[2] \in R(file, o) \/ q[2] = file[o].element_count + 1 BY <2>1, <4>1, <4>2
        <5>2. q = <<o, q[2]>> BY <4>1, <4>2
        <5> QED BY <2>4, <5>1, <5>2
      <4>3. CASE i # o BY <2>3, <2>4, <4>1, <4>3
      <4> QED BY <4>2, <4>3
    <3>2. ASSUME NEW q \in Overflown(file) PROVE q \in Overflown(new)
      <4>1. PICK i \in Files!Overflow : q \in {i} \X R(file, i) BY <2>4, <3>2
      <4>2. R(file, i) \subseteq R(new, i) BY <2>1, <2>3
      <4>3. q \in {i} \X R(new, i) BY <4>1, <4>2
      <4> QED BY <2>4, <4>3
    <3>3. p \in Overflown(new)
      <4>1. p \in {o} \X R(new, o) BY <2>1
      <4> HIDE DEF p
      <4> QED BY <2>4, <4>1
    <3> QED BY <3>1, <3>2, <3>3
  <2>6. p \notin Overflown(file)
    <3>1. ASSUME NEW i \in Files!Overflow, p \in {i} \X R(file, i) PROVE FALSE
      <4>1. i = o /\ file[o].element_count + 1 \in R(file, i) BY <3>1
      <4> QED BY <2>2, <4>1
    <3> QED BY <2>4, <3>1
  <2> HIDE DEF p
  <2> QED BY <2>5, <2>6, FS_AddElement DEF IsHash
<1>12. IsHash(new, flushed)
  <2>1. Cardinality(Beyond(new)) = Cardinality(Overflown(new)) BY <1>10, <1>11 DEF IsHash
  <2> QED BY <1>5, <1>7, <1>8, <1>9, <1>10, <1>11, <2>1 DEF IsHash
<1>13. \A i \in Files!Indexes : /\ In(file[i]) \subseteq In(new[i])
                                /\ file[i].element_count <= new[i].element_count
  <2>1. \A i \in Files!Indexes : file[i].element_count \in Nat BY <1>1 DEF Bucket
  <2>2. In(c) = In(b) BY <1>3 DEF In
  <2> QED BY <1>2, <1>3, <1>4, <1>5, <2>1, <2>2 DEF b
<1>14. alumn \in In(new[o]) /\ ~Files!HasRoom(new[home]) BY <1>2, <1>5, <1>6
<1> QED BY <1>12, <1>13, <1>14 DEF home, new
-----------------------------------------------------------------------------
LEMMA HashTurn ==
    ASSUME FilesAssumption, HashInv, NEW alumn \in Nat, NEW rest \in Seq(Dnis),
           NEW pc \in {"reading", "read"}, Files!Turn(alumn, rest, pc)
    PROVE  HashInv'
<1> DEFINE file == hashed.file
           new == Files!hash_insert(alumn)
           home == Files!hash(alumn)
           flushed == hashed.flushed
<1>0. /\ hashed = [file |-> file, flushed |-> flushed, input |-> hashed.input, alumn |-> hashed.alumn,
                   accepted |-> hashed.accepted, refused |-> hashed.refused, pc |-> hashed.pc]
      /\ flushed \in {BUCKETS, Files!Total - 1} /\ flushed \in Nat
      /\ hashed.accepted \subseteq Nat /\ hashed.refused \subseteq Nat
      /\ IsHash(file, flushed)
  BY Places DEF HashInv, FilesAssumption
<1>1. hashed' = [file |-> new, flushed |-> flushed, input |-> rest, alumn |-> alumn,
                 accepted |-> IF Files!Accepts(alumn) THEN hashed.accepted \cup {alumn} ELSE hashed.accepted,
                 refused |-> IF Files!Accepts(alumn) THEN hashed.refused ELSE hashed.refused \cup {alumn},
                 pc |-> pc]
  BY <1>0, Zenon DEF Files!Turn
<1>2. /\ IsHash(new, flushed)
      /\ \A i \in Files!Indexes : /\ In(file[i]) \subseteq In(new[i])
                                  /\ file[i].element_count <= new[i].element_count
      /\ Files!Accepts(alumn) => Found(new, alumn)
      /\ ~Files!Accepts(alumn) => new = file /\ Files!WithRoom = {}
  <2>1. CASE Files!HasRoom(file[home])
    <3>1. new = [file EXCEPT ![home] = Files!With(file[home], alumn)]
      BY <2>1 DEF Files!hash_insert
    <3>2. Files!Accepts(alumn) BY <2>1 DEF Files!Accepts
    <3> HIDE DEF file, new, home, flushed
    <3>3. /\ IsHash(new, flushed) /\ alumn \in In(new[home])
          /\ \A i \in Files!Indexes : /\ In(file[i]) \subseteq In(new[i])
                                      /\ file[i].element_count <= new[i].element_count
      <4>1. Files!HasRoom(file[Files!hash(alumn)]) BY <2>1 DEF home
      <4>2. new = [file EXCEPT ![Files!hash(alumn)] = Files!With(file[Files!hash(alumn)], alumn)]
        BY <3>1 DEF home
      <4> QED BY <1>0, <4>1, <4>2, InsertHome DEF home
    <3> QED BY <3>2, <3>3 DEF Found, home
  <2>2. CASE ~Files!HasRoom(file[home]) /\ Files!WithRoom = {}
    <3>1. new = file BY <2>2 DEF Files!hash_insert
    <3>2. ~Files!Accepts(alumn) BY <2>2 DEF Files!Accepts
    <3>3. \A i \in Files!Indexes : file[i].element_count \in Nat BY <1>0 DEF IsHash, Bucket
    <3> HIDE DEF new
    <3> QED BY <1>0, <2>2, <3>1, <3>2, <3>3
  <2>3. CASE ~Files!HasRoom(file[home]) /\ Files!WithRoom # {}
    <3> DEFINE o == Files!First(Files!WithRoom)
    <3>1. new = [file EXCEPT ![home] = Files!Counted(file[home]), ![o] = Files!With(@, alumn)]
      BY <2>3 DEF Files!hash_insert
    <3>2. Files!Accepts(alumn) BY <2>3 DEF Files!Accepts
    <3>3. Files!WithRoom \subseteq Nat BY Places DEF Files!WithRoom, FilesAssumption
    <3>4. o \in Files!WithRoom BY <2>3, <3>3, FirstIs
    <3>5. o \in Files!Overflow /\ o < flushed /\ Files!HasRoom(file[o])
      BY <3>4 DEF Files!WithRoom
    <3> HIDE DEF file, new, home, flushed, o
    <3>6. /\ IsHash(new, flushed) /\ alumn \in In(new[o]) /\ ~Files!HasRoom(new[home])
          /\ \A i \in Files!Indexes : /\ In(file[i]) \subseteq In(new[i])
                                      /\ file[i].element_count <= new[i].element_count
      <4>1. ~Files!HasRoom(file[Files!hash(alumn)]) BY <2>3 DEF home
      <4>2. new = [file EXCEPT ![Files!hash(alumn)] = Files!Counted(file[Files!hash(alumn)]),
                               ![o] = Files!With(@, alumn)]
        BY <3>1 DEF home
      <4> QED BY <1>0, <3>5, <4>1, <4>2, InsertOverflow DEF home
    <3> QED BY <3>2, <3>5, <3>6 DEF Found, home
  <2> QED BY <2>1, <2>2, <2>3
<1> HIDE DEF file, new, flushed, home
<1>3. /\ \A i \in Files!Indexes : ~Files!HasRoom(file[i]) => ~Files!HasRoom(new[i])
  <2>1. \A i \in Files!Indexes : file[i].element_count \in Nat /\ new[i].element_count \in Nat
    BY <1>0, <1>2 DEF IsHash, Bucket
  <2> QED BY <1>2, <2>1 DEF Files!HasRoom, FilesAssumption
<1>4. \A dni \in hashed.accepted : Found(new, dni)
  <2> SUFFICES ASSUME NEW dni \in hashed.accepted PROVE Found(new, dni)
    OBVIOUS
  <2>1. dni \in Nat /\ Found(file, dni) BY <1>0 DEF HashInv, file
  <2>2. Files!hash(dni) \in Files!Indexes /\ \A i \in Files!Overflow : i \in Files!Indexes
    BY <2>1, Places
  <2> QED BY <1>2, <1>3, <2>1, <2>2 DEF Found
<1>5. hashed'.refused # {} => Files!WithRoom = {} BY <1>1, <1>2 DEF HashInv
<1>6. Files!WithRoom = {} => Files!WithRoom' = {}
  <2>1. Files!WithRoom = {i \in Files!Overflow : i < flushed /\ Files!HasRoom(file[i])}
    BY DEF Files!WithRoom, file, flushed
  <2>2. Files!WithRoom' = {i \in Files!Overflow : i < flushed /\ Files!HasRoom(new[i])}
    BY <1>1 DEF Files!WithRoom
  <2>3. \A i \in Files!Overflow : i \in Files!Indexes BY Places
  <2> QED BY <1>3, <2>1, <2>2, <2>3
<1>7. \A dni \in hashed'.accepted : Found(new, dni) BY <1>1, <1>2, <1>4
<1>8. hashed' \in [file : {hashed'.file}, flushed : {BUCKETS, Files!Total - 1}, input : Seq(Dnis),
                   alumn : Nat, accepted : SUBSET Nat, refused : SUBSET Nat,
                   pc : {"reading", "read", "ended"}]
  BY <1>0, <1>1
<1> QED BY <1>1, <1>2, <1>5, <1>6, <1>7, <1>8 DEF HashInv

LEMMA HashInit == FilesAssumption /\ Files!Init => HashInv
<1> SUFFICES ASSUME FilesAssumption, Files!Init PROVE HashInv
  OBVIOUS
<1> DEFINE file == [i \in Files!Indexes |-> Files!EmptyBucket]
<1>n. PICK n \in 1 .. MaxAlumns :
         \E input \in [1 .. n -> Dnis], flushed \in {BUCKETS, Files!Total - 1} :
             hashed = [file |-> file, flushed |-> flushed, input |-> input, alumn |-> 0,
                       accepted |-> {}, refused |-> {}, pc |-> "reading"]
  BY Zenon DEF Files!Init
<1>1. PICK input \in [1 .. n -> Dnis], flushed \in {BUCKETS, Files!Total - 1} :
         hashed = [file |-> file, flushed |-> flushed, input |-> input, alumn |-> 0,
                   accepted |-> {}, refused |-> {}, pc |-> "reading"]
  BY <1>n
<1>2. input \in Seq(Dnis) BY DEF FilesAssumption
<1>3. Files!EmptyBucket \in Bucket /\ Files!EmptyBucket.element_count = 0
      /\ Len(Files!EmptyBucket.alumns) = 0 /\ Files!HasRoom(Files!EmptyBucket)
  BY DEF Files!EmptyBucket, Bucket, Files!HasRoom, FilesAssumption
<1>4. \A i \in Files!Indexes : file[i] = Files!EmptyBucket OBVIOUS
<1>5. file \in [Files!Indexes -> Bucket] BY <1>3
<1> HIDE DEF file
<1>6. \A i \in Homes \cup Files!Overflow : file[i] = Files!EmptyBucket BY <1>4, Places
<1>7. Beyond(file) = {} /\ Overflown(file) = {}
  <2>1. \A i \in Homes : Len(file[i].alumns) + 1 .. file[i].element_count = {} BY <1>3, <1>6
  <2>2. \A i \in Files!Overflow : 1 .. file[i].element_count = {} BY <1>3, <1>6
  <2> QED BY <2>1, <2>2 DEF Beyond, Overflown
<1>8. IsHash(file, flushed)
  BY <1>3, <1>5, <1>6, <1>7, FS_EmptySet DEF IsHash, FilesAssumption
<1> QED BY <1>1, <1>2, <1>8 DEF HashInv

LEMMA HashNext ==
    ASSUME FilesAssumption, HashInv, [Files!Next]_hashed PROVE HashInv'
<1>0. hashed.input \in Seq(Dnis) /\ hashed.alumn \in Nat BY DEF HashInv
<1>1. CASE Files!ReadAlumn
  <2>1. Head(hashed.input) \in Dnis /\ Tail(hashed.input) \in Seq(Dnis)
    BY <1>0, <1>1, HeadTailProperties DEF Files!ReadAlumn
  <2> QED BY <1>1, <2>1, HashTurn DEF Files!ReadAlumn, FilesAssumption
<1>2. CASE Files!ReadEnd
  <2>1. <<>> \in Seq(Dnis) OBVIOUS
  <2> QED BY <1>0, <1>2, <2>1, HashTurn DEF Files!ReadEnd
<1>3. CASE Files!AtExit
  <2> DEFINE file == hashed.file
             flushed == hashed.flushed
             new == [i \in Files!Indexes |-> IF i < flushed THEN file[i] ELSE Files!EmptyBucket]
  <2>1. IsHash(file, flushed) /\ flushed \in {BUCKETS, Files!Total - 1} BY DEF HashInv
  <2>2. \A i \in Files!Indexes : ~(i < flushed) => file[i] = Files!EmptyBucket
    <3> SUFFICES ASSUME NEW i \in Files!Indexes, ~(i < flushed) PROVE file[i] = Files!EmptyBucket
      OBVIOUS
    <3>1. i \in Homes \/ i \in Files!Overflow BY Places
    <3>2. /\ Homes = 0 .. BUCKETS - 1 /\ Files!Overflow = BUCKETS .. Files!Total - 1
          /\ BUCKETS \in Nat /\ Files!Total - 1 \in Nat /\ BUCKETS <= Files!Total - 1
      BY Places DEF FilesAssumption
    <3>3. flushed \in Nat /\ BUCKETS <= flushed BY <2>1, <3>2
    <3> HIDE DEF flushed
    <3>4. i \in Nat BY <3>1, <3>2
    <3>5. i >= flushed BY <3>3, <3>4
    <3>6. ~(i <= BUCKETS - 1) BY <3>2, <3>3, <3>4, <3>5
    <3>7. i \notin Homes BY <3>2, <3>6
    <3>8. i >= hashed.flushed BY <3>5 DEF flushed
    <3> QED BY <2>1, <3>1, <3>7, <3>8 DEF IsHash, flushed
  <2>3. new = file BY <2>1, <2>2 DEF IsHash
  <2>4. hashed' = [hashed EXCEPT !.file = new, !.pc = "ended"] BY <1>3, Zenon DEF Files!AtExit
  <2> HIDE DEF new
  <2>5. hashed' = [hashed EXCEPT !.pc = "ended"] BY <2>3, <2>4 DEF HashInv
  <2>6. Files!WithRoom' = Files!WithRoom BY <2>5 DEF HashInv, Files!WithRoom
  <2> QED BY <2>5, <2>6 DEF HashInv
<1>4. CASE UNCHANGED hashed BY <1>4 DEF HashInv, Files!WithRoom
<1> QED BY <1>1, <1>2, <1>3, <1>4 DEF Files!Next

(* Whoever was accepted into the hash file is found there, also after the     *)
(* buffers of the stream that was never closed have been written; whoever was  *)
(* refused found all full; what the counts of the buckets say beyond what they  *)
(* hold is what is in the overflow                                              *)
THEOREM AcceptedAreFound ==
    ASSUME FilesAssumption PROVE Files!Spec => []Files!Sound
<1>1. Files!Init => HashInv BY HashInit
<1>2. HashInv /\ [Files!Next]_hashed => HashInv' BY HashNext
<1>3. HashInv => Files!Sound
  <2> SUFFICES ASSUME HashInv PROVE Files!Sound
    OBVIOUS
  <2>1. IsHash(hashed.file, hashed.flushed) BY DEF HashInv
  <2>2. \A dni \in hashed.accepted : Files!hash_retrieve(dni)
    BY DEF HashInv, Found, Files!hash_retrieve, Files!Elements, In
  <2>3. Files!Excess = Beyond(hashed.file) /\ Files!Overflowed = Overflown(hashed.file)
    BY DEF Files!Excess, Files!Overflowed, Beyond, Overflown, Homes
  <2>4. hashed.flushed = BUCKETS =>
           \A i \in Files!Indexes : hashed.file[i].element_count <= REGS_PER_BUCKET
    BY <2>1, Places DEF IsHash
  <2>5. Cardinality(Files!Excess) = Cardinality(Files!Overflowed) BY <2>1, <2>3 DEF IsHash
  <2>6. hashed.refused # {} => Files!WithRoom = {} BY DEF HashInv
  <2>7. \A S : Files!Cardinality(S) = Cardinality(S)
    BY DEF Files!Cardinality, Cardinality
  <2>8. Files!Cardinality(Files!Excess) = Files!Cardinality(Files!Overflowed) BY <2>5, <2>7
  <2> QED BY <2>2, <2>4, <2>6, <2>8, Zenon DEF Files!Sound
<1> QED BY <1>1, <1>2, <1>3, PTL DEF Files!Spec
-----------------------------------------------------------------------------
(***************************************************************************)
(* The queue and the stack of nodes                                        *)
(***************************************************************************)
(* s are the nodes in use, each once, in the order of their links *)
IsChain(s, n, used, link) ==
    /\ s \in [1 .. n -> used]
    /\ \A a \in used : \E i \in 1 .. n : s[i] = a
    /\ \A i, j \in 1 .. n : s[i] = s[j] => i = j
    /\ \A i \in 2 .. n : s[i] = link[s[i - 1]]

NodesAssumption == Nodes!NULL \notin Addresses /\ Nodes!Garbage \notin Addresses

NodeTypes ==
    /\ linked \in [kind : {"queue", "stack"}, used : SUBSET Addresses, value : {linked.value},
                   link : {linked.link}, first : {linked.first}, last : Addresses \cup {Nodes!NULL},
                   size : Nat, crashed : BOOLEAN]
    /\ linked.value = [a \in Addresses |-> linked.value[a]]
    /\ linked.link = [a \in Addresses |-> linked.link[a]]
    /\ IsFiniteSet(linked.used) /\ linked.size = Cardinality(linked.used)
    /\ linked.last \in linked.used \cup {Nodes!NULL}
    /\ linked.size = 0 <=> linked.last = Nodes!NULL
    /\ linked.crashed => Nodes!Astray
    /\ linked.kind = "stack" => linked.first = Nodes!NULL

(* The last of the queue has a link nobody wrote, that of the stack has none *)
Ends(s) ==
    IF linked.size = 0 THEN linked.first = Nodes!NULL
    ELSE IF linked.kind = "queue"
         THEN /\ linked.first = s[1] /\ linked.last = s[linked.size]
              /\ linked.link[s[linked.size]] = Nodes!Garbage
         ELSE linked.last = s[1] /\ linked.link[s[linked.size]] = Nodes!NULL

NodesInv ==
    /\ NodeTypes
    /\ Nodes!Astray \/ \E s : IsChain(s, linked.size, linked.used, linked.link) /\ Ends(s)

(* What follows the links is the chain *)
ContentsFollow ==
    \A s : NodeTypes /\ IsChain(s, linked.size, linked.used, linked.link) /\ Ends(s)
              => Nodes!Contents = [i \in 1 .. linked.size |-> linked.value[s[i]]]

LEMMA ContentsAre == ContentsFollow
<1> SUFFICES ASSUME NodeTypes, NEW s, IsChain(s, linked.size, linked.used, linked.link), Ends(s)
             PROVE  Nodes!Contents = [i \in 1 .. linked.size |-> linked.value[s[i]]]
  BY DEF ContentsFollow
<1> DEFINE n == linked.size
           start == Nodes!Start
           link == linked.link
           f == [i \in 1 .. n |-> IF i = 1 THEN start ELSE link[s[i - 1]]]
<1>1. n \in Nat BY DEF NodeTypes
<1>2. s = [i \in 1 .. n |-> s[i]] /\ \A i \in 2 .. n : s[i] = link[s[i - 1]] BY DEF IsChain
<1>3. n > 0 => s[1] = start
  <2>1. linked.kind \in {"queue", "stack"} BY DEF NodeTypes
  <2> QED BY <1>1, <2>1 DEF Ends, Nodes!Start
<1>4. Nodes!Chain = CHOOSE g : g = [i \in 1 .. n |-> IF i = 1 THEN start ELSE link[g[i - 1]]]
  BY DEF Nodes!Chain
<1> HIDE DEF n, start, link
<1>5. \A i \in 1 .. n : s[i] = IF i = 1 THEN start ELSE link[s[i - 1]]
  <2>1. \A i \in 1 .. n : (i # 1 => i \in 2 .. n) /\ n > 0 BY <1>1
  <2> QED BY <1>2, <1>3, <2>1
<1>6. s = f BY <1>2, <1>5
<1>7. \E g : g = [i \in 1 .. n |-> IF i = 1 THEN start ELSE link[g[i - 1]]] BY <1>6
<1>8. Nodes!Chain = [i \in 1 .. n |-> IF i = 1 THEN start ELSE link[Nodes!Chain[i - 1]]]
  BY <1>4, <1>7
<1> DEFINE g == Nodes!Chain
           T == {i \in 1 .. n : g[i] # s[i]}
<1>9. ASSUME T # {} PROVE FALSE
  <2>1. T \subseteq Nat BY <1>1
  <2> HIDE DEF T
  <2>2. PICK m \in T : \A k \in T : m <= k BY <1>9, <2>1, LeastOf
  <2> USE DEF T
  <2>3. m \in 1 .. n /\ g[m] # s[m] OBVIOUS
  <2> HIDE DEF T
  <2>4. g[m] = IF m = 1 THEN start ELSE link[g[m - 1]] BY <1>8, <2>3
  <2>5. m # 1 BY <1>5, <2>3, <2>4
  <2>6. m - 1 \in 1 .. n /\ ~(m <= m - 1) BY <1>1, <2>3, <2>5
  <2>7. g[m - 1] = s[m - 1] BY <2>2, <2>6 DEF T
  <2> QED BY <1>5, <2>3, <2>4, <2>5, <2>7
<1>10. Nodes!Chain = s
  <2>1. \A i \in 1 .. n : g[i] = s[i] BY <1>9
  <2>2. g = [i \in 1 .. n |-> g[i]] BY <1>8
  <2> QED BY <1>2, <2>1, <2>2
<1> QED BY <1>10 DEF Nodes!Contents, n

LEMMA RecordIs ==
    ASSUME NodeTypes
    PROVE  /\ linked = [kind |-> linked.kind, used |-> linked.used, value |-> linked.value,
                        link |-> linked.link, first |-> linked.first, last |-> linked.last,
                        size |-> linked.size, crashed |-> linked.crashed]
           /\ linked.kind \in {"queue", "stack"} /\ linked.used \subseteq Addresses
           /\ linked.size \in Nat /\ linked.crashed \in BOOLEAN
           /\ DOMAIN linked.value = Addresses /\ DOMAIN linked.link = Addresses
           /\ IsFiniteSet(linked.used)
BY DEF NodeTypes

(* A chain without its first node *)
LEMMA ChainShorter ==
    ASSUME NEW n \in Nat, n > 0, NEW s, NEW used, NEW link, IsChain(s, n, used, link)
    PROVE  IsChain([i \in 1 .. n - 1 |-> s[i + 1]], n - 1, used \ {s[1]}, link)
<1> DEFINE t == [i \in 1 .. n - 1 |-> s[i + 1]]
<1>1. \A i \in 1 .. n - 1 : i \in 1 .. n /\ i + 1 \in 1 .. n /\ i + 1 # 1 /\ t[i] = s[i + 1]
  OBVIOUS
<1>2. 1 \in 1 .. n OBVIOUS
<1> HIDE DEF t
<1>3. t = [i \in 1 .. n - 1 |-> s[i + 1]] BY DEF t
<1>4. \A i \in 1 .. n - 1 : s[i + 1] \in used \ {s[1]} BY <1>1, <1>2 DEF IsChain
<1>5. t \in [1 .. n - 1 -> used \ {s[1]}] BY <1>3, <1>4
<1>6. ASSUME NEW a \in used \ {s[1]} PROVE \E i \in 1 .. n - 1 : t[i] = a
  <2>1. PICK j \in 1 .. n : s[j] = a BY DEF IsChain
  <2>2. j # 1 BY <2>1
  <2>3. j - 1 \in 1 .. n - 1 /\ (j - 1) + 1 = j BY <2>2
  <2>4. t[j - 1] = a BY <1>1, <2>1, <2>3
  <2> QED BY <2>3, <2>4
<1>7. ASSUME NEW i \in 1 .. n - 1, NEW j \in 1 .. n - 1, t[i] = t[j] PROVE i = j
  <2>1. i + 1 = j + 1 BY <1>1, <1>7 DEF IsChain
  <2> QED BY <2>1
<1>8. ASSUME NEW i \in 2 .. n - 1 PROVE t[i] = link[t[i - 1]]
  <2>1. i \in 1 .. n - 1 /\ i - 1 \in 1 .. n - 1 /\ (i - 1) + 1 = i /\ i + 1 \in 2 .. n /\ (i + 1) - 1 = i
    OBVIOUS
  <2>2. t[i - 1] = s[i] /\ t[i] = s[i + 1] BY <1>1, <2>1
  <2> QED BY <2>1, <2>2 DEF IsChain
<1> QED BY <1>5, <1>6, <1>7, <1>8 DEF IsChain, t

(* One whose links from the nodes in use stay is the same chain *)
LEMMA ChainSame ==
    ASSUME NEW n \in Nat, NEW s, NEW used, NEW link, IsChain(s, n, used, link),
           NEW link2, \A i \in 1 .. n - 1 : link2[s[i]] = link[s[i]]
    PROVE  IsChain(s, n, used, link2)
<1>1. ASSUME NEW i \in 2 .. n PROVE s[i] = link2[s[i - 1]]
  <2>1. i - 1 \in 1 .. n - 1 OBVIOUS
  <2> QED BY <2>1 DEF IsChain
<1> QED BY <1>1 DEF IsChain

(* One more node after the last *)
LEMMA ChainLonger ==
    ASSUME NEW n \in Nat, NEW s, NEW used, NEW link, IsChain(s, n, used, link),
           NEW item, item \notin used, n > 0 => link[s[n]] = item
    PROVE  IsChain([i \in 1 .. n + 1 |-> IF i = n + 1 THEN item ELSE s[i]], n + 1, used \cup {item}, link)
<1> DEFINE t == [i \in 1 .. n + 1 |-> IF i = n + 1 THEN item ELSE s[i]]
<1>1. /\ \A i \in 1 .. n : i \in 1 .. n + 1 /\ i # n + 1 /\ t[i] = s[i] /\ s[i] \in used
      /\ t[n + 1] = item /\ n + 1 \in 1 .. n + 1
      /\ \A i \in 1 .. n + 1 : i \in 1 .. n \/ i = n + 1
      /\ t = [i \in 1 .. n + 1 |-> t[i]]
  <2>1. \A i \in 1 .. n : s[i] \in used BY DEF IsChain
  <2>2. \A i \in 1 .. n : i \in 1 .. n + 1 /\ i # n + 1 OBVIOUS
  <2>3. n + 1 \in 1 .. n + 1 /\ \A i \in 1 .. n + 1 : i \in 1 .. n \/ i = n + 1 OBVIOUS
  <2> QED BY <2>1, <2>2, <2>3
<1> HIDE DEF t
<1>2. t \in [1 .. n + 1 -> used \cup {item}] BY <1>1
<1>3. ASSUME NEW a \in used \cup {item} PROVE \E i \in 1 .. n + 1 : t[i] = a
  <2>1. CASE a = item BY <1>1, <2>1
  <2>2. CASE a \in used
    <3>1. PICK i \in 1 .. n : s[i] = a BY <2>2 DEF IsChain
    <3> QED BY <1>1, <3>1
  <2> QED BY <2>1, <2>2
<1>4. ASSUME NEW i \in 1 .. n + 1, NEW j \in 1 .. n + 1, t[i] = t[j] PROVE i = j
  <2>1. CASE i \in 1 .. n /\ j \in 1 .. n
    <3>1. s[i] = s[j] BY <1>1, <1>4, <2>1
    <3> QED BY <2>1, <3>1 DEF IsChain
  <2>2. CASE i = n + 1 /\ j \in 1 .. n BY <1>1, <1>4, <2>2
  <2>3. CASE j = n + 1 /\ i \in 1 .. n BY <1>1, <1>4, <2>3
  <2> QED BY <1>1, <2>1, <2>2, <2>3
<1>5. ASSUME NEW i \in 2 .. n + 1 PROVE t[i] = link[t[i - 1]]
  <2>1. i - 1 \in 1 .. n OBVIOUS
  <2>2. t[i - 1] = s[i - 1] BY <1>1, <2>1
  <2>3. CASE i = n + 1
    <3>1. i - 1 = n /\ n > 0 BY <2>3
    <3> QED BY <1>1, <2>2, <2>3, <3>1
  <2>4. CASE i # n + 1
    <3>1. i \in 2 .. n /\ i \in 1 .. n BY <2>4
    <3> QED BY <1>1, <2>2, <3>1 DEF IsChain
  <2> QED BY <2>3, <2>4
<1> QED BY <1>2, <1>3, <1>4, <1>5 DEF IsChain, t

(* One more node before the first *)
LEMMA ChainBefore ==
    ASSUME NEW n \in Nat, NEW s, NEW used, NEW link, IsChain(s, n, used, link),
           NEW item, item \notin used, n > 0 => link[item] = s[1]
    PROVE  IsChain([i \in 1 .. n + 1 |-> IF i = 1 THEN item ELSE s[i - 1]], n + 1, used \cup {item}, link)
<1> DEFINE t == [i \in 1 .. n + 1 |-> IF i = 1 THEN item ELSE s[i - 1]]
<1>1. /\ \A i \in 2 .. n + 1 : i \in 1 .. n + 1 /\ i # 1 /\ i - 1 \in 1 .. n
                               /\ t[i] = s[i - 1] /\ s[i - 1] \in used
      /\ t[1] = item /\ 1 \in 1 .. n + 1
      /\ \A i \in 1 .. n + 1 : i \in 2 .. n + 1 \/ i = 1
      /\ t = [i \in 1 .. n + 1 |-> t[i]]
  BY DEF IsChain
<1> HIDE DEF t
<1>2. t \in [1 .. n + 1 -> used \cup {item}] BY <1>1
<1>3. ASSUME NEW a \in used \cup {item} PROVE \E i \in 1 .. n + 1 : t[i] = a
  <2>1. CASE a = item BY <1>1, <2>1
  <2>2. CASE a \in used
    <3>1. PICK i \in 1 .. n : s[i] = a BY <2>2 DEF IsChain
    <3>2. i + 1 \in 2 .. n + 1 /\ (i + 1) - 1 = i OBVIOUS
    <3>3. t[i + 1] = a BY <1>1, <3>1, <3>2
    <3> QED BY <1>1, <3>2, <3>3
  <2> QED BY <2>1, <2>2
<1>4. ASSUME NEW i \in 1 .. n + 1, NEW j \in 1 .. n + 1, t[i] = t[j] PROVE i = j
  <2>1. CASE i \in 2 .. n + 1 /\ j \in 2 .. n + 1
    <3>1. s[i - 1] = s[j - 1] /\ i - 1 \in 1 .. n /\ j - 1 \in 1 .. n BY <1>1, <1>4, <2>1
    <3>2. i - 1 = j - 1 BY <3>1 DEF IsChain
    <3> QED BY <3>2
  <2>2. CASE i = 1 /\ j \in 2 .. n + 1 BY <1>1, <1>4, <2>2
  <2>3. CASE j = 1 /\ i \in 2 .. n + 1 BY <1>1, <1>4, <2>3
  <2> QED BY <1>1, <2>1, <2>2, <2>3
<1>5. ASSUME NEW i \in 2 .. n + 1 PROVE t[i] = link[t[i - 1]]
  <2>1. t[i] = s[i - 1] BY <1>1
  <2>2. CASE i = 2
    <3>1. i - 1 = 1 /\ n > 0 BY <2>2
    <3> QED BY <1>1, <2>1, <3>1
  <2>3. CASE i # 2
    <3>1. i - 1 \in 2 .. n /\ i - 1 \in 2 .. n + 1 BY <2>3
    <3>2. t[i - 1] = s[(i - 1) - 1] BY <1>1, <3>1
    <3> QED BY <2>1, <3>1, <3>2 DEF IsChain
  <2> QED BY <2>2, <2>3
<1> QED BY <1>2, <1>3, <1>4, <1>5 DEF IsChain, t
-----------------------------------------------------------------------------
LEMMA QueuePush ==
    ASSUME NodesAssumption, NodesInv, NEW val \in Values, Nodes!queue_push(val)
    PROVE  NodesInv' /\ Nodes!Keeps
<1> DEFINE n == linked.size
           used == linked.used
<1>0. /\ linked = [kind |-> linked.kind, used |-> used, value |-> linked.value,
                   link |-> linked.link, first |-> linked.first, last |-> linked.last,
                   size |-> n, crashed |-> linked.crashed]
      /\ used \subseteq Addresses /\ n \in Nat /\ IsFiniteSet(used) /\ n = Cardinality(used)
      /\ DOMAIN linked.value = Addresses /\ DOMAIN linked.link = Addresses
      /\ linked.kind = "queue" /\ linked.crashed = FALSE
  BY RecordIs DEF NodesInv, NodeTypes, Nodes!queue_push
<1>1. PICK item \in Addresses \ used :
         linked' = [linked EXCEPT
              !.used = @ \cup {item},
              !.value[item] = val,
              !.link = [a \in Addresses |-> IF a = item THEN Nodes!Garbage
                                            ELSE IF a = linked.last THEN item ELSE @[a]],
              !.first = IF @ = Nodes!NULL THEN item ELSE @,
              !.last = item,
              !.size = @ + 1]
  BY Zenon DEF Nodes!queue_push
<1> DEFINE value2 == [linked.value EXCEPT ![item] = val]
           link2 == [a \in Addresses |-> IF a = item THEN Nodes!Garbage
                                         ELSE IF a = linked.last THEN item ELSE linked.link[a]]
           first2 == IF linked.first = Nodes!NULL THEN item ELSE linked.first
<1>2. linked' = [kind |-> "queue", used |-> used \cup {item}, value |-> value2, link |-> link2,
                 first |-> first2, last |-> item, size |-> n + 1, crashed |-> FALSE]
  BY <1>0, <1>1
<1>3. /\ value2 = [a \in Addresses |-> value2[a]] /\ value2[item] = val
      /\ \A a \in Addresses \ {item} : value2[a] = linked.value[a]
      /\ link2 = [a \in Addresses |-> link2[a]] /\ link2[item] = Nodes!Garbage
      /\ \A a \in Addresses \ {item, linked.last} : link2[a] = linked.link[a]
      /\ linked.last \in used => link2[linked.last] = item
  BY <1>0
<1>4. item # Nodes!NULL /\ item # Nodes!Garbage BY DEF NodesAssumption
<1> HIDE DEF n, used, value2, link2
<1>5. NodeTypes'
  <2>1. IsFiniteSet(used \cup {item}) /\ n + 1 = Cardinality(used \cup {item})
    BY <1>0, FS_AddElement
  <2>2. used \cup {item} \subseteq Addresses /\ n + 1 \in Nat /\ n + 1 # 0 BY <1>0
  <2> QED BY <1>2, <1>3, <1>4, <2>1, <2>2 DEF NodeTypes
<1>6. CASE Nodes!Astray
  <2>1. Nodes!Astray' BY <1>2, <1>6 DEF Nodes!Astray, Nodes!Garbage, Nodes!NULL
  <2> QED BY <1>5, <2>1 DEF NodesInv, Nodes!Keeps
<1>7. CASE ~Nodes!Astray
  <2>1. PICK s : IsChain(s, n, used, linked.link) /\ Ends(s) BY <1>7 DEF NodesInv, n, used
  <2>2. /\ s = [i \in 1 .. n |-> s[i]] /\ \A i \in 1 .. n : s[i] \in used /\ s[i] \in Addresses \ {item}
        /\ \A i, j \in 1 .. n : s[i] = s[j] => i = j
    BY <1>0, <2>1 DEF IsChain
  <2>3. n > 0 => linked.first = s[1] /\ linked.last = s[n] /\ s[1] \in used /\ s[n] \in used
    BY <1>0, <2>1, <2>2 DEF Ends, n
  <2>4. \A i \in 1 .. n - 1 : link2[s[i]] = linked.link[s[i]]
    <3> SUFFICES ASSUME NEW i \in 1 .. n - 1 PROVE link2[s[i]] = linked.link[s[i]]
      OBVIOUS
    <3>1. i \in 1 .. n /\ n \in 1 .. n /\ i # n /\ n > 0 BY <1>0
    <3>2. s[i] # linked.last BY <2>2, <2>3, <3>1
    <3> QED BY <1>3, <2>2, <3>1, <3>2
  <2>5. IsChain(s, n, used, link2) BY <1>0, <2>1, <2>4, ChainSame
  <2>6. n > 0 => link2[s[n]] = item BY <1>3, <2>3
  <2>t. PICK t : t = [i \in 1 .. n + 1 |-> IF i = n + 1 THEN item ELSE s[i]] OBVIOUS
  <2>7. IsChain(t, n + 1, used \cup {item}, link2)
    <3>1. item \notin used OBVIOUS
    <3> QED BY <1>0, <2>t, <2>5, <2>6, <3>1, ChainLonger
  <2>8. /\ t[n + 1] = item /\ \A i \in 1 .. n : t[i] = s[i]
        /\ \A i \in 1 .. n + 1 : i = n + 1 \/ i \in 1 .. n
        /\ n > 0 => t[1] = s[1]
        /\ n = 0 => t[1] = item
    BY <1>0, <2>t
  <2>9. Ends(t)'
    <3>1. n = 0 => linked.first = Nodes!NULL BY <2>1 DEF Ends, n
    <3>2. n > 0 => linked.first # Nodes!NULL BY <1>0, <2>3 DEF NodesAssumption
    <3>3. first2 = t[1] BY <1>0, <2>3, <2>8, <3>1, <3>2
    <3>4. n + 1 # 0 BY <1>0
    <3> QED BY <1>2, <1>3, <2>8, <3>3, <3>4 DEF Ends
  <2>10. IsChain(t, linked.size, linked.used, linked.link)' BY <1>2, <2>7
  <2>11. Nodes!Contents = [i \in 1 .. n |-> linked.value[s[i]]]
    BY <2>1, ContentsAre DEF ContentsFollow, NodesInv, n, used
  <2>12. ContentsFollow' BY ContentsAre, PTL
  <2>13. Nodes!Contents' = [i \in 1 .. n + 1 |-> value2[t[i]]]
    <3>1. Nodes!Contents' = [i \in 1 .. linked'.size |-> linked'.value[t[i]]]
      BY <1>5, <2>9, <2>10, <2>12 DEF ContentsFollow
    <3>2. linked'.size = n + 1 /\ linked'.value = value2 BY <1>2
    <3> QED BY <3>1, <3>2
  <2>14. Nodes!Contents' = Append(Nodes!Contents, val)
    <3> DEFINE c == Nodes!Contents
    <3>1. c = [i \in 1 .. n |-> c[i]] /\ \A i \in 1 .. n : c[i] = linked.value[s[i]]
      BY <2>11
    <3> HIDE DEF c
    <3>2. Append(c, val) = [i \in 1 .. n + 1 |-> IF i = n + 1 THEN val ELSE c[i]]
      BY <1>0, <3>1, OneMore
    <3>3. \A i \in 1 .. n + 1 : value2[t[i]] = IF i = n + 1 THEN val ELSE c[i]
      BY <1>0, <1>3, <2>2, <2>8, <3>1
    <3>4. Append(c, val) = [i \in 1 .. n + 1 |-> value2[t[i]]] BY <3>2, <3>3
    <3> QED BY <2>13, <3>4 DEF c
  <2>15. Nodes!Keeps
    BY <1>0, <2>14 DEF Nodes!Keeps, Nodes!Fifo!Next, Nodes!Fifo!Push
  <2> QED BY <1>5, <2>9, <2>10, <2>15 DEF NodesInv
<1> QED BY <1>6, <1>7

(* What is popped is the first node of the chain; the values of the others    *)
(* stay as they are                                                             *)
LEMMA ChainPopped ==
    ASSUME NodesInv, NEW s, IsChain(s, linked.size, linked.used, linked.link), Ends(s),
           linked.size > 0, NEW t, t = [i \in 1 .. linked.size - 1 |-> s[i + 1]], Ends(t)',
           NodeTypes', linked'.size = linked.size - 1, linked'.used = linked.used \ {s[1]},
           linked'.link = linked.link, linked'.value = linked.value
    PROVE  /\ NodesInv' /\ Nodes!Contents # <<>> /\ Nodes!Contents' = Tail(Nodes!Contents)
<1> DEFINE n == linked.size
<1>0. n \in Nat /\ n > 0 BY DEF NodesInv, NodeTypes
<1>1. IsChain(t, n - 1, linked.used \ {s[1]}, linked.link)
  <2> DEFINE used == linked.used
             link == linked.link
  <2>1. IsChain(s, n, used, link) OBVIOUS
  <2>2. t = [i \in 1 .. n - 1 |-> s[i + 1]] OBVIOUS
  <2> HIDE DEF n, used, link
  <2>3. IsChain([i \in 1 .. n - 1 |-> s[i + 1]], n - 1, used \ {s[1]}, link)
    BY <1>0, <2>1, ChainShorter
  <2>4. IsChain(t, n - 1, used \ {s[1]}, link) BY <2>2, <2>3, Zenon
  <2> QED BY <2>4 DEF n, used, link
<1>2. IsChain(t, linked.size, linked.used, linked.link)' BY <1>1
<1>3. Nodes!Contents = [i \in 1 .. n |-> linked.value[s[i]]]
  BY ContentsAre DEF ContentsFollow, NodesInv
<1>4. ContentsFollow' BY ContentsAre, PTL
<1>5. Nodes!Contents' = [i \in 1 .. n - 1 |-> linked.value[t[i]]]
  BY <1>2, <1>4 DEF ContentsFollow
<1>6. Nodes!Contents # <<>> /\ Nodes!Contents' = Tail(Nodes!Contents)
  <2> DEFINE c == Nodes!Contents
  <2>1. c = [i \in 1 .. n |-> c[i]] /\ \A i \in 1 .. n : c[i] = linked.value[s[i]]
    BY <1>3
  <2> HIDE DEF c
  <2>2. c # <<>> /\ Tail(c) = [i \in 1 .. n - 1 |-> c[i + 1]] BY <1>0, <2>1, OneLess
  <2>3. \A i \in 1 .. n - 1 : c[i + 1] = linked.value[t[i]]
    <3>1. \A i \in 1 .. n - 1 : i + 1 \in 1 .. n /\ t[i] = s[i + 1] BY <1>0
    <3> QED BY <2>1, <3>1
  <2>4. Tail(c) = [i \in 1 .. n - 1 |-> linked.value[t[i]]] BY <2>2, <2>3
  <2> QED BY <1>5, <2>2, <2>4 DEF c
<1> QED BY <1>2, <1>6 DEF NodesInv

LEMMA QueuePop ==
    ASSUME NodesAssumption, NodesInv, Nodes!queue_pop PROVE NodesInv' /\ Nodes!Keeps
<1> DEFINE n == linked.size
           used == linked.used
<1>0. /\ linked = [kind |-> linked.kind, used |-> used, value |-> linked.value,
                   link |-> linked.link, first |-> linked.first, last |-> linked.last,
                   size |-> n, crashed |-> linked.crashed]
      /\ used \subseteq Addresses /\ n \in Nat /\ IsFiniteSet(used) /\ n = Cardinality(used)
      /\ linked.kind = "queue" /\ linked.crashed = FALSE /\ n # 0
  BY RecordIs DEF NodesInv, NodeTypes, Nodes!queue_pop, Nodes!empty
<1>1. CASE Nodes!Astray
  <2>1. linked' = [linked EXCEPT !.crashed = TRUE]
    BY <1>1 DEF Nodes!queue_pop, Nodes!Astray
  <2>2. linked' = [kind |-> linked.kind, used |-> used, value |-> linked.value,
                   link |-> linked.link, first |-> linked.first, last |-> linked.last,
                   size |-> n, crashed |-> TRUE]
    BY <1>0, <2>1
  <2>3. Nodes!Astray' BY <1>1, <2>2 DEF Nodes!Astray
  <2>4. NodeTypes' BY <1>1, <2>2, <2>3 DEF NodesInv, NodeTypes
  <2> QED BY <2>3, <2>4 DEF NodesInv, Nodes!Keeps
<1>2. CASE ~Nodes!Astray
  <2>1. PICK s : IsChain(s, n, used, linked.link) /\ Ends(s) BY <1>2 DEF NodesInv
  <2>2. /\ s \in [1 .. n -> used] /\ 1 \in 1 .. n /\ n \in 1 .. n /\ n > 0
        /\ \A i, j \in 1 .. n : s[i] = s[j] => i = j
        /\ linked.first = s[1] /\ linked.last = s[n] /\ linked.link[s[n]] = Nodes!Garbage
    BY <1>0, <2>1 DEF IsChain, Ends
  <2>3. PICK next \in (IF linked.link[s[1]] = Nodes!Garbage THEN {Nodes!NULL, Nodes!Garbage}
                       ELSE {linked.link[s[1]]}) :
           linked' = [linked EXCEPT !.first = next, !.last = Nodes!LastAfter(linked.first),
                                    !.size = @ - 1, !.used = @ \ {linked.first}]
    BY <1>2, <2>2 DEF Nodes!queue_pop, Nodes!Astray
  <2> DEFINE last2 == IF n = 1 THEN Nodes!NULL ELSE linked.last
  <2>4. Nodes!LastAfter(linked.first) = last2 BY <2>2 DEF Nodes!LastAfter
  <2>5. linked' = [kind |-> "queue", used |-> used \ {s[1]}, value |-> linked.value,
                   link |-> linked.link, first |-> next, last |-> last2,
                   size |-> n - 1, crashed |-> FALSE]
    BY <1>0, <2>2, <2>3, <2>4
  <2> HIDE DEF n, used
  <2>6. NodeTypes'
    <3>1. IsFiniteSet(used \ {s[1]}) /\ n - 1 = Cardinality(used \ {s[1]})
      BY <1>0, <2>2, FS_RemoveElement
    <3>2. last2 \in (used \ {s[1]}) \cup {Nodes!NULL} BY <2>2
    <3>3. n - 1 \in Nat /\ (n - 1 = 0 <=> last2 = Nodes!NULL)
      <4>1. linked.last # Nodes!NULL BY <1>0, <2>2 DEF NodesAssumption
      <4> QED BY <1>0, <2>2, <4>1
    <3>4. /\ linked.value = [a \in Addresses |-> linked.value[a]]
          /\ linked.link = [a \in Addresses |-> linked.link[a]]
          /\ used \ {s[1]} \subseteq Addresses
      BY <1>0 DEF NodesInv, NodeTypes
    <3> HIDE DEF last2
    <3> QED BY <2>5, <3>1, <3>2, <3>3, <3>4 DEF NodeTypes
  <2>7. CASE next = Nodes!Garbage
    <3>1. Nodes!Astray' BY <2>5, <2>7 DEF Nodes!Astray
    <3> QED BY <2>6, <3>1 DEF NodesInv, Nodes!Keeps
  <2>8. CASE next # Nodes!Garbage
    <3>t. PICK t : t = [i \in 1 .. n - 1 |-> s[i + 1]] OBVIOUS
    <3>1. n > 1 => /\ next = s[2] /\ t[1] = s[2] /\ t[n - 1] = s[n]
      <4> SUFFICES ASSUME n > 1 PROVE next = s[2] /\ t[1] = s[2] /\ t[n - 1] = s[n]
        OBVIOUS
      <4>1. 2 \in 2 .. n /\ 2 \in 1 .. n /\ 2 - 1 = 1 /\ 1 \in 1 .. n - 1 /\ n - 1 \in 1 .. n - 1
            /\ (n - 1) + 1 = n /\ 1 + 1 = 2
        BY <1>0
      <4>2. s[2] = linked.link[s[1]] BY <2>1, <4>1 DEF IsChain
      <4>3. s[2] # Nodes!Garbage BY <1>0, <2>2, <4>1 DEF NodesAssumption
      <4>4. next = s[2] BY <4>2, <4>3
      <4>5. t[1] = s[2] BY <3>t, <4>1
      <4>6. t[n - 1] = s[n] BY <3>t, <4>1
      <4> QED BY <4>4, <4>5, <4>6
    <3>2. n = 1 => next = Nodes!NULL BY <2>2, <2>8
    <3>3. Ends(t)'
      <4>1. CASE n = 1 BY <2>5, <3>2, <4>1 DEF Ends
      <4>2. CASE n > 1
        <5>1. n - 1 # 0 /\ n # 1 BY <1>0, <4>2
        <5> QED BY <2>2, <2>5, <3>1, <4>2, <5>1 DEF Ends
      <4> QED BY <1>0, <4>1, <4>2
    <3>4. /\ linked'.size = n - 1 /\ linked'.used = used \ {s[1]}
          /\ linked'.link = linked.link /\ linked'.value = linked.value
      BY <2>5
    <3>5. /\ NodesInv' /\ Nodes!Contents # <<>> /\ Nodes!Contents' = Tail(Nodes!Contents)
      BY <2>1, <2>2, <2>6, <3>t, <3>3, <3>4, ChainPopped DEF n, used
    <3> QED BY <1>0, <3>5 DEF Nodes!Keeps, Nodes!Fifo!Next, Nodes!Fifo!Pop
  <2> QED BY <2>7, <2>8
<1> QED BY <1>1, <1>2

LEMMA StackPopped ==
    ASSUME NodesAssumption, NodesInv, Nodes!stack_pop PROVE NodesInv' /\ Nodes!Keeps
<1> DEFINE n == linked.size
           used == linked.used
<1>0. /\ linked = [kind |-> linked.kind, used |-> used, value |-> linked.value,
                   link |-> linked.link, first |-> linked.first, last |-> linked.last,
                   size |-> n, crashed |-> linked.crashed]
      /\ used \subseteq Addresses /\ n \in Nat /\ IsFiniteSet(used) /\ n = Cardinality(used)
      /\ linked.kind = "stack" /\ linked.first = Nodes!NULL /\ n # 0
      /\ linked.crashed \in BOOLEAN /\ (linked.crashed => Nodes!Astray)
  BY RecordIs DEF NodesInv, NodeTypes, Nodes!stack_pop, Nodes!empty
<1>1. ~Nodes!Astray /\ linked.crashed = FALSE BY <1>0 DEF Nodes!Astray, Nodes!NULL, Nodes!Garbage
<1>2. PICK s : IsChain(s, n, used, linked.link) /\ Ends(s) BY <1>1 DEF NodesInv
<1>3. /\ s \in [1 .. n -> used] /\ 1 \in 1 .. n /\ n \in 1 .. n /\ n > 0
      /\ \A i, j \in 1 .. n : s[i] = s[j] => i = j
      /\ linked.last = s[1] /\ linked.link[s[n]] = Nodes!NULL
  BY <1>0, <1>2 DEF IsChain, Ends
<1> DEFINE last2 == linked.link[s[1]]
<1>t. PICK t : t = [i \in 1 .. n - 1 |-> s[i + 1]] OBVIOUS
<1>4. linked' = [kind |-> "stack", used |-> used \ {s[1]}, value |-> linked.value,
                 link |-> linked.link, first |-> Nodes!NULL, last |-> last2,
                 size |-> n - 1, crashed |-> FALSE]
  BY <1>0, <1>1, <1>3 DEF Nodes!stack_pop
<1> HIDE DEF n, used
<1>5. n > 1 => /\ last2 = s[2] /\ t[1] = s[2] /\ t[n - 1] = s[n]
               /\ s[2] \in used \ {s[1]}
  <2> SUFFICES ASSUME n > 1 PROVE /\ last2 = s[2] /\ t[1] = s[2] /\ t[n - 1] = s[n]
                                  /\ s[2] \in used \ {s[1]}
    OBVIOUS
  <2>1. 2 \in 2 .. n /\ 2 \in 1 .. n /\ 2 - 1 = 1 /\ 1 \in 1 .. n - 1 /\ n - 1 \in 1 .. n - 1
        /\ (n - 1) + 1 = n /\ 1 + 1 = 2 /\ 2 # 1
    BY <1>0
  <2>2. s[2] = linked.link[s[1]] BY <1>2, <2>1 DEF IsChain
  <2>3. s[2] \in used \ {s[1]} BY <1>3, <2>1
  <2>4. t[1] = s[2] BY <1>t, <2>1
  <2>5. t[n - 1] = s[n] BY <1>t, <2>1
  <2> QED BY <2>2, <2>3, <2>4, <2>5
<1>6. n = 1 => last2 = Nodes!NULL BY <1>3
<1> HIDE DEF last2
<1>7. NodeTypes'
  <2>1. IsFiniteSet(used \ {s[1]}) /\ n - 1 = Cardinality(used \ {s[1]})
    BY <1>0, <1>3, FS_RemoveElement
  <2>2. n = 1 \/ n > 1 BY <1>0, <1>3
  <2>3. last2 \in (used \ {s[1]}) \cup {Nodes!NULL} BY <1>5, <1>6, <2>2
  <2>4. n - 1 \in Nat /\ (n - 1 = 0 <=> last2 = Nodes!NULL)
    <3>1. s[2] \in used => s[2] # Nodes!NULL BY <1>0 DEF NodesAssumption
    <3> QED BY <1>0, <1>3, <1>5, <1>6, <2>2, <3>1
  <2>5. /\ linked.value = [a \in Addresses |-> linked.value[a]]
        /\ linked.link = [a \in Addresses |-> linked.link[a]]
        /\ used \ {s[1]} \subseteq Addresses
    BY <1>0 DEF NodesInv, NodeTypes
  <2> QED BY <1>4, <2>1, <2>3, <2>4, <2>5 DEF NodeTypes
<1>8. Ends(t)'
  <2>1. CASE n = 1 BY <1>4, <2>1 DEF Ends
  <2>2. CASE n > 1
    <3>1. n - 1 # 0 /\ n # 1 BY <1>0, <2>2
    <3> QED BY <1>3, <1>4, <1>5, <2>2, <3>1 DEF Ends
  <2> QED BY <1>0, <1>3, <2>1, <2>2
<1>9. /\ linked'.size = n - 1 /\ linked'.used = used \ {s[1]}
      /\ linked'.link = linked.link /\ linked'.value = linked.value
  BY <1>4
<1>10. /\ NodesInv' /\ Nodes!Contents # <<>> /\ Nodes!Contents' = Tail(Nodes!Contents)
  BY <1>2, <1>3, <1>t, <1>7, <1>8, <1>9, ChainPopped DEF n, used
<1> QED BY <1>0, <1>10 DEF Nodes!Keeps

LEMMA StackPushed ==
    ASSUME NodesAssumption, NodesInv, NEW val \in Values, Nodes!stack_push(val)
    PROVE  NodesInv' /\ Nodes!Keeps
<1> DEFINE n == linked.size
           used == linked.used
<1>0. /\ linked = [kind |-> linked.kind, used |-> used, value |-> linked.value,
                   link |-> linked.link, first |-> linked.first, last |-> linked.last,
                   size |-> n, crashed |-> linked.crashed]
      /\ used \subseteq Addresses /\ n \in Nat /\ IsFiniteSet(used) /\ n = Cardinality(used)
      /\ DOMAIN linked.value = Addresses /\ DOMAIN linked.link = Addresses
      /\ linked.kind = "stack" /\ linked.first = Nodes!NULL
      /\ linked.crashed \in BOOLEAN /\ (linked.crashed => Nodes!Astray)
  BY RecordIs DEF NodesInv, NodeTypes, Nodes!stack_push
<1>1. ~Nodes!Astray /\ linked.crashed = FALSE BY <1>0 DEF Nodes!Astray, Nodes!NULL, Nodes!Garbage
<1>2. PICK s : IsChain(s, n, used, linked.link) /\ Ends(s) BY <1>1 DEF NodesInv
<1>3. PICK item \in Addresses \ used :
         linked' = [linked EXCEPT !.used = @ \cup {item}, !.value[item] = val,
                                  !.link[item] = linked.last, !.last = item, !.size = @ + 1]
  BY Zenon DEF Nodes!stack_push
<1> DEFINE value2 == [linked.value EXCEPT ![item] = val]
           link2 == [linked.link EXCEPT ![item] = linked.last]
<1>t. PICK t : t = [i \in 1 .. n + 1 |-> IF i = 1 THEN item ELSE s[i - 1]] OBVIOUS
<1>4. linked' = [kind |-> "stack", used |-> used \cup {item}, value |-> value2, link |-> link2,
                 first |-> Nodes!NULL, last |-> item, size |-> n + 1, crashed |-> FALSE]
  BY <1>0, <1>1, <1>3
<1>5. /\ value2 = [a \in Addresses |-> value2[a]] /\ value2[item] = val
      /\ \A a \in Addresses \ {item} : value2[a] = linked.value[a]
      /\ link2 = [a \in Addresses |-> link2[a]] /\ link2[item] = linked.last
      /\ \A a \in Addresses \ {item} : link2[a] = linked.link[a]
  BY <1>0
<1>6. item # Nodes!NULL /\ item \notin used BY DEF NodesAssumption
<1>7. /\ t[1] = item /\ \A i \in 2 .. n + 1 : t[i] = s[i - 1] /\ i - 1 \in 1 .. n
      /\ \A i \in 1 .. n + 1 : i = 1 \/ i \in 2 .. n + 1
      /\ n > 0 => t[n + 1] = s[n]
      /\ n = 0 => t[n + 1] = item
  <2>1. n > 0 => n + 1 \in 1 .. n + 1 /\ n + 1 # 1 /\ (n + 1) - 1 = n BY <1>0
  <2> QED BY <1>0, <1>t, <2>1
<1>8. /\ \A i \in 1 .. n : s[i] \in used /\ s[i] \in Addresses \ {item}
      /\ n > 0 => linked.last = s[1] /\ linked.link[s[n]] = Nodes!NULL
  BY <1>0, <1>2, <1>6 DEF IsChain, Ends
<1> HIDE DEF value2, link2
<1>9. IsChain(t, n + 1, used \cup {item}, link2)
  <2> HIDE DEF n, used
  <2>1. \A i \in 1 .. n - 1 : link2[s[i]] = linked.link[s[i]]
    <3>1. \A i \in 1 .. n - 1 : i \in 1 .. n BY <1>0
    <3> QED BY <1>5, <1>8, <3>1
  <2>2. IsChain(s, n, used, link2) BY <1>0, <1>2, <2>1, ChainSame
  <2>3. n > 0 => link2[item] = s[1] BY <1>5, <1>8
  <2> QED BY <1>0, <1>t, <1>6, <2>2, <2>3, ChainBefore
<1> HIDE DEF n, used
<1>10. NodeTypes'
  <2>1. IsFiniteSet(used \cup {item}) /\ n + 1 = Cardinality(used \cup {item})
    BY <1>0, <1>6, FS_AddElement
  <2>2. used \cup {item} \subseteq Addresses /\ n + 1 \in Nat /\ n + 1 # 0 BY <1>0
  <2> QED BY <1>4, <1>5, <1>6, <2>1, <2>2 DEF NodeTypes
<1>11. Ends(t)'
  <2>1. n = 0 => linked.last = Nodes!NULL BY DEF NodesInv, NodeTypes, n
  <2>2. link2[t[n + 1]] = Nodes!NULL
    <3>1. CASE n = 0 BY <1>5, <1>7, <2>1, <3>1
    <3>2. CASE n > 0
      <4>1. n \in 1 .. n BY <1>0, <3>2
      <4> QED BY <1>5, <1>7, <1>8, <3>2, <4>1
    <3> QED BY <1>0, <3>1, <3>2
  <2>3. n + 1 # 0 BY <1>0
  <2> QED BY <1>4, <1>7, <2>2, <2>3 DEF Ends
<1>12. IsChain(t, linked.size, linked.used, linked.link)' BY <1>4, <1>9
<1>13. Nodes!Contents = [i \in 1 .. n |-> linked.value[s[i]]]
  BY <1>2, ContentsAre DEF ContentsFollow, NodesInv, n, used
<1>14. ContentsFollow' BY ContentsAre, PTL
<1>15. Nodes!Contents' = [i \in 1 .. n + 1 |-> value2[t[i]]]
  <2>1. Nodes!Contents' = [i \in 1 .. linked'.size |-> linked'.value[t[i]]]
    BY <1>10, <1>11, <1>12, <1>14 DEF ContentsFollow
  <2>2. linked'.size = n + 1 /\ linked'.value = value2 BY <1>4
  <2> QED BY <2>1, <2>2
<1>16. Nodes!Contents' = <<val>> \o Nodes!Contents
  <2> DEFINE c == Nodes!Contents
  <2>1. c = [i \in 1 .. n |-> c[i]] /\ \A i \in 1 .. n : c[i] = linked.value[s[i]]
    BY <1>13
  <2> HIDE DEF c
  <2>2. <<val>> \o c = [i \in 1 .. n + 1 |-> IF i = 1 THEN val ELSE c[i - 1]]
    BY <1>0, <2>1, OneBefore
  <2>3. \A i \in 1 .. n + 1 : value2[t[i]] = IF i = 1 THEN val ELSE c[i - 1]
    <3> SUFFICES ASSUME NEW i \in 1 .. n + 1
                 PROVE  value2[t[i]] = IF i = 1 THEN val ELSE c[i - 1]
      OBVIOUS
    <3>1. CASE i = 1 BY <1>5, <1>7, <3>1
    <3>2. CASE i \in 2 .. n + 1
      <4>1. i # 1 /\ t[i] = s[i - 1] /\ i - 1 \in 1 .. n BY <1>7, <3>2
      <4> QED BY <1>5, <1>8, <2>1, <4>1
    <3> QED BY <1>7, <3>1, <3>2
  <2>4. <<val>> \o c = [i \in 1 .. n + 1 |-> value2[t[i]]] BY <2>2, <2>3
  <2> QED BY <1>15, <2>4 DEF c
<1> QED BY <1>0, <1>10, <1>11, <1>12, <1>16 DEF NodesInv, Nodes!Keeps

LEMMA NodesInit == NodesAssumption /\ Nodes!Init => NodesInv
<1> SUFFICES ASSUME NodesAssumption, Nodes!Init PROVE NodesInv
  OBVIOUS
<1>1. PICK kind \in {"queue", "stack"} :
         linked = [kind |-> kind, used |-> {}, value |-> [a \in Addresses |-> Nodes!Garbage],
                   link |-> [a \in Addresses |-> Nodes!Garbage],
                   first |-> Nodes!NULL, last |-> Nodes!NULL, size |-> 0, crashed |-> FALSE]
  BY Zenon DEF Nodes!Init
<1>2. NodeTypes
  BY <1>1, FS_EmptySet DEF NodeTypes
<1>3. IsChain(<<>>, 0, {}, linked.link) BY DEF IsChain
<1>4. Ends(<<>>) BY <1>1 DEF Ends
<1> QED BY <1>1, <1>2, <1>3, <1>4 DEF NodesInv

LEMMA NodesSteps ==
    ASSUME NodesAssumption, NodesInv, [Nodes!Next]_linked
    PROVE  NodesInv' /\ [Nodes!Keeps]_linked
<1>1. CASE UNCHANGED linked
  BY <1>1 DEF NodesInv, NodeTypes, Ends, Nodes!Astray
<1> QED BY <1>1, QueuePush, QueuePop, StackPopped, StackPushed DEF Nodes!Next

(* The two lists of nodes: as many in use as their size says, of which last   *)
(* is one, unless there is none                                                 *)
THEOREM NodesAreSound ==
    ASSUME NodesAssumption PROVE Nodes!Spec => []Nodes!Sound
<1>1. Nodes!Init => NodesInv BY NodesInit
<1>2. NodesInv /\ [Nodes!Next]_linked => NodesInv' BY NodesSteps
<1>3. NodesInv => Nodes!Sound
  <2>1. \A S : Nodes!Cardinality(S) = Cardinality(S)
    BY DEF Nodes!Cardinality, Cardinality
  <2> QED BY <2>1 DEF NodesInv, NodeTypes, Nodes!Sound, Nodes!empty
<1> QED BY <1>1, <1>2, <1>3, PTL DEF Nodes!Spec

(* The queue is first in, first out and the stack last in, first out, until    *)
(* the queue is emptied and what malloc left in the next of its last node is    *)
(* not NULL                                                                      *)
THEOREM NodesKeep ==
    ASSUME NodesAssumption PROVE Nodes!Spec => [][Nodes!Keeps]_linked
<1>1. Nodes!Init => NodesInv BY NodesInit
<1>2. NodesInv /\ [Nodes!Next]_linked => NodesInv' /\ [Nodes!Keeps]_linked BY NodesSteps
<1> QED BY <1>1, <1>2, PTL DEF Nodes!Spec
-----------------------------------------------------------------------------
(***************************************************************************)
(* The heap                                                                *)
(***************************************************************************)
(* The turns of a loop: what each of them starts from, when next[n] is what  *)
(* turn n does and takes what is in good[n - 1] to what is in good[n]          *)
Turns(m, s0, good, next) ==
    s0 \in good[0] /\ \A n \in 1 .. m : \A x \in good[n - 1] : next[n][x] \in good[n]

LEMMA TurnsExist ==
    ASSUME NEW m \in Nat, NEW s0, NEW good, NEW next, Turns(m, s0, good, next)
    PROVE  \E t : /\ t = [n \in 0 .. m |-> t[n]] /\ t[0] = s0
                  /\ \A n \in 1 .. m : t[n - 1] \in good[n - 1] /\ t[n] = next[n][t[n - 1]]
<1> DEFINE Sol(t, k) == /\ t = [n \in 0 .. k |-> t[n]] /\ t[0] = s0 /\ t[k] \in good[k]
                        /\ \A n \in 1 .. k : t[n - 1] \in good[n - 1] /\ t[n] = next[n][t[n - 1]]
           S == {k \in 0 .. m : \E t : Sol(t, k)}
<1>1. 0 \in S
  <2> DEFINE t0 == [n \in 0 .. 0 |-> s0]
  <2>1. t0[0] = s0 /\ t0 = [n \in 0 .. 0 |-> t0[n]] OBVIOUS
  <2> HIDE DEF t0
  <2>2. Sol(t0, 0) BY <2>1 DEF Turns
  <2> QED BY <2>2
<1>2. ASSUME NEW k \in 0 .. m, k < m, k \in S PROVE k + 1 \in S
  <2>1. PICK t : Sol(t, k) BY <1>2
  <2>2. PICK last : last = next[k + 1][t[k]] OBVIOUS
  <2>3. PICK u : u = [n \in 0 .. k + 1 |-> IF n = k + 1 THEN last ELSE t[n]] OBVIOUS
  <2>4. u = [n \in 0 .. k + 1 |-> u[n]] /\ u[k + 1] = last /\ \A n \in 0 .. k : u[n] = t[n]
    BY <2>3
  <2>5. t[k] \in good[k] /\ t[0] = s0 BY <2>1
  <2>6. last \in good[k + 1]
    <3>1. k + 1 \in 1 .. m /\ (k + 1) - 1 = k BY <1>2
    <3> QED BY <2>2, <2>5, <3>1 DEF Turns
  <2>7. ASSUME NEW n \in 1 .. k + 1 PROVE u[n - 1] \in good[n - 1] /\ u[n] = next[n][u[n - 1]]
    <3>1. CASE n = k + 1
      <4>1. n - 1 = k /\ k \in 0 .. k BY <3>1
      <4>2. u[n - 1] = t[k] BY <2>4, <4>1
      <4> QED BY <2>2, <2>4, <2>5, <3>1, <4>1, <4>2
    <3>2. CASE n # k + 1
      <4>1. n \in 1 .. k /\ n - 1 \in 0 .. k /\ n \in 0 .. k BY <3>2
      <4>2. t[n - 1] \in good[n - 1] /\ t[n] = next[n][t[n - 1]] BY <2>1, <4>1
      <4> QED BY <2>4, <4>1, <4>2
    <3> QED BY <3>1, <3>2
  <2>8. u[0] = s0 BY <2>4, <2>5
  <2>9. Sol(u, k + 1) BY <2>4, <2>6, <2>7, <2>8
  <2> HIDE DEF Sol
  <2> QED BY <1>2, <2>9
<1> HIDE DEF S
<1>3. m \in S BY <1>1, <1>2, UpTo
<1> QED BY <1>3 DEF S

LEMMA TurnsAreGood ==
    ASSUME NEW m \in Nat, NEW s0, NEW good, NEW next, Turns(m, s0, good, next),
           NEW t, t[0] = s0,
           \A n \in 1 .. m : t[n - 1] \in good[n - 1] => t[n] = next[n][t[n - 1]]
    PROVE  \A n \in 0 .. m : t[n] \in good[n]
<1> DEFINE S == {n \in 0 .. m : t[n] \in good[n]}
<1>1. 0 \in S BY DEF Turns
<1>2. ASSUME NEW n \in 0 .. m, n < m, n \in S PROVE n + 1 \in S
  <2>1. n + 1 \in 1 .. m /\ (n + 1) - 1 = n /\ t[n] \in good[n] BY <1>2
  <2>2. t[n + 1] = next[n + 1][t[n]] BY <2>1
  <2>3. next[n + 1][t[n]] \in good[n + 1] BY <2>1 DEF Turns
  <2> QED BY <2>1, <2>2, <2>3
<1> HIDE DEF S
<1>3. \A n \in 0 .. m : n \in S BY <1>1, <1>2, UpTo
<1> QED BY <1>3 DEF S
-----------------------------------------------------------------------------
(* A b_heap_t: below its size it has elements *)
HeapStates == [elements : UNION {[D -> Heaps!Items] : D \in SUBSET Nat}, size : Nat, endless : BOOLEAN]
IsHeap(h) == h \in HeapStates /\ 0 .. h.size - 1 \subseteq DOMAIN h.elements

LEMMA HeapFields ==
    ASSUME NEW h
    PROVE  IsHeap(h) <=>
             /\ h = [elements |-> h.elements, size |-> h.size, endless |-> h.endless]
             /\ h.elements \in [DOMAIN h.elements -> Heaps!Items] /\ DOMAIN h.elements \subseteq Nat
             /\ h.size \in Nat /\ h.endless \in BOOLEAN
             /\ 0 .. h.size - 1 \subseteq DOMAIN h.elements
<1> DEFINE F == UNION {[D -> Heaps!Items] : D \in SUBSET Nat}
<1>1. h.elements \in F <=>
        h.elements \in [DOMAIN h.elements -> Heaps!Items] /\ DOMAIN h.elements \subseteq Nat
  OBVIOUS
<1> HIDE DEF F
<1>2. h \in [elements : F, size : Nat, endless : BOOLEAN] <=>
        /\ h = [elements |-> h.elements, size |-> h.size, endless |-> h.endless]
        /\ h.elements \in F /\ h.size \in Nat /\ h.endless \in BOOLEAN
  OBVIOUS
<1> QED BY <1>1, <1>2 DEF IsHeap, HeapStates, F

HeapsAssumption ==
    Priorities \subseteq Int /\ BINARY_HEAP_INITIAL_CAPACITY \in Nat /\ MaxSize \in Nat

LEMMA HeapPriorities ==
    ASSUME HeapsAssumption, NEW h, IsHeap(h), NEW i \in 0 .. h.size - 1
    PROVE  /\ h.elements[i] \in Heaps!Items /\ Heaps!Priority(h, i) \in Int
           /\ Heaps!Priority(h, i) = h.elements[i].priority
BY HeapFields DEF HeapsAssumption, Heaps!Items, Heaps!Priority

(* How often an element is among those of a heap *)
At(h, e) == {i \in 0 .. h.size - 1 : h.elements[i] = e}

LEMMA CopiesAre ==
    ASSUME NEW h, h.size \in Nat, NEW e
    PROVE  /\ Heaps!Copies(h, e) = Cardinality(At(h, e)) /\ IsFiniteSet(At(h, e))
           /\ Heaps!Copies(h, e) \in Nat
           /\ Heaps!Copies(h, e) = 0 <=> At(h, e) = {}
<1>1. IsFiniteSet(0 .. h.size - 1) BY FS_Interval
<1>2. At(h, e) \in SUBSET (0 .. h.size - 1) BY DEF At
<1>3. IsFiniteSet(At(h, e)) BY <1>1, <1>2, FS_Subset
<1>4. \A S : Heaps!Cardinality(S) = Cardinality(S) BY DEF Heaps!Cardinality, Cardinality
<1>5. Heaps!Copies(h, e) = Cardinality(At(h, e)) BY <1>4 DEF Heaps!Copies, At
<1> QED BY <1>3, <1>5, FS_CardinalityType, FS_EmptySet

(* Sets of indexes that stand for each other *)
LEMMA SameNumber ==
    ASSUME NEW A, NEW B, IsFiniteSet(A), NEW f \in [A -> B], NEW g \in [B -> A],
           \A a \in A : g[f[a]] = a, \A b \in B : f[g[b]] = b
    PROVE  Cardinality(A) = Cardinality(B)
<1>1. f \in Injection(A, B) BY DEF Injection, IsInjective
<1>2. f \in Surjection(A, B) BY DEF Surjection
<1>3. ExistsBijection(A, B) BY <1>1, <1>2 DEF ExistsBijection, Bijection
<1> QED BY <1>3, FS_Bijection
-----------------------------------------------------------------------------
Same(g, h) ==
    /\ IsHeap(g) /\ g.size = h.size /\ g.endless = h.endless
    /\ \A e \in Heaps!Items : Heaps!Copies(g, e) = Heaps!Copies(h, e)

(* An exchange loses and doubles nothing *)
LEMMA SwapKeeps ==
    ASSUME NEW h, IsHeap(h), NEW i \in 0 .. h.size - 1, NEW j \in 0 .. h.size - 1,
           NEW g, g = Heaps!Swapped(h, i, j)
    PROVE  /\ Same(g, h)
           /\ \A x \in 0 .. h.size - 1 :
                 g.elements[x] = IF x = i THEN h.elements[j] ELSE IF x = j THEN h.elements[i]
                                 ELSE h.elements[x]
<1> DEFINE n == h.size
           D == DOMAIN h.elements
<1>0. /\ h = [elements |-> h.elements, size |-> n, endless |-> h.endless]
      /\ h.elements \in [D -> Heaps!Items] /\ D \subseteq Nat /\ n \in Nat /\ h.endless \in BOOLEAN
      /\ 0 .. n - 1 \subseteq D
  BY HeapFields
<1>1. PICK el : el = [[h.elements EXCEPT ![i] = h.elements[j]] EXCEPT ![j] = h.elements[i]] OBVIOUS
<1>2. g = [elements |-> el, size |-> n, endless |-> h.endless]
  BY <1>0, <1>1 DEF Heaps!Swapped
<1> HIDE DEF n, D
<1>3. i \in D /\ j \in D BY <1>0 DEF n
<1>4. el \in [D -> Heaps!Items] /\ \A x \in D :
          el[x] = IF x = i THEN h.elements[j] ELSE IF x = j THEN h.elements[i] ELSE h.elements[x]
  BY <1>0, <1>1, <1>3
<1>5. g.elements = el /\ g.size = n /\ g.endless = h.endless BY <1>2
<1>6. IsHeap(g) BY <1>0, <1>2, <1>4, <1>5, HeapFields
<1>7. ASSUME NEW e \in Heaps!Items PROVE Heaps!Copies(g, e) = Heaps!Copies(h, e)
  <2> DEFINE A == At(g, e)
             B == At(h, e)
             other(x) == IF x = i THEN j ELSE IF x = j THEN i ELSE x
  <2>1. A = {x \in 0 .. n - 1 : el[x] = e} /\ B = {x \in 0 .. n - 1 : h.elements[x] = e}
    BY <1>5 DEF At, n
  <2>2. i \in 0 .. n - 1 /\ j \in 0 .. n - 1 BY DEF n
  <2>3. ASSUME NEW x \in 0 .. n - 1
        PROVE  /\ other(x) \in 0 .. n - 1 /\ other(other(x)) = x
               /\ el[x] = h.elements[other(x)]
    <3>1. x \in D BY <1>0
    <3> QED BY <1>4, <2>2, <3>1
  <2> HIDE DEF A, B, other
  <2>4. \A x \in A : other(x) \in B BY <2>1, <2>3
  <2>5. \A x \in B : other(x) \in A BY <2>1, <2>3
  <2>6. PICK f : f = [x \in A |-> other(x)] OBVIOUS
  <2>7. PICK k : k = [x \in B |-> other(x)] OBVIOUS
  <2>8. \A x \in A : x \in 0 .. n - 1 BY <2>1
  <2>9. \A x \in B : x \in 0 .. n - 1 BY <2>1
  <2>10. f \in [A -> B] /\ k \in [B -> A] BY <2>4, <2>5, <2>6, <2>7
  <2>11. (\A x \in A : k[f[x]] = x) /\ (\A x \in B : f[k[x]] = x)
    BY <2>3, <2>4, <2>5, <2>6, <2>7, <2>8, <2>9
  <2>12. IsFiniteSet(A) /\ Heaps!Copies(g, e) = Cardinality(A) /\ Heaps!Copies(h, e) = Cardinality(B)
    BY <1>0, <1>5, CopiesAre DEF A, B, n
  <2> QED BY <2>10, <2>11, <2>12, SameNumber
<1>8. \A x \in 0 .. n - 1 : x \in D BY <1>0
<1> QED BY <1>4, <1>5, <1>6, <1>7, <1>8 DEF Same, n
-----------------------------------------------------------------------------
(* An element is before those under it; ValidFrom(h, k): from index k on;  *)
(* Sinking(h, k, i): but for the one at i, which may have to go down           *)
Under(i) == {2 * i + 1, 2 * i + 2}
Ordered(h, i) ==
    \A child \in Under(i) : child < h.size => Heaps!Priority(h, i) <= Heaps!Priority(h, child)
ValidFrom(h, k) == \A i \in k .. h.size - 1 : Ordered(h, i)
Sinking(h, k, i) ==
    /\ \A j \in k .. h.size - 1 : j # i => Ordered(h, j)
    /\ \A j \in k .. h.size - 1 : i \in Under(j) =>
          \A child \in Under(i) : child < h.size => Heaps!Priority(h, j) <= Heaps!Priority(h, child)

LEMMA ValidIs ==
    ASSUME NEW h, h.size \in Nat PROVE Heaps!is_valid(h) <=> ValidFrom(h, 0)
<1>1. \A i \in Nat : Heaps!B_HEAP_LEFT_INDEX(i) = 2 * i + 1 BY DEF Heaps!B_HEAP_LEFT_INDEX
<1>2. \A i \in Nat : {Heaps!B_HEAP_LEFT_INDEX(i), Heaps!B_HEAP_LEFT_INDEX(i) + 1} = Under(i)
  BY <1>1 DEF Under
<1>3. \A i \in 0 .. h.size - 1 : i \in Nat OBVIOUS
<1> QED BY <1>2, <1>3, Zenon DEF Heaps!is_valid, ValidFrom, Ordered

(* The child that goes up is the lowest of the two *)
LEMMA LowestIs ==
    ASSUME HeapsAssumption, NEW h, IsHeap(h), NEW i \in Nat, 2 * i + 1 < h.size
    PROVE  /\ Heaps!LowestChild(h, i) \in Under(i) /\ Heaps!LowestChild(h, i) < h.size
           /\ \A child \in Under(i) : child < h.size =>
                 Heaps!Priority(h, Heaps!LowestChild(h, i)) <= Heaps!Priority(h, child)
<1>1. h.size \in Nat BY HeapFields
<1>2. \A j \in 0 .. h.size - 1 : Heaps!Priority(h, j) \in Int BY HeapPriorities
<1>3. Heaps!B_HEAP_LEFT_INDEX(i) = 2 * i + 1 BY DEF Heaps!B_HEAP_LEFT_INDEX
<1>4. 2 * i + 1 \in 0 .. h.size - 1 BY <1>1
<1>5. 2 * i + 2 < h.size => 2 * i + 2 \in 0 .. h.size - 1 BY <1>1
<1> DEFINE a == Heaps!Priority(h, 2 * i + 1)
           b == Heaps!Priority(h, 2 * i + 2)
<1>6. a \in Int /\ (2 * i + 2 < h.size => b \in Int) BY <1>2, <1>4, <1>5
<1>7. Heaps!LowestChild(h, i) = IF 2 * i + 2 < h.size /\ a > b THEN 2 * i + 2 ELSE 2 * i + 1
  <2>1. (2 * i + 1) + 1 = 2 * i + 2 OBVIOUS
  <2> QED BY <1>3, <2>1, Zenon DEF Heaps!LowestChild
<1>8. CASE 2 * i + 2 < h.size /\ a > b
  <2>1. Heaps!LowestChild(h, i) = 2 * i + 2 BY <1>7, <1>8
  <2>2. b <= a /\ b <= b BY <1>6, <1>8
  <2> QED BY <1>8, <2>1, <2>2 DEF Under
<1>9. CASE ~(2 * i + 2 < h.size /\ a > b)
  <2>1. Heaps!LowestChild(h, i) = 2 * i + 1 BY <1>7, <1>9
  <2>2. a <= a /\ (2 * i + 2 < h.size => a <= b) BY <1>6, <1>9
  <2> QED BY <2>1, <2>2 DEF Under
<1> QED BY <1>8, <1>9
-----------------------------------------------------------------------------
(* A turn of heapify_from: it stops, or goes on from a child *)
Stays(library, h, i) ==
    \/ 2 * i + 1 >= h.size
    \/ library = "library" /\ Heaps!Priority(h, Heaps!LowestChild(h, i)) > Heaps!Priority(h, i)
Exchanges(library, h, i) ==
    library = "library" \/ Heaps!Priority(h, Heaps!LowestChild(h, i)) < Heaps!Priority(h, i)

LEMMA DownIs ==
    ASSUME HeapsAssumption, NEW library, NEW h, IsHeap(h), NEW i \in Nat,
           NEW to, to = Heaps!Down(library, [h |-> h, i |-> i])
    PROVE  /\ Stays(library, h, i) => to = [h |-> h, i |-> i]
           /\ ~Stays(library, h, i) =>
                 /\ 2 * i + 1 < h.size /\ to.i = Heaps!LowestChild(h, i)
                 /\ to.h = IF Exchanges(library, h, i) THEN Heaps!Swapped(h, Heaps!LowestChild(h, i), i)
                           ELSE h
                 /\ to = [h |-> to.h, i |-> to.i]
<1>1. h.size \in Nat BY HeapFields
<1>2. PICK at : at = [h |-> h, i |-> i] OBVIOUS
<1>3. at.h = h /\ at.i = i BY <1>2
<1>4. Heaps!B_HEAP_LEFT_INDEX(i) = 2 * i + 1 BY DEF Heaps!B_HEAP_LEFT_INDEX
<1> DEFINE child == Heaps!LowestChild(h, i)
<1>5. to = IF Stays(library, h, i) THEN at
           ELSE [h |-> IF Exchanges(library, h, i) THEN Heaps!Swapped(h, child, i) ELSE h,
                 i |-> child]
  BY <1>2, <1>3, <1>4, Zenon DEF Heaps!Down, Stays, Exchanges
<1> HIDE DEF child
<1>6. ~Stays(library, h, i) => 2 * i + 1 < h.size BY <1>1 DEF Stays
<1>7. CASE Stays(library, h, i) BY <1>2, <1>5, <1>7
<1>8. CASE ~Stays(library, h, i)
  <2>1. PICK g : g = IF Exchanges(library, h, i) THEN Heaps!Swapped(h, child, i) ELSE h OBVIOUS
  <2>2. to = [h |-> g, i |-> child] BY <1>5, <1>8, <2>1
  <2>3. to.h = g /\ to.i = child BY <2>2
  <2> QED BY <1>6, <1>8, <2>1, <2>2, <2>3 DEF child
<1> QED BY <1>7, <1>8

LEMMA DownKeeps ==
    ASSUME HeapsAssumption, NEW library, NEW h, IsHeap(h), NEW i \in Nat,
           NEW to, to = Heaps!Down(library, [h |-> h, i |-> i])
    PROVE  /\ Same(to.h, h) /\ to = [h |-> to.h, i |-> to.i] /\ to.i \in Nat
           /\ Stays(library, h, i) \/ (to.i > i /\ to.i < h.size)
<1>1. h.size \in Nat BY HeapFields
<1>2. Same(h, h) BY DEF Same
<1>3. CASE Stays(library, h, i)
  <2>1. to = [h |-> h, i |-> i] BY <1>3, DownIs
  <2> QED BY <1>2, <1>3, <2>1
<1>4. CASE ~Stays(library, h, i)
  <2>1. /\ 2 * i + 1 < h.size /\ to.i = Heaps!LowestChild(h, i) /\ to = [h |-> to.h, i |-> to.i]
        /\ to.h = Heaps!Swapped(h, to.i, i) \/ to.h = h
    BY <1>4, DownIs
  <2>2. to.i \in Under(i) /\ to.i < h.size BY <2>1, LowestIs
  <2>3. to.i \in Nat /\ to.i > i /\ to.i \in 0 .. h.size - 1 /\ i \in 0 .. h.size - 1
    BY <1>1, <2>1, <2>2 DEF Under
  <2>4. Same(to.h, h) BY <1>2, <2>1, <2>3, SwapKeeps
  <2> QED BY <2>1, <2>2, <2>3, <2>4
<1> QED BY <1>3, <1>4
(* It leaves one element that may have to go down, or none *)
LEMMA DownSinks ==
    ASSUME HeapsAssumption, NEW library, NEW h, IsHeap(h), NEW i \in Nat, NEW k \in Nat, k <= i,
           Sinking(h, k, i), NEW to, to = Heaps!Down(library, [h |-> h, i |-> i])
    PROVE  Sinking(to.h, k, to.i) /\ (Stays(library, h, i) => ValidFrom(h, k))
<1> DEFINE n == h.size
           P(x) == Heaps!Priority(h, x)
<1>0. n \in Nat BY HeapFields
<1>1. \A x \in 0 .. n - 1 : P(x) \in Int BY HeapPriorities
<1>2. \A j \in k .. n - 1 : j # i => \A d \in Under(j) : d < n => P(j) <= P(d)
  BY DEF Sinking, Ordered
<1>3. \A j \in k .. n - 1 : i \in Under(j) => \A d \in Under(i) : d < n => P(j) <= P(d)
  BY DEF Sinking
<1>4. Ordered(h, i) => ValidFrom(h, k) BY DEF Sinking, ValidFrom
<1>5. Ordered(h, i) <=> \A d \in Under(i) : d < n => P(i) <= P(d) BY DEF Ordered
<1>6. \A x, d \in Nat : d \in Under(x) => d > x /\ d >= 2 * x + 1 BY DEF Under
<1>7. \A x, y, d \in Nat : d \in Under(x) /\ d \in Under(y) => x = y BY DEF Under
<1>8. \A x \in Nat : Under(x) \subseteq Nat BY DEF Under
<1> HIDE DEF n, P
<1>9. CASE Stays(library, h, i)
  <2>1. to.h = h /\ to.i = i BY <1>9, DownIs
  <2>2. Ordered(h, i)
    <3>1. CASE 2 * i + 1 >= n
      <4>1. \A d \in Under(i) : ~(d < n) BY <1>0, <1>6, <1>8, <3>1
      <4> QED BY <1>5, <4>1
    <3>2. CASE ~(2 * i + 1 >= n)
      <4>1. /\ 2 * i + 1 < n /\ i \in 0 .. n - 1 BY <1>0, <3>2
      <4>2. Heaps!Priority(h, Heaps!LowestChild(h, i)) > Heaps!Priority(h, i)
        BY <1>9, <3>2 DEF Stays, n
      <4>3. PICK c : c = Heaps!LowestChild(h, i) OBVIOUS
      <4>4. c \in Under(i) /\ c < n /\ \A d \in Under(i) : d < n => P(c) <= P(d)
        BY <4>1, <4>3, LowestIs DEF n, P
      <4>5. P(c) > P(i) BY <4>2, <4>3 DEF P
      <4>6. c \in 0 .. n - 1 BY <1>0, <1>8, <4>4
      <4>7. ASSUME NEW d \in Under(i), d < n PROVE P(i) <= P(d)
        <5>1. d \in 0 .. n - 1 BY <1>0, <1>8, <4>7
        <5> QED BY <1>1, <4>1, <4>4, <4>5, <4>6, <4>7, <5>1
      <4> QED BY <1>5, <4>7
    <3> QED BY <3>1, <3>2
  <2> QED BY <1>4, <2>1, <2>2
<1>10. CASE ~Stays(library, h, i)
  <2> DEFINE c == to.i
  <2>1. /\ 2 * i + 1 < n /\ c = Heaps!LowestChild(h, i)
        /\ to.h = IF Exchanges(library, h, i) THEN Heaps!Swapped(h, c, i) ELSE h
    BY <1>10, DownIs DEF n
  <2>2. c \in Under(i) /\ c < n /\ \A d \in Under(i) : d < n => P(c) <= P(d)
    BY <2>1, LowestIs DEF n, P
  <2>3. ~(library = "library" /\ P(c) > P(i)) BY <1>10, <2>1 DEF Stays, P
  <2>4. Exchanges(library, h, i) <=> library = "library" \/ P(c) < P(i)
    BY <2>1 DEF Exchanges, P
  <2> HIDE DEF c
  <2>5. c \in Nat /\ c > i /\ c \in 0 .. n - 1 /\ i \in 0 .. n - 1 /\ c \in k .. n - 1 /\ i \in k .. n - 1
    BY <1>0, <1>6, <1>8, <2>2
  <2>6. \A j \in Nat : c \in Under(j) => j = i BY <1>7, <2>2, <2>5
  <2>7. ASSUME NEW d \in Under(c), d < n PROVE P(c) <= P(d) /\ d \in 0 .. n - 1 /\ d # c /\ d # i
    <3>1. d \in Nat /\ d > c BY <1>6, <1>8, <2>5
    <3> QED BY <1>0, <1>2, <2>5, <2>7, <3>1
  <2>8. CASE ~Exchanges(library, h, i)
    <3>1. to.h = h /\ P(i) <= P(c) BY <1>1, <2>1, <2>4, <2>5, <2>8
    <3>2. ASSUME NEW d \in Under(i), d < n PROVE P(i) <= P(d)
      <4>1. d \in 0 .. n - 1 BY <1>0, <1>8, <3>2
      <4> QED BY <1>1, <2>2, <2>5, <3>1, <3>2, <4>1
    <3>3. ValidFrom(h, k) BY <1>4, <1>5, <3>2
    <3>4. \A j \in k .. n - 1 : j # c => Ordered(h, j) BY <3>3 DEF ValidFrom, n
    <3>5. ASSUME NEW j \in k .. n - 1, c \in Under(j), NEW d \in Under(c), d < n PROVE P(j) <= P(d)
      <4>1. j = i BY <1>0, <2>6, <3>5
      <4> QED BY <1>1, <2>5, <2>7, <3>1, <3>5, <4>1
    <3>6. Sinking(h, k, c) BY <3>4, <3>5 DEF Sinking, n, P
    <3> QED BY <1>10, <3>1, <3>6 DEF c
  <2>9. CASE Exchanges(library, h, i)
    <3>1. P(c) <= P(i) BY <1>1, <2>3, <2>4, <2>5, <2>9
    <3>2. PICK g : g = Heaps!Swapped(h, c, i) OBVIOUS
    <3>3. to.h = g BY <2>1, <2>9, <3>2
    <3> DEFINE Q(x) == Heaps!Priority(g, x)
    <3>4. g.size = n /\ \A x \in 0 .. n - 1 : Q(x) = IF x = c THEN P(i) ELSE IF x = i THEN P(c) ELSE P(x)
      BY <2>5, <3>2, SwapKeeps DEF Same, Heaps!Priority, n, P
    <3> HIDE DEF Q
    <3>5. ASSUME NEW j \in k .. n - 1, j # c, NEW d \in Under(j), d < n PROVE Q(j) <= Q(d)
      <4>1. d \in Nat /\ d > j /\ d \in 0 .. n - 1 /\ j \in 0 .. n - 1 BY <1>0, <1>6, <1>8, <3>5
      <4>2. CASE j = i
        <5>1. Q(j) = P(c) /\ d # i BY <2>5, <3>4, <3>5, <4>1, <4>2
        <5>2. CASE d = c BY <3>1, <3>4, <4>1, <5>1, <5>2
        <5>3. CASE d # c BY <2>2, <3>4, <3>5, <4>1, <4>2, <5>1, <5>3
        <5> QED BY <5>2, <5>3
      <4>3. CASE j # i
        <5>1. Q(j) = P(j) /\ d # c BY <1>0, <2>6, <3>4, <3>5, <4>1, <4>3
        <5>2. CASE d = i
          <6>1. Q(d) = P(c) BY <2>5, <3>4, <4>1, <5>2
          <6> QED BY <1>3, <2>2, <3>5, <5>1, <5>2, <6>1
        <5>3. CASE d # i BY <1>2, <3>4, <3>5, <4>1, <4>3, <5>1, <5>3
        <5> QED BY <5>2, <5>3
      <4> QED BY <4>2, <4>3
    <3>6. ASSUME NEW j \in k .. n - 1, c \in Under(j), NEW d \in Under(c), d < n PROVE Q(j) <= Q(d)
      <4>1. j = i BY <1>0, <2>6, <3>6
      <4>2. Q(j) = P(c) /\ Q(d) = P(d) BY <2>5, <2>7, <3>4, <3>6, <4>1
      <4> QED BY <2>7, <3>6, <4>2
    <3>7. \A j \in k .. n - 1 : j # c => Ordered(g, j) BY <3>4, <3>5 DEF Ordered, Q
    <3>8. Sinking(g, k, c) BY <3>4, <3>6, <3>7 DEF Sinking, Q
    <3> QED BY <1>10, <3>3, <3>8 DEF c
  <2> QED BY <2>8, <2>9
<1> QED BY <1>9, <1>10
(* heapify_from keeps what is in the heap, and if one element had to go     *)
(* down it has gone as far as it had to                                       *)
Sunk(library, h, i, k, n, at) ==
    /\ Same(at.h, h)
    /\ k <= i /\ Sinking(h, k, i) =>
          /\ k <= at.i /\ Sinking(at.h, k, at.i)
          /\ at.i >= i + n \/ (ValidFrom(at.h, k) /\ Heaps!Down(library, at) = at)

LEMMA SunkFurther ==
    ASSUME HeapsAssumption, NEW library, NEW h, IsHeap(h), NEW i \in Nat, NEW k \in Nat,
           NEW n \in Nat, NEW x \in [h : HeapStates, i : Nat], Sunk(library, h, i, k, n, x)
    PROVE  /\ Heaps!Down(library, x) \in [h : HeapStates, i : Nat]
           /\ Sunk(library, h, i, k, n + 1, Heaps!Down(library, x))
<1>1. x = [h |-> x.h, i |-> x.i] /\ x.i \in Nat OBVIOUS
<1>2. Same(x.h, h) BY DEF Sunk
<1>3. IsHeap(x.h) /\ x.h.size = h.size BY <1>2 DEF Same
<1>4. PICK to : to = Heaps!Down(library, x) OBVIOUS
<1>5. to = Heaps!Down(library, [h |-> x.h, i |-> x.i]) BY <1>1, <1>4
<1>6. /\ Same(to.h, x.h) /\ to = [h |-> to.h, i |-> to.i] /\ to.i \in Nat
      /\ Stays(library, x.h, x.i) \/ (to.i > x.i /\ to.i < x.h.size)
  BY <1>1, <1>3, <1>5, DownKeeps
<1>7. to \in [h : HeapStates, i : Nat] BY <1>6 DEF Same, IsHeap
<1>8. Same(to.h, h) BY <1>2, <1>6 DEF Same
<1>9. ASSUME k <= i, Sinking(h, k, i)
      PROVE  /\ k <= to.i /\ Sinking(to.h, k, to.i)
             /\ to.i >= i + (n + 1) \/ (ValidFrom(to.h, k) /\ Heaps!Down(library, to) = to)
  <2>1. /\ k <= x.i /\ Sinking(x.h, k, x.i)
        /\ x.i >= i + n \/ (ValidFrom(x.h, k) /\ Heaps!Down(library, x) = x)
    BY <1>9 DEF Sunk
  <2>2. Sinking(to.h, k, to.i) /\ (Stays(library, x.h, x.i) => ValidFrom(x.h, k))
    BY <1>1, <1>3, <1>5, <2>1, DownSinks
  <2>3. CASE Stays(library, x.h, x.i)
    <3>1. to = x BY <1>1, <1>3, <1>5, <2>3, DownIs
    <3> QED BY <1>4, <2>1, <2>2, <2>3, <3>1
  <2>4. CASE ~Stays(library, x.h, x.i)
    <3>1. to.i > x.i BY <1>6, <2>4
    <3>2. x.i >= i + n => to.i >= i + (n + 1) BY <1>1, <1>6, <3>1
    <3>3. Heaps!Down(library, x) = x => to = x BY <1>4
    <3>4. k <= to.i BY <1>1, <1>6, <2>1, <3>1
    <3> QED BY <1>4, <2>1, <2>2, <3>2, <3>3, <3>4
  <2> QED BY <2>3, <2>4
<1> QED BY <1>4, <1>7, <1>8, <1>9 DEF Sunk

LEMMA FromKeeps ==
    ASSUME HeapsAssumption, NEW library, NEW h, IsHeap(h), NEW i \in Nat, NEW k \in Nat
    PROVE  LET g == Heaps!heapify_from(library, h, i) IN
           Same(g, h) /\ (k <= i /\ Sinking(h, k, i) => ValidFrom(g, k))
<1> DEFINE m == h.size
           s0 == [h |-> h, i |-> i]
           States == [h : HeapStates, i : Nat]
           good == [n \in 0 .. m |-> {x \in States : Sunk(library, h, i, k, n, x)}]
           next == [n \in 1 .. m |-> [x \in States |-> Heaps!Down(library, x)]]
           Sol(t) == t = [n \in 0 .. m |-> IF n = 0 THEN s0 ELSE Heaps!Down(library, t[n - 1])]
<1>0. m \in Nat /\ h \in HeapStates BY HeapFields DEF IsHeap
<1>1. Turns(m, s0, good, next)
  <2>1. s0 \in States /\ s0.h = h /\ s0.i = i BY <1>0
  <2>2. Same(h, h) BY DEF Same
  <2>3. Sunk(library, h, i, k, 0, s0) BY <2>1, <2>2 DEF Sunk
  <2>4. 0 \in 0 .. m BY <1>0
  <2> HIDE DEF s0, States, m
  <2>5. good[0] = {x \in States : Sunk(library, h, i, k, 0, x)} BY <2>4
  <2>6. s0 \in good[0] BY <2>1, <2>3, <2>5
  <2>7. ASSUME NEW n \in 1 .. m, NEW x \in good[n - 1] PROVE next[n][x] \in good[n]
    <3>1. n - 1 \in 0 .. m /\ n \in 0 .. m /\ n - 1 \in Nat /\ (n - 1) + 1 = n BY <1>0
    <3>2. good[n - 1] = {y \in States : Sunk(library, h, i, k, n - 1, y)} BY <3>1
    <3>3. x \in States /\ Sunk(library, h, i, k, n - 1, x) BY <2>7, <3>2
    <3>4. Heaps!Down(library, x) \in States /\ Sunk(library, h, i, k, (n - 1) + 1, Heaps!Down(library, x))
      BY <3>1, <3>3, SunkFurther, Zenon DEF States
    <3>5. next[n] = [y \in States |-> Heaps!Down(library, y)] BY <2>7
    <3>6. next[n][x] = Heaps!Down(library, x) BY <3>3, <3>5
    <3>7. good[n] = {y \in States : Sunk(library, h, i, k, n, y)} BY <3>1
    <3>8. Sunk(library, h, i, k, n, Heaps!Down(library, x)) BY <3>1, <3>4
    <3> QED BY <3>4, <3>6, <3>7, <3>8
  <2> QED BY <2>6, <2>7 DEF Turns
<1>2. ASSUME NEW n \in 1 .. m, NEW x \in good[n - 1] PROVE next[n][x] = Heaps!Down(library, x)
  <2> HIDE DEF s0, m
  <2>1. n - 1 \in 0 .. m BY <1>0
  <2>2. x \in States BY <1>2, <2>1
  <2> HIDE DEF States
  <2>3. next[n] = [y \in States |-> Heaps!Down(library, y)] BY <1>2
  <2> QED BY <2>2, <2>3
<1> HIDE DEF m, s0, good, next, Sol
<1>3. \E t : Sol(t)
  <2>1. PICK t : /\ t = [n \in 0 .. m |-> t[n]] /\ t[0] = s0
                 /\ \A n \in 1 .. m : t[n - 1] \in good[n - 1] /\ t[n] = next[n][t[n - 1]]
    BY <1>0, <1>1, TurnsExist
  <2>2. \A n \in 1 .. m : t[n] = Heaps!Down(library, t[n - 1]) BY <1>2, <2>1
  <2>3. ASSUME NEW n \in 0 .. m
        PROVE  t[n] = IF n = 0 THEN s0 ELSE Heaps!Down(library, t[n - 1])
    <3>1. n = 0 \/ n \in 1 .. m BY <1>0
    <3> QED BY <2>1, <2>2, <3>1
  <2>4. t = [n \in 0 .. m |-> IF n = 0 THEN s0 ELSE Heaps!Down(library, t[n - 1])]
    BY <2>1, <2>3, Zenon
  <2> QED BY <2>4 DEF Sol
<1>4. PICK t : t = CHOOSE u : Sol(u) OBVIOUS
<1>5. Sol(t) BY <1>3, <1>4, Zenon
<1>6. Heaps!heapify_from(library, h, i) = t[m].h
  BY <1>4, Zenon DEF Heaps!heapify_from, Sol, m, s0
<1>7. t[0] = s0 /\ \A n \in 1 .. m : t[n] = Heaps!Down(library, t[n - 1])
  <2>1. \A n \in 0 .. m : t[n] = IF n = 0 THEN s0 ELSE Heaps!Down(library, t[n - 1])
    BY <1>5, Zenon DEF Sol
  <2>2. 0 \in 0 .. m /\ \A n \in 1 .. m : n \in 0 .. m /\ n # 0 BY <1>0
  <2> QED BY <2>1, <2>2
<1>8. t[m] \in good[m]
  <2>1. \A n \in 1 .. m : t[n - 1] \in good[n - 1] => t[n] = next[n][t[n - 1]] BY <1>2, <1>7
  <2>2. \A n \in 0 .. m : t[n] \in good[n] BY <1>0, <1>1, <1>7, <2>1, TurnsAreGood
  <2>3. m \in 0 .. m BY <1>0
  <2> QED BY <2>2, <2>3
<1>9. t[m] \in States /\ Sunk(library, h, i, k, m, t[m])
  <2>1. m \in 0 .. m BY <1>0
  <2> HIDE DEF States
  <2>2. good[m] = {x \in States : Sunk(library, h, i, k, m, x)} BY <2>1, Zenon DEF good
  <2> QED BY <1>8, <2>2
<1>10. ASSUME k <= i, Sinking(h, k, i) PROVE ValidFrom(t[m].h, k)
  <2>1. Sinking(t[m].h, k, t[m].i) /\ (t[m].i >= i + m \/ ValidFrom(t[m].h, k))
    BY <1>9, <1>10 DEF Sunk
  <2>2. CASE t[m].i >= i + m
    <3>1. t[m].h.size = m BY <1>9 DEF Sunk, Same, m
    <3>2. \A j \in k .. m - 1 : j # t[m].i BY <1>0, <1>9, <2>2
    <3> QED BY <2>1, <3>1, <3>2 DEF Sinking, ValidFrom
  <2> QED BY <2>1, <2>2
<1> QED BY <1>6, <1>9, <1>10 DEF Sunk
-----------------------------------------------------------------------------
(* heapify_to keeps what is in the heap; it leaves the heap as it is when   *)
(* the element need not rise, and the library never leaves element 1           *)
Kept(g, h) ==
    /\ IsHeap(g) /\ g.size = h.size
    /\ \A e \in Heaps!Items : Heaps!Copies(g, e) = Heaps!Copies(h, e)

Risen(library, h, i, n, at) ==
    /\ Kept(at.h, h) /\ at.i \in 0 .. h.size - 1
    /\ ~Heaps!Rises(library, h, i) => at.h = h /\ at.i = i
    /\ library = "library" /\ i = 1 => at.i = 1 /\ (n > 0 => at.h.endless)

LEMMA RisenFurther ==
    ASSUME HeapsAssumption, NEW library, NEW h, IsHeap(h), NEW i \in 0 .. h.size - 1,
           NEW n \in Nat, NEW x \in [h : HeapStates, i : Nat], Risen(library, h, i, n, x)
    PROVE  /\ Heaps!Up(library, x) \in [h : HeapStates, i : Nat]
           /\ Risen(library, h, i, n + 1, Heaps!Up(library, x))
<1> DEFINE to == Heaps!Up(library, x)
           parent == Heaps!B_HEAP_PARENT_INDEX(x.i)
<1>0. h.size \in Nat BY HeapFields
<1>1. x = [h |-> x.h, i |-> x.i] /\ x.i \in Nat /\ x.i \in 0 .. h.size - 1 /\ Kept(x.h, h)
  BY DEF Risen
<1>2. IsHeap(x.h) /\ x.h.size = h.size BY <1>1 DEF Kept
<1>3. to = IF ~Heaps!Rises(library, x.h, x.i) THEN x
           ELSE IF parent = x.i THEN [x EXCEPT !.h.endless = TRUE]
           ELSE [h |-> Heaps!Swapped(x.h, parent, x.i), i |-> parent]
  BY Zenon DEF Heaps!Up
<1>4. parent = (x.i + 1) \div 2 BY DEF Heaps!B_HEAP_PARENT_INDEX
<1>5. x.i # 0 => parent \in 0 .. h.size - 1 BY <1>0, <1>1, <1>4
<1>6. x.i = 1 => parent = 1 BY <1>4
<1>7. Heaps!Rises(library, x.h, x.i) => x.i # 0 BY DEF Heaps!Rises
<1>8. library = "library" /\ x.i = 1 => Heaps!Rises(library, x.h, x.i)
  <2> SUFFICES ASSUME library = "library", x.i = 1 PROVE Heaps!Rises(library, x.h, x.i)
    OBVIOUS
  <2>1. 1 \in 0 .. x.h.size - 1 BY <1>1, <1>2
  <2>2. Heaps!Priority(x.h, 1) \in Int BY <1>2, <2>1, HeapPriorities
  <2>3. Heaps!B_HEAP_PARENT_INDEX(1) = 1 BY DEF Heaps!B_HEAP_PARENT_INDEX
  <2>4. Heaps!Priority(x.h, 1) >= Heaps!Priority(x.h, 1) BY <2>2
  <2> QED BY <2>3, <2>4 DEF Heaps!Rises
<1>9. ~Heaps!Rises(library, h, i) => x.h = h /\ x.i = i BY DEF Risen
<1>10. library = "library" /\ i = 1 => x.i = 1 /\ (n > 0 => x.h.endless) BY DEF Risen
<1> HIDE DEF to, parent
<1>11. CASE ~Heaps!Rises(library, x.h, x.i)
  <2>1. to = x BY <1>3, <1>11
  <2>2. ~(library = "library" /\ i = 1) BY <1>8, <1>10, <1>11
  <2>3. Risen(library, h, i, n + 1, to) BY <1>1, <1>9, <2>1, <2>2 DEF Risen
  <2> QED BY <2>1, <2>3 DEF to
<1>12. CASE Heaps!Rises(library, x.h, x.i) /\ parent = x.i
  <2>1. to = [x EXCEPT !.h.endless = TRUE] BY <1>3, <1>12
  <2>2. PICK g : g = [x.h EXCEPT !.endless = TRUE] OBVIOUS
  <2>3. to = [h |-> g, i |-> x.i] BY <1>1, <2>1, <2>2
  <2>4. /\ x.h = [elements |-> x.h.elements, size |-> x.h.size, endless |-> x.h.endless]
        /\ x.h.elements \in [DOMAIN x.h.elements -> Heaps!Items] /\ DOMAIN x.h.elements \subseteq Nat
        /\ x.h.size \in Nat /\ 0 .. x.h.size - 1 \subseteq DOMAIN x.h.elements
    BY <1>2, HeapFields
  <2>5. g = [elements |-> x.h.elements, size |-> x.h.size, endless |-> TRUE] BY <2>2, <2>4
  <2>6. g.elements = x.h.elements /\ g.size = x.h.size /\ g.endless BY <2>5
  <2>7. IsHeap(g) BY <2>4, <2>5, <2>6, HeapFields
  <2>8. \A e \in Heaps!Items : Heaps!Copies(g, e) = Heaps!Copies(x.h, e) BY <2>6 DEF Heaps!Copies
  <2>9. Kept(g, h) BY <1>1, <2>6, <2>7, <2>8 DEF Kept
  <2>10. to.h = g /\ to.i = x.i BY <2>3
  <2>11. Heaps!Rises(library, h, i) BY <1>9, <1>12
  <2>12. Risen(library, h, i, n + 1, to) BY <1>1, <1>10, <2>6, <2>9, <2>10, <2>11 DEF Risen
  <2>13. to \in [h : HeapStates, i : Nat] BY <1>1, <2>3, <2>7 DEF IsHeap
  <2> QED BY <2>12, <2>13 DEF to
<1>13. CASE Heaps!Rises(library, x.h, x.i) /\ parent # x.i
  <2>1. to = [h |-> Heaps!Swapped(x.h, parent, x.i), i |-> parent] BY <1>3, <1>13
  <2>2. PICK g : g = Heaps!Swapped(x.h, parent, x.i) OBVIOUS
  <2>3. to.h = g /\ to.i = parent BY <2>1, <2>2
  <2>4. parent \in 0 .. x.h.size - 1 /\ x.i \in 0 .. x.h.size - 1 BY <1>1, <1>2, <1>5, <1>7, <1>13
  <2>5. Same(g, x.h) BY <1>2, <2>2, <2>4, SwapKeeps
  <2>6. Kept(g, h) BY <1>1, <2>5 DEF Kept, Same
  <2>7. Heaps!Rises(library, h, i) BY <1>9, <1>13
  <2>8. ~(library = "library" /\ i = 1) BY <1>6, <1>10, <1>13
  <2>9. Risen(library, h, i, n + 1, to) BY <1>2, <2>3, <2>4, <2>6, <2>7, <2>8 DEF Risen
  <2>10. to \in [h : HeapStates, i : Nat] BY <1>0, <1>2, <2>1, <2>2, <2>4, <2>5 DEF Same, IsHeap
  <2> QED BY <2>9, <2>10 DEF to
<1> QED BY <1>11, <1>12, <1>13

LEMMA ToKeeps ==
    ASSUME HeapsAssumption, NEW library, NEW h, IsHeap(h), NEW i \in 0 .. h.size - 1
    PROVE  LET g == Heaps!heapify_to(library, h, i) IN
           /\ Kept(g, h)
           /\ ~Heaps!Rises(library, h, i) => g = h
           /\ library = "library" /\ i = 1 => g.endless
<1> DEFINE m == i
           s0 == [h |-> h, i |-> i]
           States == [h : HeapStates, i : Nat]
           good == [n \in 0 .. m |-> {x \in States : Risen(library, h, i, n, x)}]
           next == [n \in 1 .. m |-> [x \in States |-> Heaps!Up(library, x)]]
           Sol(t) == t = [n \in 0 .. m |-> IF n = 0 THEN s0 ELSE Heaps!Up(library, t[n - 1])]
<1>0. m \in Nat /\ h \in HeapStates BY HeapFields DEF IsHeap
<1>1. Turns(m, s0, good, next)
  <2>1. s0 \in States /\ s0.h = h /\ s0.i = i BY <1>0
  <2>2. Kept(h, h) BY DEF Kept
  <2>3. Risen(library, h, i, 0, s0) BY <2>1, <2>2 DEF Risen
  <2>4. 0 \in 0 .. m BY <1>0
  <2> HIDE DEF s0, States, m
  <2>5. good[0] = {x \in States : Risen(library, h, i, 0, x)} BY <2>4
  <2>6. s0 \in good[0] BY <2>1, <2>3, <2>5
  <2>7. ASSUME NEW n \in 1 .. m, NEW x \in good[n - 1] PROVE next[n][x] \in good[n]
    <3>1. n - 1 \in 0 .. m /\ n \in 0 .. m /\ n - 1 \in Nat /\ (n - 1) + 1 = n BY <1>0
    <3>2. good[n - 1] = {y \in States : Risen(library, h, i, n - 1, y)} BY <3>1
    <3>3. x \in States /\ Risen(library, h, i, n - 1, x) BY <2>7, <3>2
    <3>4. Heaps!Up(library, x) \in States /\ Risen(library, h, i, (n - 1) + 1, Heaps!Up(library, x))
      BY <3>1, <3>3, RisenFurther, Zenon DEF States
    <3>5. next[n] = [y \in States |-> Heaps!Up(library, y)] BY <2>7
    <3>6. next[n][x] = Heaps!Up(library, x) BY <3>3, <3>5
    <3>7. good[n] = {y \in States : Risen(library, h, i, n, y)} BY <3>1
    <3>8. Risen(library, h, i, n, Heaps!Up(library, x)) BY <3>1, <3>4
    <3> QED BY <3>4, <3>6, <3>7, <3>8
  <2> QED BY <2>6, <2>7 DEF Turns
<1>2. ASSUME NEW n \in 1 .. m, NEW x \in good[n - 1] PROVE next[n][x] = Heaps!Up(library, x)
  <2> HIDE DEF s0, m
  <2>1. n - 1 \in 0 .. m BY <1>0
  <2>2. x \in States BY <1>2, <2>1
  <2> HIDE DEF States
  <2>3. next[n] = [y \in States |-> Heaps!Up(library, y)] BY <1>2
  <2> QED BY <2>2, <2>3
<1> HIDE DEF m, s0, good, next, Sol
<1>3. \E t : Sol(t)
  <2>1. PICK t : /\ t = [n \in 0 .. m |-> t[n]] /\ t[0] = s0
                 /\ \A n \in 1 .. m : t[n - 1] \in good[n - 1] /\ t[n] = next[n][t[n - 1]]
    BY <1>0, <1>1, TurnsExist
  <2>2. \A n \in 1 .. m : t[n] = Heaps!Up(library, t[n - 1]) BY <1>2, <2>1
  <2>3. ASSUME NEW n \in 0 .. m
        PROVE  t[n] = IF n = 0 THEN s0 ELSE Heaps!Up(library, t[n - 1])
    <3>1. n = 0 \/ n \in 1 .. m BY <1>0
    <3> QED BY <2>1, <2>2, <3>1
  <2>4. t = [n \in 0 .. m |-> IF n = 0 THEN s0 ELSE Heaps!Up(library, t[n - 1])]
    BY <2>1, <2>3, Zenon
  <2> QED BY <2>4 DEF Sol
<1>4. PICK t : t = CHOOSE u : Sol(u) OBVIOUS
<1>5. Sol(t) BY <1>3, <1>4, Zenon
<1>6. Heaps!heapify_to(library, h, i) = t[m].h
  BY <1>4, Zenon DEF Heaps!heapify_to, Sol, m, s0
<1>7. t[0] = s0 /\ \A n \in 1 .. m : t[n] = Heaps!Up(library, t[n - 1])
  <2>1. \A n \in 0 .. m : t[n] = IF n = 0 THEN s0 ELSE Heaps!Up(library, t[n - 1])
    BY <1>5, Zenon DEF Sol
  <2>2. 0 \in 0 .. m /\ \A n \in 1 .. m : n \in 0 .. m /\ n # 0 BY <1>0
  <2> QED BY <2>1, <2>2
<1>8. t[m] \in good[m]
  <2>1. \A n \in 1 .. m : t[n - 1] \in good[n - 1] => t[n] = next[n][t[n - 1]] BY <1>2, <1>7
  <2>2. \A n \in 0 .. m : t[n] \in good[n] BY <1>0, <1>1, <1>7, <2>1, TurnsAreGood
  <2>3. m \in 0 .. m BY <1>0
  <2> QED BY <2>2, <2>3
<1>9. Risen(library, h, i, m, t[m])
  <2>1. m \in 0 .. m BY <1>0
  <2>2. good[m] = {x \in States : Risen(library, h, i, m, x)} BY <2>1, Zenon DEF good
  <2> QED BY <1>8, <2>2
<1> QED BY <1>6, <1>9 DEF Risen, m
-----------------------------------------------------------------------------
(* One more of e *)
One(b) == IF b THEN 1 ELSE 0

(* Two heaps with the same elements but for one index *)
LEMMA ButOne ==
    ASSUME NEW A, NEW B, IsFiniteSet(A), IsFiniteSet(B), NEW a, NEW b, A \ {a} = B \ {b}
    PROVE  Cardinality(A) - One(a \in A) = Cardinality(B) - One(b \in B)
<1>1. /\ Cardinality(A) \in Nat /\ Cardinality(B) \in Nat
      /\ Cardinality(A \ {a}) = IF a \in A THEN Cardinality(A) - 1 ELSE Cardinality(A)
      /\ Cardinality(B \ {b}) = IF b \in B THEN Cardinality(B) - 1 ELSE Cardinality(B)
  BY FS_RemoveElement, FS_CardinalityType
<1> QED BY <1>1 DEF One

(* An element at the end of the array *)
Longer(h, e) ==
    [h EXCEPT !.elements = [i \in DOMAIN @ \cup {h.size} |-> IF i = h.size THEN e ELSE @[i]],
              !.size = @ + 1]

LEMMA LongerIs ==
    ASSUME NEW h, IsHeap(h), NEW e \in Heaps!Items, NEW q, q = Longer(h, e)
    PROVE  /\ IsHeap(q) /\ q.size = h.size + 1 /\ q.endless = h.endless /\ q.elements[h.size] = e
           /\ \A i \in 0 .. h.size - 1 : q.elements[i] = h.elements[i]
           /\ \A d \in Heaps!Items : Heaps!Copies(q, d) = Heaps!Copies(h, d) + One(d = e)
<1> DEFINE n == h.size
           D == DOMAIN h.elements
<1>0. /\ h = [elements |-> h.elements, size |-> n, endless |-> h.endless]
      /\ h.elements \in [D -> Heaps!Items] /\ D \subseteq Nat /\ n \in Nat /\ h.endless \in BOOLEAN
      /\ 0 .. n - 1 \subseteq D
  BY HeapFields
<1>1. PICK el : el = [i \in D \cup {n} |-> IF i = n THEN e ELSE h.elements[i]] OBVIOUS
<1>2. q = [elements |-> el, size |-> n + 1, endless |-> h.endless]
  BY <1>0, <1>1 DEF Longer
<1> HIDE DEF n, D
<1>3. el \in [D \cup {n} -> Heaps!Items] /\ el[n] = e /\ \A i \in 0 .. n - 1 : el[i] = h.elements[i]
  <2>1. \A i \in 0 .. n - 1 : i # n /\ i \in D BY <1>0
  <2> QED BY <1>0, <1>1, <2>1
<1>4. q.elements = el /\ q.size = n + 1 /\ q.endless = h.endless BY <1>2
<1>5. IsHeap(q)
  <2>1. DOMAIN el = D \cup {n} /\ D \cup {n} \subseteq Nat BY <1>0, <1>3
  <2>2. 0 .. (n + 1) - 1 \subseteq D \cup {n} BY <1>0
  <2> QED BY <1>0, <1>2, <1>3, <1>4, <2>1, <2>2, HeapFields
<1>6. ASSUME NEW d \in Heaps!Items PROVE Heaps!Copies(q, d) = Heaps!Copies(h, d) + One(d = e)
  <2> DEFINE A == At(q, d)
             B == At(h, d)
  <2>1. A = {i \in 0 .. (n + 1) - 1 : el[i] = d} /\ B = {i \in 0 .. n - 1 : h.elements[i] = d}
    BY <1>4 DEF At, n
  <2> HIDE DEF A, B
  <2>2. A \ {n} = B \ {n} BY <1>0, <1>3, <2>1
  <2>3. n \notin B /\ (n \in A <=> d = e) BY <1>0, <1>3, <2>1
  <2>4. /\ IsFiniteSet(A) /\ Heaps!Copies(q, d) = Cardinality(A) /\ Heaps!Copies(q, d) \in Nat
        /\ IsFiniteSet(B) /\ Heaps!Copies(h, d) = Cardinality(B) /\ Heaps!Copies(h, d) \in Nat
    BY <1>0, <1>4, CopiesAre DEF A, B, n
  <2>5. Cardinality(A) - One(n \in A) = Cardinality(B) - One(n \in B) BY <2>2, <2>4, ButOne
  <2> QED BY <2>3, <2>4, <2>5 DEF One
<1> QED BY <1>3, <1>4, <1>5, <1>6 DEF n

(* insert adds one, and leaves it at the end if it need not rise *)
LEMMA InsertIs ==
    ASSUME HeapsAssumption, NEW library, NEW h, IsHeap(h),
           NEW value \in Values, NEW priority \in Priorities,
           NEW e, e = [value |-> value, priority |-> priority],
           NEW g, g = Heaps!insert(library, h, value, priority)
    PROVE  /\ IsHeap(g) /\ g.size = h.size + 1
           /\ \A d \in Heaps!Items : Heaps!Copies(g, d) = Heaps!Copies(h, d) + One(d = e)
           /\ ~Heaps!Rises(library, Longer(h, e), h.size) => g = Longer(h, e)
           /\ library = "library" /\ h.size = 1 => g.endless
<1>1. e \in Heaps!Items BY DEF Heaps!Items
<1>2. PICK q : q = Longer(h, e) OBVIOUS
<1>3. g = Heaps!heapify_to(library, q, h.size) BY <1>2, Zenon DEF Heaps!insert, Longer
<1>4. /\ IsHeap(q) /\ q.size = h.size + 1
      /\ \A d \in Heaps!Items : Heaps!Copies(q, d) = Heaps!Copies(h, d) + One(d = e)
  BY <1>1, <1>2, LongerIs
<1>5. h.size \in 0 .. q.size - 1 BY <1>4, HeapFields
<1>6. /\ Kept(g, q) /\ (~Heaps!Rises(library, q, h.size) => g = q)
      /\ library = "library" /\ h.size = 1 => g.endless
  BY <1>3, <1>4, <1>5, ToKeeps
<1> QED BY <1>2, <1>4, <1>6 DEF Kept

(* A heap of one is valid *)
LEMMA FewAreValid ==
    ASSUME NEW h, h.size \in 0 .. 1 PROVE ValidFrom(h, 0)
<1>1. \A i \in 0 .. h.size - 1 : \A child \in Under(i) : ~(child < h.size) BY DEF Under
<1> QED BY <1>1 DEF ValidFrom, Ordered
-----------------------------------------------------------------------------
(* The last element to the front, before it goes down *)
Shifted(h) == [[h EXCEPT !.size = @ - 1] EXCEPT !.elements[0] = h.elements[h.size - 1]]

LEMMA LastToFront ==
    ASSUME NEW h, IsHeap(h), h.size > 1,
           NEW q, q = Shifted(h)
    PROVE  /\ IsHeap(q) /\ q.size = h.size - 1 /\ q.elements[0] = h.elements[h.size - 1]
           /\ \A i \in 1 .. h.size - 2 : q.elements[i] = h.elements[i]
           /\ \A d \in Heaps!Items :
                 Heaps!Copies(q, d) = Heaps!Copies(h, d) - One(d = Heaps!front(h))
<1> DEFINE n == h.size
           D == DOMAIN h.elements
<1>0. /\ h = [elements |-> h.elements, size |-> n, endless |-> h.endless]
      /\ h.elements \in [D -> Heaps!Items] /\ D \subseteq Nat /\ n \in Nat /\ h.endless \in BOOLEAN
      /\ 0 .. n - 1 \subseteq D
  BY HeapFields
<1>1. PICK el : el = [h.elements EXCEPT ![0] = h.elements[n - 1]] OBVIOUS
<1>2. q = [elements |-> el, size |-> n - 1, endless |-> h.endless]
  BY <1>0, <1>1 DEF Shifted
<1>n. n > 1 OBVIOUS
<1> HIDE DEF n, D
<1>3. el \in [D -> Heaps!Items] /\ el[0] = h.elements[n - 1] /\ \A i \in 1 .. n - 2 : el[i] = h.elements[i]
  <2>1. 0 \in D /\ n - 1 \in D BY <1>0, <1>n
  <2>2. \A i \in 1 .. n - 2 : i # 0 /\ i \in D BY <1>0
  <2> QED BY <1>0, <1>1, <2>1, <2>2
<1>4. q.elements = el /\ q.size = n - 1 /\ q.endless = h.endless BY <1>2
<1>5. IsHeap(q)
  <2>1. DOMAIN el = D BY <1>3
  <2>2. 0 .. (n - 1) - 1 \subseteq D /\ n - 1 \in Nat BY <1>0, <1>n
  <2> QED BY <1>0, <1>2, <1>3, <1>4, <2>1, <2>2, HeapFields
<1>6. ASSUME NEW d \in Heaps!Items
      PROVE  Heaps!Copies(q, d) = Heaps!Copies(h, d) - One(d = Heaps!front(h))
  <2> DEFINE A == At(q, d)
             B == At(h, d)
             C == B \ {0}
  <2>1. A = {i \in 0 .. n - 2 : el[i] = d} /\ B = {i \in 0 .. n - 1 : h.elements[i] = d}
    <3>1. (n - 1) - 1 = n - 2 BY <1>0
    <3> QED BY <1>4, <3>1 DEF At, n
  <2> HIDE DEF A, B
  <2>2. PICK f : f = [i \in A |-> IF i = 0 THEN n - 1 ELSE i] OBVIOUS
  <2>3. PICK k : k = [i \in C |-> IF i = n - 1 THEN 0 ELSE i] OBVIOUS
  <2>4. \A i \in A : (IF i = 0 THEN n - 1 ELSE i) \in C /\ i \in 0 .. n - 2 BY <1>0, <1>n, <1>3, <2>1
  <2>5. \A i \in C : (IF i = n - 1 THEN 0 ELSE i) \in A /\ i \in 1 .. n - 1 BY <1>0, <1>n, <1>3, <2>1
  <2>6. f \in [A -> C] /\ k \in [C -> A] BY <2>2, <2>3, <2>4, <2>5
  <2>7. \A i \in A : k[f[i]] = i
    <3> SUFFICES ASSUME NEW i \in A PROVE k[f[i]] = i
      OBVIOUS
    <3>1. f[i] = (IF i = 0 THEN n - 1 ELSE i) /\ f[i] \in C BY <2>2, <2>4
    <3>2. k[f[i]] = IF f[i] = n - 1 THEN 0 ELSE f[i] BY <2>3, <3>1
    <3> QED BY <1>0, <2>4, <3>1, <3>2
  <2>8. \A i \in C : f[k[i]] = i
    <3> SUFFICES ASSUME NEW i \in C PROVE f[k[i]] = i
      OBVIOUS
    <3>1. k[i] = (IF i = n - 1 THEN 0 ELSE i) /\ k[i] \in A BY <2>3, <2>5
    <3>2. f[k[i]] = IF k[i] = 0 THEN n - 1 ELSE k[i] BY <2>2, <3>1
    <3> QED BY <1>0, <2>5, <3>1, <3>2
  <2>9. /\ IsFiniteSet(A) /\ Heaps!Copies(q, d) = Cardinality(A) /\ Heaps!Copies(q, d) \in Nat
        /\ IsFiniteSet(B) /\ Heaps!Copies(h, d) = Cardinality(B) /\ Heaps!Copies(h, d) \in Nat
    <3>1. q.size \in Nat /\ h.size \in Nat BY <1>0, <1>n, <1>4 DEF n
    <3> QED BY <3>1, CopiesAre DEF A, B
  <2>10. Cardinality(A) = Cardinality(C) BY <2>6, <2>7, <2>8, <2>9, SameNumber
  <2>11. 0 \in B <=> d = Heaps!front(h) BY <1>0, <1>n, <2>1 DEF Heaps!front
  <2>12. Cardinality(C) = IF 0 \in B THEN Cardinality(B) - 1 ELSE Cardinality(B)
    BY <2>9, FS_RemoveElement
  <2> QED BY <2>9, <2>10, <2>11, <2>12 DEF One
<1> QED BY <1>3, <1>4, <1>5, <1>6 DEF n

(* pop takes the front, and leaves a valid heap valid *)
LEMMA PopIs ==
    ASSUME HeapsAssumption, NEW library, NEW h, IsHeap(h), h.size > 0,
           NEW g, g = Heaps!pop(library, h)
    PROVE  /\ IsHeap(g) /\ g.size = h.size - 1
           /\ \A d \in Heaps!Items :
                 Heaps!Copies(g, d) = Heaps!Copies(h, d) - One(d = Heaps!front(h))
           /\ ValidFrom(h, 0) => ValidFrom(g, 0)
<1>0. /\ h = [elements |-> h.elements, size |-> h.size, endless |-> h.endless]
      /\ h.elements \in [DOMAIN h.elements -> Heaps!Items] /\ DOMAIN h.elements \subseteq Nat
      /\ h.size \in Nat /\ h.endless \in BOOLEAN /\ 0 .. h.size - 1 \subseteq DOMAIN h.elements
  BY HeapFields
<1>1. CASE h.size = 1
  <2>1. g = [h EXCEPT !.size = @ - 1] BY <1>1, Zenon DEF Heaps!pop
  <2>2. g = [elements |-> h.elements, size |-> 0, endless |-> h.endless] BY <1>0, <1>1, <2>1
  <2>3. g.elements = h.elements /\ g.size = 0 /\ g.endless = h.endless BY <2>2
  <2>4. 0 .. 0 - 1 = {} OBVIOUS
  <2>5. IsHeap(g) BY <1>0, <2>2, <2>3, <2>4, HeapFields
  <2>6. ASSUME NEW d \in Heaps!Items
        PROVE  Heaps!Copies(g, d) = Heaps!Copies(h, d) - One(d = Heaps!front(h))
    <3> DEFINE B == At(h, d)
    <3>1. At(g, d) = {} BY <2>3, <2>4 DEF At
    <3>2. Heaps!Copies(g, d) = 0 BY <2>3, <3>1, CopiesAre
    <3>3. B = IF d = Heaps!front(h) THEN {0} ELSE {}
      <4>1. 0 .. 1 - 1 = {0} OBVIOUS
      <4> QED BY <1>1, <4>1 DEF At, Heaps!front
    <3>4. Heaps!Copies(h, d) = Cardinality(B) BY <1>0, CopiesAre
    <3> HIDE DEF B
    <3>5. Cardinality(B) = One(d = Heaps!front(h)) BY <3>3, FS_EmptySet, FS_Singleton DEF One
    <3> QED BY <3>2, <3>4, <3>5 DEF One
  <2>7. ValidFrom(g, 0) BY <2>3, FewAreValid
  <2> QED BY <1>1, <2>3, <2>5, <2>6, <2>7
<1>2. CASE h.size # 1
  <2>1. h.size > 1 BY <1>0, <1>2
  <2>2. PICK q : q = Shifted(h) OBVIOUS
  <2>3. /\ IsHeap(q) /\ q.size = h.size - 1
        /\ \A i \in 1 .. h.size - 2 : q.elements[i] = h.elements[i]
        /\ \A d \in Heaps!Items :
              Heaps!Copies(q, d) = Heaps!Copies(h, d) - One(d = Heaps!front(h))
    BY <2>1, <2>2, LastToFront
  <2>4. g = Heaps!heapify_from(library, q, 0) BY <1>2, <2>2, Zenon DEF Heaps!pop, Shifted
  <2>5. Same(g, q) /\ (Sinking(q, 0, 0) => ValidFrom(g, 0)) BY <2>3, <2>4, FromKeeps
  <2>6. ASSUME ValidFrom(h, 0) PROVE Sinking(q, 0, 0)
    <3>1. ASSUME NEW j \in 0 .. q.size - 1, j # 0 PROVE Ordered(q, j)
      <4>1. j \in 1 .. h.size - 2 /\ j \in 0 .. h.size - 1 BY <1>0, <2>3, <3>1
      <4>2. ASSUME NEW d \in Under(j), d < q.size
            PROVE  d < h.size /\ d \in 1 .. h.size - 2
        BY <1>0, <2>3, <4>1, <4>2 DEF Under
      <4>3. ASSUME NEW d \in Under(j), d < q.size
            PROVE  Heaps!Priority(h, j) <= Heaps!Priority(h, d)
        BY <2>6, <4>1, <4>2, <4>3 DEF ValidFrom, Ordered
      <4> QED BY <2>3, <4>1, <4>2, <4>3 DEF Ordered, Heaps!Priority
    <3>2. \A j \in 0 .. q.size - 1 : 0 \notin Under(j) BY DEF Under
    <3> QED BY <3>1, <3>2 DEF Sinking
  <2> QED BY <2>3, <2>5, <2>6 DEF Same
<1> QED BY <1>1, <1>2
-----------------------------------------------------------------------------
LEMMA FrontIsLeast ==
    ASSUME HeapsAssumption, NEW h, IsHeap(h), ValidFrom(h, 0)
    PROVE  \A i \in 0 .. h.size - 1 : Heaps!Priority(h, 0) <= Heaps!Priority(h, i)
<1> DEFINE n == h.size
           P(x) == Heaps!Priority(h, x)
           S == {i \in 0 .. n - 1 : ~(P(0) <= P(i))}
<1>0. n \in Nat BY HeapFields
<1>1. \A x \in 0 .. n - 1 : P(x) \in Int BY HeapPriorities
<1>2. \A j \in 0 .. n - 1 : \A d \in Under(j) : d < n => P(j) <= P(d) BY DEF ValidFrom, Ordered
<1> HIDE DEF P, n
<1>3. S = {}
  <2> SUFFICES ASSUME S # {} PROVE FALSE
    OBVIOUS
  <2>1. S \subseteq Nat BY <1>0
  <2> HIDE DEF S
  <2>2. PICK i \in S : \A k \in S : i <= k BY <2>1, LeastOf
  <2>3. i \in 0 .. n - 1 /\ ~(P(0) <= P(i)) /\ 0 \in 0 .. n - 1 BY <1>0, <2>2 DEF S
  <2>4. i # 0 BY <1>1, <2>3
  <2>5. PICK j : j = (i - 1) \div 2 OBVIOUS
  <2>6. j \in 0 .. n - 1 /\ j < i /\ (i = 2 * j + 1 \/ i = 2 * j + 2) BY <1>0, <2>3, <2>4, <2>5
  <2>7. P(j) <= P(i) BY <1>0, <1>2, <2>3, <2>6 DEF Under
  <2>8. P(0) <= P(j) BY <1>0, <2>2, <2>3, <2>6 DEF S
  <2> QED BY <1>1, <2>3, <2>6, <2>7, <2>8
<1> QED BY <1>3 DEF P, n

(* What comes out of a heap: its elements, in order if it was valid *)
Popped(library, h, t) ==
    /\ \A n \in 0 .. h.size : /\ IsHeap(t[n]) /\ t[n].size = h.size - n
                              /\ ValidFrom(h, 0) => ValidFrom(t[n], 0)
    /\ t[0] = h
    /\ \A n \in 1 .. h.size : t[n] = Heaps!pop(library, t[n - 1])

LEMMA DrainedByPops ==
    ASSUME HeapsAssumption, NEW library, NEW h, IsHeap(h)
    PROVE  \E t : /\ Popped(library, h, t)
                  /\ Heaps!Drained(library, h) = [n \in 1 .. h.size |-> Heaps!front(t[n - 1])]
<1> DEFINE m == h.size
           Good(n, x) == IsHeap(x) /\ x.size = m - n /\ (ValidFrom(h, 0) => ValidFrom(x, 0))
           good == [n \in 0 .. m |-> {x \in HeapStates : Good(n, x)}]
           next == [n \in 1 .. m |-> [x \in HeapStates |-> Heaps!pop(library, x)]]
           Sol(t) == t = [n \in 0 .. m |-> IF n = 0 THEN h ELSE Heaps!pop(library, t[n - 1])]
<1>0. m \in Nat /\ h \in HeapStates BY HeapFields DEF IsHeap
<1> HIDE DEF m
<1>1. Turns(m, h, good, next)
  <2>1. 0 \in 0 .. m /\ Good(0, h) BY <1>0 DEF m
  <2>2. h \in good[0] BY <1>0, <2>1
  <2>3. ASSUME NEW n \in 1 .. m, NEW x \in good[n - 1] PROVE next[n][x] \in good[n]
    <3>1. n - 1 \in 0 .. m /\ n \in 0 .. m BY <1>0
    <3>2. x \in HeapStates /\ Good(n - 1, x) BY <2>3, <3>1
    <3>3. PICK g : g = Heaps!pop(library, x) OBVIOUS
    <3>4. x.size > 0 /\ x.size - 1 = m - n BY <1>0, <3>2
    <3>5. IsHeap(g) /\ g.size = x.size - 1 /\ (ValidFrom(x, 0) => ValidFrom(g, 0))
      BY <3>2, <3>3, <3>4, PopIs
    <3>6. Good(n, g) /\ g \in HeapStates BY <3>2, <3>4, <3>5 DEF IsHeap
    <3>7. next[n][x] = g BY <3>2, <3>3
    <3> QED BY <3>1, <3>6, <3>7
  <2> QED BY <2>2, <2>3 DEF Turns
<1>2. ASSUME NEW n \in 1 .. m, NEW x \in good[n - 1] PROVE next[n][x] = Heaps!pop(library, x)
  <2>1. n - 1 \in 0 .. m BY <1>0
  <2>2. x \in HeapStates BY <1>2, <2>1
  <2> QED BY <2>2
<1>3. \A n \in 0 .. m : \A x \in good[n] : Good(n, x) OBVIOUS
<1> HIDE DEF good, next, Sol, Good
<1>4. \E t : Sol(t)
  <2>1. PICK t : /\ t = [n \in 0 .. m |-> t[n]] /\ t[0] = h
                 /\ \A n \in 1 .. m : t[n - 1] \in good[n - 1] /\ t[n] = next[n][t[n - 1]]
    BY <1>0, <1>1, TurnsExist
  <2>2. \A n \in 1 .. m : t[n] = Heaps!pop(library, t[n - 1]) BY <1>2, <2>1
  <2>3. ASSUME NEW n \in 0 .. m
        PROVE  t[n] = IF n = 0 THEN h ELSE Heaps!pop(library, t[n - 1])
    <3>1. n = 0 \/ n \in 1 .. m BY <1>0
    <3> QED BY <2>1, <2>2, <3>1
  <2>4. t = [n \in 0 .. m |-> IF n = 0 THEN h ELSE Heaps!pop(library, t[n - 1])]
    BY <2>1, <2>3, Zenon
  <2> QED BY <2>4 DEF Sol
<1>5. PICK t : t = CHOOSE u : Sol(u) OBVIOUS
<1>6. Sol(t) BY <1>4, <1>5, Zenon
<1>7. Heaps!Drained(library, h) = [n \in 1 .. m |-> Heaps!front(t[n - 1])]
  <2> DEFINE Fronts(u) == [n \in 1 .. m |-> Heaps!front(u[n - 1])]
  <2>1. Heaps!Drained(library, h) = Fronts(CHOOSE u : Sol(u))
    BY Zenon DEF Heaps!Drained, Sol, m
  <2> HIDE DEF Fronts
  <2>2. Heaps!Drained(library, h) = Fronts(t) BY <1>5, <2>1
  <2> QED BY <2>2 DEF Fronts
<1>8. t[0] = h /\ \A n \in 1 .. m : t[n] = Heaps!pop(library, t[n - 1])
  <2>1. \A n \in 0 .. m : t[n] = IF n = 0 THEN h ELSE Heaps!pop(library, t[n - 1])
    BY <1>6, Zenon DEF Sol
  <2>2. 0 \in 0 .. m /\ \A n \in 1 .. m : n \in 0 .. m /\ n # 0 BY <1>0
  <2> QED BY <2>1, <2>2
<1>9. \A n \in 0 .. m : Good(n, t[n])
  <2>1. \A n \in 1 .. m : t[n - 1] \in good[n - 1] => t[n] = next[n][t[n - 1]] BY <1>2, <1>8
  <2>2. \A n \in 0 .. m : t[n] \in good[n] BY <1>0, <1>1, <1>8, <2>1, TurnsAreGood
  <2> QED BY <1>3, <2>2
<1> QED BY <1>7, <1>8, <1>9 DEF Popped, Good, m

LEMMA DrainedIs ==
    ASSUME HeapsAssumption, NEW library, NEW h, IsHeap(h), NEW s, s = Heaps!Drained(library, h)
    PROVE  /\ s = [n \in 1 .. h.size |-> s[n]] /\ \A n \in 1 .. h.size : s[n] \in Heaps!Items
           /\ \A d \in Heaps!Items :
                 Cardinality({n \in 1 .. h.size : s[n] = d}) = Heaps!Copies(h, d)
           /\ ValidFrom(h, 0) => Heaps!Sorted(s)
<1> DEFINE m == h.size
<1>0. m \in Nat BY HeapFields
<1>1. PICK t : Popped(library, h, t) /\ s = [n \in 1 .. m |-> Heaps!front(t[n - 1])]
  BY DrainedByPops
<1> HIDE DEF m
<1>2. /\ \A n \in 0 .. m : IsHeap(t[n]) /\ t[n].size = m - n /\ (ValidFrom(h, 0) => ValidFrom(t[n], 0))
      /\ t[0] = h
      /\ \A n \in 1 .. m : t[n] = Heaps!pop(library, t[n - 1]) /\ s[n] = Heaps!front(t[n - 1])
  BY <1>1 DEF Popped, m
<1>3. ASSUME NEW n \in 1 .. m
      PROVE  /\ IsHeap(t[n - 1]) /\ t[n - 1].size = m - n + 1 /\ n - 1 \in 0 .. m
             /\ 0 \in 0 .. t[n - 1].size - 1
             /\ s[n] = t[n - 1].elements[0] /\ s[n] \in Heaps!Items
             /\ s[n].priority = Heaps!Priority(t[n - 1], 0) /\ s[n].priority \in Int
  <2>1. n - 1 \in 0 .. m /\ m - (n - 1) = m - n + 1 BY <1>0
  <2>2. IsHeap(t[n - 1]) /\ t[n - 1].size = m - n + 1 BY <1>2, <2>1
  <2>3. 0 \in 0 .. t[n - 1].size - 1 BY <1>0, <2>2
  <2>4. s[n] = t[n - 1].elements[0] BY <1>2 DEF Heaps!front
  <2>5. s[n] \in Heaps!Items /\ s[n].priority = Heaps!Priority(t[n - 1], 0) /\ s[n].priority \in Int
    BY <2>2, <2>3, <2>4, HeapPriorities
  <2> QED BY <2>1, <2>2, <2>3, <2>4, <2>5
<1>4. ASSUME NEW n \in 1 .. m, NEW d \in Heaps!Items
      PROVE  Heaps!Copies(t[n], d) = Heaps!Copies(t[n - 1], d) - One(d = s[n])
  <2>1. t[n - 1].size > 0 BY <1>0, <1>3
  <2>2. PICK g : g = t[n] OBVIOUS
  <2>3. g = Heaps!pop(library, t[n - 1]) BY <1>2, <2>2
  <2>4. Heaps!Copies(g, d) = Heaps!Copies(t[n - 1], d) - One(d = Heaps!front(t[n - 1]))
    BY <1>3, <2>1, <2>3, PopIs
  <2> QED BY <1>2, <2>2, <2>4
<1>5. \A n \in 0 .. m : \A d \in Heaps!Items : Heaps!Copies(t[n], d) \in Nat
  <2> SUFFICES ASSUME NEW n \in 0 .. m, NEW d \in Heaps!Items PROVE Heaps!Copies(t[n], d) \in Nat
    OBVIOUS
  <2>1. t[n].size \in Nat BY <1>2, HeapFields
  <2> QED BY <2>1, CopiesAre
<1>6. ASSUME NEW d \in Heaps!Items
      PROVE  Cardinality({n \in 1 .. m : s[n] = d}) = Heaps!Copies(h, d)
  <2> DEFINE F(n) == {j \in 1 .. n : s[j] = d}
             S == {n \in 0 .. m : IsFiniteSet(F(n)) /\ Cardinality(F(n)) + Heaps!Copies(t[n], d) = Heaps!Copies(h, d)}
  <2>1. 0 \in S
    <3>1. F(0) = {} OBVIOUS
    <3>2. IsFiniteSet(F(0)) /\ Cardinality(F(0)) = 0 BY <3>1, FS_EmptySet
    <3>3. 0 \in 0 .. m /\ t[0] = h BY <1>0, <1>2
    <3>4. Heaps!Copies(h, d) \in Nat BY <1>5, <3>3
    <3> HIDE DEF F
    <3> QED BY <3>2, <3>3, <3>4
  <2>2. ASSUME NEW n \in 0 .. m, n < m, n \in S PROVE n + 1 \in S
    <3>1. n + 1 \in 1 .. m /\ n + 1 \in 0 .. m /\ (n + 1) - 1 = n BY <1>0, <2>2
    <3>2. Heaps!Copies(t[n + 1], d) = Heaps!Copies(t[n], d) - One(d = s[n + 1]) BY <1>4, <3>1
    <3>3. F(n + 1) = IF s[n + 1] = d THEN F(n) \cup {n + 1} ELSE F(n)
      <4>1. 1 .. n + 1 = (1 .. n) \cup {n + 1} BY <3>1
      <4> QED BY <4>1
    <3>4. n + 1 \notin F(n) OBVIOUS
    <3>5. /\ IsFiniteSet(F(n)) /\ Cardinality(F(n)) + Heaps!Copies(t[n], d) = Heaps!Copies(h, d)
      BY <2>2
    <3> HIDE DEF F
    <3>6. Cardinality(F(n)) \in Nat BY <3>5, FS_CardinalityType
    <3>7. /\ IsFiniteSet(F(n + 1))
          /\ Cardinality(F(n + 1)) = Cardinality(F(n)) + One(d = s[n + 1])
      BY <3>3, <3>4, <3>5, <3>6, FS_AddElement DEF One
    <3>8. Heaps!Copies(t[n], d) \in Nat BY <1>5
    <3>9. One(d = s[n + 1]) \in {0, 1} BY DEF One
    <3>10. Cardinality(F(n + 1)) + Heaps!Copies(t[n + 1], d) = Heaps!Copies(h, d)
      BY <3>2, <3>5, <3>6, <3>7, <3>8, <3>9
    <3> QED BY <3>1, <3>7, <3>10
  <2> HIDE DEF S
  <2>3. m \in S BY <1>0, <2>1, <2>2, UpTo
  <2>4. IsFiniteSet(F(m)) /\ Cardinality(F(m)) + Heaps!Copies(t[m], d) = Heaps!Copies(h, d) BY <2>3 DEF S
  <2>5. Heaps!Copies(t[m], d) = 0
    <3>1. t[m].size = 0 BY <1>0, <1>2
    <3>2. At(t[m], d) = {} BY <3>1 DEF At
    <3> QED BY <3>1, <3>2, CopiesAre
  <2>6. Cardinality(F(m)) \in Nat BY <2>4, FS_CardinalityType
  <2> HIDE DEF F
  <2>7. Cardinality(F(m)) = Heaps!Copies(h, d) BY <2>4, <2>5, <2>6
  <2> QED BY <2>7 DEF F
<1>7. ASSUME ValidFrom(h, 0) PROVE Heaps!Sorted(s)
  <2> DEFINE Least(n) == \A k \in 1 .. n : \A x \in 0 .. t[n].size - 1 :
                            s[k].priority <= Heaps!Priority(t[n], x)
             S == {n \in 0 .. m : Least(n)}
  <2>1. 0 \in S BY <1>0
  <2>2. ASSUME NEW n \in 0 .. m, n < m, n \in S PROVE n + 1 \in S
    <3>1. n + 1 \in 1 .. m /\ n + 1 \in 0 .. m /\ (n + 1) - 1 = n BY <1>0, <2>2
    <3>2. Least(n) BY <2>2
    <3>3. ASSUME NEW k \in 1 .. n + 1, NEW x \in 0 .. t[n + 1].size - 1
          PROVE  s[k].priority <= Heaps!Priority(t[n + 1], x)
      <4> DEFINE e == t[n + 1].elements[x]
      <4>1. IsHeap(t[n + 1]) /\ IsHeap(t[n]) /\ ValidFrom(t[n], 0) BY <1>2, <1>7, <3>1
      <4>2. e \in Heaps!Items /\ Heaps!Priority(t[n + 1], x) = e.priority BY <4>1, HeapPriorities
      <4>3. x \in At(t[n + 1], e) BY DEF At
      <4>4. t[n + 1].size \in Nat /\ t[n].size \in Nat BY <4>1, HeapFields
      <4> HIDE DEF e
      <4>5. Heaps!Copies(t[n + 1], e) # 0 BY <4>3, <4>4, CopiesAre
      <4>6. Heaps!Copies(t[n], e) # 0
        <5>1. Heaps!Copies(t[n + 1], e) = Heaps!Copies(t[n], e) - One(e = s[n + 1]) BY <1>4, <3>1, <4>2
        <5>2. Heaps!Copies(t[n + 1], e) \in Nat /\ Heaps!Copies(t[n], e) \in Nat BY <1>5, <3>1, <4>2
        <5> QED BY <4>5, <5>1, <5>2 DEF One
      <4>7. PICK y \in At(t[n], e) : TRUE BY <4>4, <4>6, CopiesAre
      <4>8. y \in 0 .. t[n].size - 1 /\ Heaps!Priority(t[n], y) = e.priority
        BY <4>7 DEF At, Heaps!Priority
      <4>9. CASE k \in 1 .. n BY <3>2, <4>2, <4>8, <4>9
      <4>10. CASE k = n + 1
        <5>1. s[n + 1].priority = Heaps!Priority(t[n], 0) BY <1>3, <3>1
        <5>2. Heaps!Priority(t[n], 0) <= Heaps!Priority(t[n], y) BY <4>1, <4>8, FrontIsLeast
        <5> QED BY <4>2, <4>8, <4>10, <5>1, <5>2
      <4> QED BY <4>9, <4>10
    <3> HIDE DEF Least
    <3>4. Least(n + 1) BY <3>3 DEF Least
    <3> QED BY <3>1, <3>4
  <2> HIDE DEF S
  <2>3. \A n \in 0 .. m : n \in S BY <1>0, <2>1, <2>2, UpTo
  <2>4. ASSUME NEW i \in 1 .. m, NEW j \in 1 .. m, i < j PROVE s[i].priority <= s[j].priority
    <3>1. j - 1 \in 0 .. m /\ i \in 1 .. j - 1 BY <1>0, <2>4
    <3>2. Least(j - 1) BY <2>3, <3>1 DEF S
    <3>3. s[i].priority <= Heaps!Priority(t[j - 1], 0) BY <1>3, <3>1, <3>2
    <3> QED BY <1>3, <3>3
  <2>5. DOMAIN s = 1 .. m BY <1>1
  <2> QED BY <2>4, <2>5 DEF Heaps!Sorted
<1> QED BY <1>1, <1>3, <1>6, <1>7 DEF m
-----------------------------------------------------------------------------
(* heapify makes any array a valid heap, from its last inner element back *)
LEMMA HeapifiedIs ==
    ASSUME HeapsAssumption, NEW h, IsHeap(h), NEW k, k = h.size \div 2
    PROVE  Same(Heaps!HeapifiedFrom(h, k), h) /\ ValidFrom(Heaps!HeapifiedFrom(h, k), 0)
<1> PICK library : library = heap.library OBVIOUS
<1> DEFINE Step(n, x) == Heaps!heapify_from(library, x, k - n)
           Good(n, x) == Same(x, h) /\ ValidFrom(x, k - n)
           good == [n \in 0 .. k |-> {x \in HeapStates : Good(n, x)}]
           next == [n \in 1 .. k |-> [x \in HeapStates |-> Step(n, x)]]
           Sol(t) == t = [n \in 0 .. k |-> IF n = 0 THEN h ELSE Step(n, t[n - 1])]
<1>0. h.size \in Nat /\ k \in Nat /\ 2 * k + 1 >= h.size /\ h \in HeapStates BY HeapFields DEF IsHeap
<1>1. ASSUME NEW n \in 1 .. k, NEW x \in HeapStates, Good(n - 1, x)
      PROVE  Step(n, x) \in HeapStates /\ Good(n, Step(n, x))
  <2>1. PICK g : g = Step(n, x) OBVIOUS
  <2>2. k - n \in Nat /\ k - (n - 1) = (k - n) + 1 BY <1>0
  <2>3. IsHeap(x) /\ x.size = h.size BY <1>1 DEF Same
  <2>4. Sinking(x, k - n, k - n)
    <3>1. ASSUME NEW j \in k - n .. x.size - 1, j # k - n PROVE Ordered(x, j)
      <4>1. j \in (k - n) + 1 .. x.size - 1 BY <1>0, <2>2, <2>3, <3>1
      <4> QED BY <1>1, <2>2, <4>1 DEF ValidFrom
    <3>2. \A j \in k - n .. x.size - 1 : k - n \notin Under(j) BY <1>0, <2>2, <2>3 DEF Under
    <3> QED BY <3>1, <3>2 DEF Sinking
  <2>5. k - n <= k - n BY <2>2
  <2>6. Same(g, x) /\ ValidFrom(g, k - n) BY <2>1, <2>2, <2>3, <2>4, <2>5, FromKeeps
  <2>7. Good(n, g) BY <1>1, <2>6 DEF Same
  <2> QED BY <2>1, <2>6, <2>7 DEF Same, IsHeap
<1>2. Good(0, h)
  <2>1. \A i \in k - 0 .. h.size - 1 : \A child \in Under(i) : ~(child < h.size)
    BY <1>0 DEF Under
  <2> QED BY <2>1 DEF Same, ValidFrom, Ordered
<1> HIDE DEF Step, Good
<1>3. Turns(k, h, good, next)
  <2>1. 0 \in 0 .. k BY <1>0
  <2>2. h \in good[0] BY <1>0, <1>2, <2>1
  <2>3. ASSUME NEW n \in 1 .. k, NEW x \in good[n - 1] PROVE next[n][x] \in good[n]
    <3>1. n - 1 \in 0 .. k /\ n \in 0 .. k BY <1>0
    <3>2. x \in HeapStates /\ Good(n - 1, x) BY <2>3, <3>1
    <3>3. Step(n, x) \in HeapStates /\ Good(n, Step(n, x)) BY <1>1, <3>2
    <3>4. next[n][x] = Step(n, x) BY <3>2
    <3> QED BY <3>1, <3>3, <3>4
  <2> QED BY <2>2, <2>3 DEF Turns
<1>4. ASSUME NEW n \in 1 .. k, NEW x \in good[n - 1] PROVE next[n][x] = Step(n, x)
  <2>1. n - 1 \in 0 .. k BY <1>0
  <2>2. x \in HeapStates BY <1>4, <2>1
  <2> QED BY <2>2
<1>5. \A n \in 0 .. k : \A x \in good[n] : Good(n, x) OBVIOUS
<1> HIDE DEF good, next, Sol
<1>6. \E t : Sol(t)
  <2>1. PICK t : /\ t = [n \in 0 .. k |-> t[n]] /\ t[0] = h
                 /\ \A n \in 1 .. k : t[n - 1] \in good[n - 1] /\ t[n] = next[n][t[n - 1]]
    BY <1>0, <1>3, TurnsExist
  <2>2. \A n \in 1 .. k : t[n] = Step(n, t[n - 1]) BY <1>4, <2>1
  <2>3. ASSUME NEW n \in 0 .. k PROVE t[n] = IF n = 0 THEN h ELSE Step(n, t[n - 1])
    <3>1. n = 0 \/ n \in 1 .. k BY <1>0
    <3> QED BY <2>1, <2>2, <3>1
  <2>4. t = [n \in 0 .. k |-> IF n = 0 THEN h ELSE Step(n, t[n - 1])]
    BY <2>1, <2>3, Zenon
  <2> QED BY <2>4 DEF Sol
<1>7. PICK t : t = CHOOSE u : Sol(u) OBVIOUS
<1>8. Sol(t) BY <1>6, <1>7, Zenon
<1>9. Heaps!HeapifiedFrom(h, k) = t[k]
  BY <1>7, Zenon DEF Heaps!HeapifiedFrom, Sol, Step
<1>10. t[0] = h /\ \A n \in 1 .. k : t[n] = Step(n, t[n - 1])
  <2>1. \A n \in 0 .. k : t[n] = IF n = 0 THEN h ELSE Step(n, t[n - 1])
    BY <1>8, Zenon DEF Sol
  <2>2. 0 \in 0 .. k /\ \A n \in 1 .. k : n \in 0 .. k /\ n # 0 BY <1>0
  <2> QED BY <2>1, <2>2
<1>11. Good(k, t[k])
  <2>1. \A n \in 1 .. k : t[n - 1] \in good[n - 1] => t[n] = next[n][t[n - 1]] BY <1>4, <1>10
  <2>2. \A n \in 0 .. k : t[n] \in good[n] BY <1>0, <1>3, <1>10, <2>1, TurnsAreGood
  <2>3. k \in 0 .. k BY <1>0
  <2> QED BY <1>5, <2>2, <2>3
<1>12. k - k = 0 BY <1>0
<1> QED BY <1>9, <1>11, <1>12 DEF Good

AreItems(s, m) == s = [n \in 1 .. m |-> s[n]] /\ \A n \in 1 .. m : s[n] \in Heaps!Items

(* The first m of the sequence s are what is in the heap *)
AreHeld(g, s, m) ==
    /\ IsHeap(g) /\ g.size = m
    /\ \A d \in Heaps!Items : Heaps!Copies(g, d) = Cardinality({n \in 1 .. m : s[n] = d})

(* Insertions into an empty heap, one after the other: of what is sorted,   *)
(* the copy of the graphs moves nothing                                        *)
LEMMA ReinsertedIs ==
    ASSUME HeapsAssumption, NEW h, IsHeap(h), h.size = 0, ~h.endless, NEW m \in Nat,
           NEW s, AreItems(s, m), NEW g, g = Heaps!Reinserted(h, s), ~g.endless
    PROVE  /\ AreHeld(g, s, m)
           /\ heap.library = "graph" /\ Heaps!Sorted(s) => ValidFrom(g, 0)
<1>z. s = [n \in 1 .. m |-> s[n]] /\ \A n \in 1 .. m : s[n] \in Heaps!Items BY DEF AreItems
<1> PICK library : library = heap.library OBVIOUS
<1> DEFINE Times(n, d) == {j \in 1 .. n : s[j] = d}
           Step(n, x) == IF x.endless THEN x
                         ELSE Heaps!insert(library, x, s[n].value, s[n].priority)
           Good(n, x) == ~x.endless =>
                            /\ IsHeap(x) /\ x.size = n
                            /\ \A d \in Heaps!Items : Heaps!Copies(x, d) = Cardinality(Times(n, d))
                            /\ library = "graph" /\ Heaps!Sorted(s) =>
                                  \A i \in 0 .. n - 1 : x.elements[i] = s[i + 1]
           good == [n \in 0 .. m |-> {x \in HeapStates : Good(n, x)}]
           next == [n \in 1 .. m |-> [x \in HeapStates |-> Step(n, x)]]
           Sol(t) == t = [n \in 0 .. m |-> IF n = 0 THEN h ELSE Step(n, t[n - 1])]
<1>0. h \in HeapStates /\ DOMAIN s = 1 .. m BY <1>z DEF IsHeap
<1>1. ASSUME NEW n \in 1 .. m, NEW x \in HeapStates, Good(n - 1, x)
      PROVE  Step(n, x) \in HeapStates /\ Good(n, Step(n, x))
  <2>1. CASE x.endless BY <1>1, <2>1
  <2>2. CASE ~x.endless
    <3>1. PICK q : q = Heaps!insert(library, x, s[n].value, s[n].priority) OBVIOUS
    <3>2. Step(n, x) = q BY <2>2, <3>1
    <3>3. PICK e : e = s[n] OBVIOUS
    <3>4. /\ e \in Heaps!Items /\ e = [value |-> e.value, priority |-> e.priority]
          /\ e.value \in Values /\ e.priority \in Priorities
      BY <1>z, <3>3 DEF Heaps!Items
    <3>5. IsHeap(x) /\ x.size = n - 1 BY <1>1, <2>2
    <3>6. q = Heaps!insert(library, x, e.value, e.priority) BY <3>1, <3>3
    <3>7. /\ IsHeap(q) /\ q.size = x.size + 1
          /\ \A d \in Heaps!Items : Heaps!Copies(q, d) = Heaps!Copies(x, d) + One(d = e)
          /\ ~Heaps!Rises(library, Longer(x, e), x.size) => q = Longer(x, e)
      BY <3>4, <3>5, <3>6, InsertIs
    <3>8. ASSUME NEW d \in Heaps!Items PROVE Heaps!Copies(q, d) = Cardinality(Times(n, d))
      <4>1. Heaps!Copies(x, d) = Cardinality(Times(n - 1, d)) BY <1>1, <2>2
      <4>2. Times(n, d) = IF s[n] = d THEN Times(n - 1, d) \cup {n} ELSE Times(n - 1, d)
        <5>1. 1 .. n = (1 .. n - 1) \cup {n} OBVIOUS
        <5> QED BY <5>1
      <4>3. n \notin Times(n - 1, d) OBVIOUS
      <4>4. IsFiniteSet(Times(n - 1, d))
        <5>0. 1 \in Int /\ n - 1 \in Int OBVIOUS
        <5>1. IsFiniteSet(1 .. n - 1) BY <5>0, FS_Interval
        <5>2. Times(n - 1, d) \in SUBSET (1 .. n - 1) OBVIOUS
        <5> HIDE DEF Times
        <5> QED BY <5>1, <5>2, FS_Subset
      <4> HIDE DEF Times
      <4>5. Cardinality(Times(n - 1, d)) \in Nat BY <4>4, FS_CardinalityType
      <4>6. Cardinality(Times(n, d)) = Cardinality(Times(n - 1, d)) + One(d = e)
        <5>1. CASE d = e
          <6>1. Cardinality(Times(n - 1, d) \cup {n}) = Cardinality(Times(n - 1, d)) + 1
            BY <4>3, <4>4, FS_AddElement
          <6> QED BY <3>3, <4>2, <5>1, <6>1 DEF One
        <5>2. CASE d # e BY <3>3, <4>2, <4>5, <5>2 DEF One
        <5> QED BY <5>1, <5>2
      <4> QED BY <3>7, <4>1, <4>6
    <3>9. ASSUME library = "graph", Heaps!Sorted(s)
          PROVE  \A i \in 0 .. n - 1 : q.elements[i] = s[i + 1]
      <4>1. \A i \in 0 .. n - 2 : x.elements[i] = s[i + 1]
        <5>1. (n - 1) - 1 = n - 2 OBVIOUS
        <5> QED BY <1>1, <2>2, <3>9, <5>1
      <4>2. PICK w : w = Longer(x, e) OBVIOUS
      <4>3. /\ IsHeap(w) /\ w.size = n /\ w.elements[n - 1] = e
            /\ \A i \in 0 .. n - 2 : w.elements[i] = x.elements[i]
        <5>1. x.size - 1 = n - 2 /\ x.size + 1 = n BY <3>5
        <5> QED BY <3>4, <3>5, <4>2, <5>1, LongerIs
      <4>4. \A i \in 0 .. n - 1 : w.elements[i] = s[i + 1]
        <5> SUFFICES ASSUME NEW i \in 0 .. n - 1 PROVE w.elements[i] = s[i + 1]
          OBVIOUS
        <5>1. CASE i = n - 1 BY <3>3, <4>3, <5>1
        <5>2. CASE i # n - 1
          <6>1. i \in 0 .. n - 2 BY <5>2
          <6> QED BY <4>1, <4>3, <6>1
        <5> QED BY <5>1, <5>2
      <4>5. ~Heaps!Rises(library, w, n - 1)
        <5> SUFFICES ASSUME n - 1 # 0,
                            Heaps!Priority(w, Heaps!B_HEAP_PARENT_INDEX(n - 1)) > Heaps!Priority(w, n - 1)
                     PROVE  FALSE
          BY <3>9 DEF Heaps!Rises
        <5>1. PICK p : p = n \div 2 OBVIOUS
        <5>2. Heaps!B_HEAP_PARENT_INDEX(n - 1) = p
          <6>1. (n - 1) + 1 = n OBVIOUS
          <6> QED BY <5>1, <6>1 DEF Heaps!B_HEAP_PARENT_INDEX
        <5>3. p \in 0 .. n - 1 /\ n - 1 \in 0 .. n - 1 /\ p + 1 \in 1 .. m /\ p + 1 <= n BY <5>1
        <5>4. Heaps!Priority(w, p) = s[p + 1].priority /\ Heaps!Priority(w, n - 1) = s[n].priority
          <6>1. (n - 1) + 1 = n OBVIOUS
          <6>2. w.elements[p] = s[p + 1] /\ w.elements[n - 1] = s[n] BY <4>4, <5>3, <6>1
          <6> QED BY <6>2 DEF Heaps!Priority
        <5>5. Heaps!Priority(w, p) \in Int /\ Heaps!Priority(w, n - 1) \in Int
          BY <4>3, <5>3, HeapPriorities
        <5>6. p + 1 < n => s[p + 1].priority <= s[n].priority
          BY <1>0, <3>9, <5>3 DEF Heaps!Sorted
        <5>7. p + 1 = n => Heaps!Priority(w, p) = Heaps!Priority(w, n - 1) BY <5>4
        <5> QED BY <5>2, <5>3, <5>4, <5>5, <5>6, <5>7
      <4>6. q = w BY <3>5, <3>7, <4>2, <4>5
      <4> QED BY <4>4, <4>6
    <3>10. q \in HeapStates /\ q.size = n BY <3>5, <3>7 DEF IsHeap
    <3> QED BY <3>2, <3>7, <3>8, <3>9, <3>10
  <2> QED BY <2>1, <2>2
<1>2. Good(0, h)
  <2>1. ASSUME NEW d \in Heaps!Items PROVE Heaps!Copies(h, d) = Cardinality(Times(0, d))
    <3>1. At(h, d) = {} /\ Times(0, d) = {} BY DEF At
    <3>2. Heaps!Copies(h, d) = 0 BY <3>1, CopiesAre
    <3> HIDE DEF Times
    <3> QED BY <3>1, <3>2, FS_EmptySet
  <2> HIDE DEF Times
  <2> QED BY <2>1
<1>n. \A d : Times(m, d) = {n \in 1 .. m : s[n] = d} OBVIOUS
<1> HIDE DEF Step, Times
<1>g. \A n, x : Good(n, x) <=>
           (~x.endless =>
               /\ IsHeap(x) /\ x.size = n
               /\ \A d \in Heaps!Items : Heaps!Copies(x, d) = Cardinality(Times(n, d))
               /\ library = "graph" /\ Heaps!Sorted(s) =>
                     \A i \in 0 .. n - 1 : x.elements[i] = s[i + 1])
  OBVIOUS
<1> HIDE DEF Good
<1>3. Turns(m, h, good, next)
  <2>1. 0 \in 0 .. m OBVIOUS
  <2>2. h \in good[0] BY <1>0, <1>2, <2>1
  <2>3. ASSUME NEW n \in 1 .. m, NEW x \in good[n - 1] PROVE next[n][x] \in good[n]
    <3>1. n - 1 \in 0 .. m /\ n \in 0 .. m OBVIOUS
    <3>2. x \in HeapStates /\ Good(n - 1, x) BY <2>3, <3>1
    <3>3. Step(n, x) \in HeapStates /\ Good(n, Step(n, x)) BY <1>1, <3>2
    <3>4. next[n][x] = Step(n, x) BY <3>2
    <3> QED BY <3>1, <3>3, <3>4
  <2> QED BY <2>2, <2>3 DEF Turns
<1>4. ASSUME NEW n \in 1 .. m, NEW x \in good[n - 1] PROVE next[n][x] = Step(n, x)
  <2>1. n - 1 \in 0 .. m OBVIOUS
  <2>2. x \in HeapStates BY <1>4, <2>1
  <2> QED BY <2>2
<1>5. \A n \in 0 .. m : \A x \in good[n] : Good(n, x) OBVIOUS
<1> HIDE DEF good, next, Sol
<1>6. \E t : Sol(t)
  <2>1. PICK t : /\ t = [n \in 0 .. m |-> t[n]] /\ t[0] = h
                 /\ \A n \in 1 .. m : t[n - 1] \in good[n - 1] /\ t[n] = next[n][t[n - 1]]
    BY <1>3, TurnsExist
  <2>2. \A n \in 1 .. m : t[n] = Step(n, t[n - 1]) BY <1>4, <2>1
  <2>3. ASSUME NEW n \in 0 .. m PROVE t[n] = IF n = 0 THEN h ELSE Step(n, t[n - 1])
    <3>1. n = 0 \/ n \in 1 .. m OBVIOUS
    <3> QED BY <2>1, <2>2, <3>1
  <2>4. t = [n \in 0 .. m |-> IF n = 0 THEN h ELSE Step(n, t[n - 1])]
    BY <2>1, <2>3, Zenon
  <2> QED BY <2>4 DEF Sol
<1>7. PICK t : t = CHOOSE u : Sol(u) OBVIOUS
<1>8. Sol(t) BY <1>6, <1>7, Zenon
<1>l. Len(s) = m
  <2> DEFINE S == {s[n] : n \in 1 .. m}
  <2>1. s \in [1 .. m -> S] BY <1>z
  <2> HIDE DEF S
  <2> QED BY <2>1
<1>9. g = t[m]
  <2> DEFINE R(k) == (CHOOSE u : u = [n \in 0 .. k |-> IF n = 0 THEN h ELSE Step(n, u[n - 1])])[k]
  <2>1. Heaps!Reinserted(h, s) = R(Len(s)) BY Zenon DEF Heaps!Reinserted, Step
  <2>2. R(m) = t[m] BY <1>7, Zenon DEF Sol
  <2> HIDE DEF R
  <2> QED BY <1>l, <2>1, <2>2
<1>10. t[0] = h /\ \A n \in 1 .. m : t[n] = Step(n, t[n - 1])
  <2>1. \A n \in 0 .. m : t[n] = IF n = 0 THEN h ELSE Step(n, t[n - 1])
    BY <1>8, Zenon DEF Sol
  <2>2. 0 \in 0 .. m /\ \A n \in 1 .. m : n \in 0 .. m /\ n # 0 OBVIOUS
  <2> QED BY <2>1, <2>2
<1>11. Good(m, g)
  <2>1. \A n \in 1 .. m : t[n - 1] \in good[n - 1] => t[n] = next[n][t[n - 1]] BY <1>4, <1>10
  <2>2. \A n \in 0 .. m : t[n] \in good[n] BY <1>3, <1>10, <2>1, TurnsAreGood
  <2>3. m \in 0 .. m OBVIOUS
  <2> QED BY <1>5, <1>9, <2>2, <2>3
<1>12. /\ IsHeap(g) /\ g.size = m
       /\ \A d \in Heaps!Items : Heaps!Copies(g, d) = Cardinality(Times(m, d))
       /\ library = "graph" /\ Heaps!Sorted(s) => \A i \in 0 .. m - 1 : g.elements[i] = s[i + 1]
  BY <1>11, <1>g
<1>13. ASSUME library = "graph", Heaps!Sorted(s) PROVE ValidFrom(g, 0)
  <2> SUFFICES ASSUME NEW i \in 0 .. m - 1, NEW child \in Under(i), child < m
               PROVE  Heaps!Priority(g, i) <= Heaps!Priority(g, child)
    BY <1>12 DEF ValidFrom, Ordered
  <2>1. child \in 0 .. m - 1 /\ i + 1 \in 1 .. m /\ child + 1 \in 1 .. m /\ i + 1 < child + 1
    BY DEF Under
  <2>2. Heaps!Priority(g, i) = s[i + 1].priority /\ Heaps!Priority(g, child) = s[child + 1].priority
    BY <1>12, <1>13, <2>1 DEF Heaps!Priority
  <2> QED BY <1>0, <1>13, <2>1, <2>2 DEF Heaps!Sorted
<1> QED BY <1>12, <1>13, <1>n DEF AreHeld
(* A priority that is written over, before the element rises or sinks *)
Rewritten(h, index, priority) == [h EXCEPT !.elements[index].priority = priority]

LEMMA RewrittenIs ==
    ASSUME HeapsAssumption, NEW h, IsHeap(h), NEW index \in 0 .. h.size - 1,
           NEW priority \in Priorities, NEW q, q = Rewritten(h, index, priority)
    PROVE  /\ IsHeap(q) /\ q.size = h.size
           /\ q.elements[index] \in Heaps!Items
           /\ \A d \in Heaps!Items :
                 Heaps!Copies(q, d) =
                     Heaps!Copies(h, d) - One(d = h.elements[index]) + One(d = q.elements[index])
           /\ ValidFrom(h, 0) /\ priority >= h.elements[index].priority => Sinking(q, 0, index)
<1> DEFINE n == h.size
           D == DOMAIN h.elements
           old == h.elements[index]
           new == [old EXCEPT !.priority = priority]
<1>0. /\ h = [elements |-> h.elements, size |-> n, endless |-> h.endless]
      /\ h.elements \in [D -> Heaps!Items] /\ D \subseteq Nat /\ n \in Nat /\ h.endless \in BOOLEAN
      /\ 0 .. n - 1 \subseteq D
  BY HeapFields
<1>1. index \in D /\ index \in 0 .. n - 1 BY <1>0
<1>2. old \in Heaps!Items BY <1>0, <1>1
<1>3. new \in Heaps!Items /\ new.priority = priority BY <1>2 DEF Heaps!Items
<1>4. PICK el : el = [h.elements EXCEPT ![index] = new] OBVIOUS
<1>5. q = [elements |-> el, size |-> n, endless |-> h.endless]
  BY <1>0, <1>4 DEF Rewritten
<1>o. old = h.elements[index] OBVIOUS
<1>p. \A i \in 0 .. n - 1 : Heaps!Priority(h, i) = h.elements[i].priority /\ Heaps!Priority(h, i) \in Int
  BY HeapPriorities DEF n
<1>v. \A j \in 0 .. n - 1 : ValidFrom(h, 0) =>
          \A d \in Under(j) : d < n => Heaps!Priority(h, j) <= Heaps!Priority(h, d)
  BY DEF ValidFrom, Ordered
<1> HIDE DEF n, D, old, new
<1>6. el \in [D -> Heaps!Items] /\ el[index] = new /\ \A i \in D : i # index => el[i] = h.elements[i]
  BY <1>0, <1>1, <1>3, <1>4
<1>7. q.elements = el /\ q.size = n BY <1>5
<1>8. IsHeap(q) BY <1>0, <1>5, <1>6, <1>7, HeapFields
<1>9. ASSUME NEW d \in Heaps!Items
      PROVE  Heaps!Copies(q, d) = Heaps!Copies(h, d) - One(d = old) + One(d = new)
  <2> DEFINE A == At(q, d)
             B == At(h, d)
  <2>1. A = {i \in 0 .. n - 1 : el[i] = d} /\ B = {i \in 0 .. n - 1 : h.elements[i] = d}
    BY <1>7 DEF At, n
  <2> HIDE DEF A, B
  <2>2. A \ {index} = B \ {index} BY <1>0, <1>6, <2>1
  <2>3. (index \in B <=> d = old) /\ (index \in A <=> d = new) BY <1>1, <1>6, <1>o, <2>1
  <2>4. /\ IsFiniteSet(A) /\ Heaps!Copies(q, d) = Cardinality(A) /\ Heaps!Copies(q, d) \in Nat
        /\ IsFiniteSet(B) /\ Heaps!Copies(h, d) = Cardinality(B) /\ Heaps!Copies(h, d) \in Nat
    BY <1>0, <1>7, CopiesAre DEF A, B, n
  <2>5. Cardinality(A) - One(index \in A) = Cardinality(B) - One(index \in B) BY <2>2, <2>4, ButOne
  <2> QED BY <2>3, <2>4, <2>5 DEF One
<1>10. ASSUME ValidFrom(h, 0), priority >= old.priority PROVE Sinking(q, 0, index)
  <2> DEFINE P(i) == Heaps!Priority(h, i)
             Q(i) == Heaps!Priority(q, i)
  <2>1. Q(index) = priority /\ P(index) = old.priority /\ priority \in Int
    BY <1>1, <1>3, <1>6, <1>7, <1>o DEF Heaps!Priority, HeapsAssumption
  <2>2. \A i \in 0 .. n - 1 : i # index => Q(i) = P(i)
    BY <1>0, <1>6, <1>7 DEF Heaps!Priority
  <2>3. \A i \in 0 .. n - 1 : P(i) \in Int BY <1>p
  <2>4. \A j \in 0 .. n - 1 : \A d \in Under(j) : d < n => P(j) <= P(d) /\ d > j /\ d \in 0 .. n - 1
    BY <1>0, <1>10, <1>v DEF Under
  <2>5. P(index) <= Q(index) BY <1>10, <2>1
  <2>a. \A j \in 0 .. n - 1 : j # index => Ordered(q, j) <=> \A d \in Under(j) : d < n => Q(j) <= Q(d)
    BY <1>7 DEF Ordered
  <2> HIDE DEF P, Q
  <2>6. ASSUME NEW j \in 0 .. n - 1, j # index PROVE Ordered(q, j)
    <3> SUFFICES ASSUME NEW d \in Under(j), d < n PROVE Q(j) <= Q(d)
      BY <2>6, <2>a
    <3>1. P(j) <= P(d) /\ d \in 0 .. n - 1 BY <2>4
    <3>2. Q(j) = P(j) BY <2>2, <2>6
    <3>3. CASE d = index BY <1>1, <2>1, <2>3, <2>5, <3>1, <3>2, <3>3
    <3>4. CASE d # index BY <2>2, <3>1, <3>2, <3>4
    <3> QED BY <3>3, <3>4
  <2>7. ASSUME NEW j \in 0 .. n - 1, index \in Under(j), NEW d \in Under(index), d < n
        PROVE  Q(j) <= Q(d)
    <3>1. P(index) <= P(d) /\ d > index /\ d \in 0 .. n - 1 BY <1>1, <2>4, <2>7
    <3>2. P(j) <= P(index) /\ index > j BY <1>0, <1>1, <2>4, <2>7
    <3>3. Q(j) = P(j) /\ Q(d) = P(d) BY <1>0, <1>1, <2>2, <3>1, <3>2
    <3> QED BY <1>1, <2>3, <3>1, <3>2, <3>3
  <2> QED BY <1>7, <2>6, <2>7 DEF Sinking, Q
<1> QED BY <1>3, <1>6, <1>7, <1>8, <1>9, <1>10, <1>o DEF n
-----------------------------------------------------------------------------
(* What the library does not survive: with two elements it never leaves    *)
(* element 1, and its heaps are of one element or none                        *)
HeapIs(library, h, held, heaped) ==
    /\ library \in {"library", "graph"} /\ heaped \in BOOLEAN
    /\ held \in [Heaps!Items -> Int]
    /\ IsHeap(h)
    /\ \A e \in Heaps!Items : Heaps!Copies(h, e) = held[e]
    /\ library = "library" => h.size <= 1
    /\ heaped => ValidFrom(h, 0)

HeapInv ==
    Heaps!Usable =>
        /\ heap = [library |-> heap.library, h |-> heap.h, held |-> heap.held,
                   heaped |-> heap.heaped, overflowed |-> heap.overflowed]
        /\ HeapIs(heap.library, heap.h, heap.held, heap.heaped)

LEMMA HeapStart == HeapsAssumption /\ Heaps!Init => HeapInv
<1> SUFFICES ASSUME HeapsAssumption, Heaps!Init PROVE HeapInv
  OBVIOUS
<1>1. PICK library \in {"library", "graph"} :
         heap = [library |-> library, h |-> Heaps!NewHeap, held |-> [e \in Heaps!Items |-> 0],
                 heaped |-> TRUE, overflowed |-> FALSE]
  BY Zenon DEF Heaps!Init
<1>2. PICK h : h = Heaps!NewHeap OBVIOUS
<1>3. h = [elements |-> <<>>, size |-> 0, endless |-> FALSE] BY <1>2 DEF Heaps!NewHeap
<1>4. h.elements = <<>> /\ h.size = 0 /\ h.endless = FALSE BY <1>3
<1>5. IsHeap(h)
  <2>1. <<>> \in [{} -> Heaps!Items] /\ DOMAIN <<>> = {} /\ 0 .. 0 - 1 = {} OBVIOUS
  <2> QED BY <1>3, <1>4, <2>1, HeapFields
<1>6. \A e \in Heaps!Items : Heaps!Copies(h, e) = 0
  <2> SUFFICES ASSUME NEW e \in Heaps!Items PROVE Heaps!Copies(h, e) = 0
    OBVIOUS
  <2>1. At(h, e) = {} BY <1>4 DEF At
  <2> QED BY <1>4, <2>1, CopiesAre
<1>7. ValidFrom(h, 0) BY <1>4, FewAreValid
<1>8. PICK none : none = [e \in Heaps!Items |-> 0] OBVIOUS
<1>9. none \in [Heaps!Items -> Int] /\ \A e \in Heaps!Items : none[e] = 0 BY <1>8
<1>10. heap = [library |-> library, h |-> h, held |-> none, heaped |-> TRUE, overflowed |-> FALSE]
  BY <1>1, <1>2, <1>8
<1>11. HeapIs(library, h, none, TRUE) BY <1>4, <1>5, <1>6, <1>7, <1>9 DEF HeapIs
<1>12. /\ heap.library = library /\ heap.h = h /\ heap.held = none /\ heap.heaped = TRUE
       /\ heap.overflowed = FALSE
  BY <1>10
<1> QED BY <1>10, <1>11, <1>12 DEF HeapInv

(* A step says what the heap is after it; what it loses is not usable *)
After(library, g, held, heaped, overflowed) ==
    /\ heap' = [library |-> library, h |-> g, held |-> held, heaped |-> heaped,
                overflowed |-> overflowed]
    /\ ~g.endless => HeapIs(library, g, held, heaped)

LEMMA AfterIs ==
    ASSUME NEW library, NEW g, NEW held, NEW heaped, NEW overflowed,
           After(library, g, held, heaped, overflowed)
    PROVE  HeapInv'
<1>1. /\ heap'.library = library /\ heap'.h = g /\ heap'.held = held /\ heap'.heaped = heaped
      /\ heap'.overflowed = overflowed
  BY DEF After
<1> QED BY <1>1 DEF After, HeapInv, Heaps!Usable

LEMMA HeapInsert ==
    ASSUME HeapsAssumption, HeapInv, NEW value \in Values, NEW priority \in Priorities,
           Heaps!Insert(value, priority)
    PROVE  HeapInv'
<1>1. PICK library, h, held, heaped, overflowed :
         /\ library = heap.library /\ h = heap.h /\ held = heap.held /\ heaped = heap.heaped
         /\ overflowed = (h.size >= BINARY_HEAP_INITIAL_CAPACITY)
  OBVIOUS
<1>2. PICK e : e = [value |-> value, priority |-> priority] OBVIOUS
<1>3. PICK g : g = Heaps!insert(library, h, value, priority) OBVIOUS
<1>4. PICK more : more = [held EXCEPT ![e] = @ + 1] OBVIOUS
<1>5. PICK empty : empty = (h.size = 0) OBVIOUS
<1>6. /\ HeapIs(library, h, held, heaped)
      /\ heap = [library |-> library, h |-> h, held |-> held, heaped |-> heaped,
                 overflowed |-> heap.overflowed]
  BY <1>1 DEF Heaps!Insert, HeapInv
<1>7. heap' = [library |-> library, h |-> g, held |-> more, heaped |-> empty, overflowed |-> overflowed]
  <2>1. heap' = [heap EXCEPT !.h = g, !.held = more, !.heaped = empty, !.overflowed = overflowed]
    BY <1>1, <1>2, <1>3, <1>4, <1>5, Zenon DEF Heaps!Insert
  <2>2. PICK was : was = heap.overflowed OBVIOUS
  <2>3. heap = [library |-> library, h |-> h, held |-> held, heaped |-> heaped, overflowed |-> was]
    BY <1>6, <2>2
  <2> QED BY <2>1, <2>3
<1>8. /\ library \in {"library", "graph"} /\ held \in [Heaps!Items -> Int] /\ IsHeap(h)
      /\ \A d \in Heaps!Items : Heaps!Copies(h, d) = held[d]
      /\ library = "library" => h.size <= 1
  BY <1>6 DEF HeapIs
<1>9. e \in Heaps!Items BY <1>2 DEF Heaps!Items
<1>10. more \in [Heaps!Items -> Int] /\ \A d \in Heaps!Items : more[d] = held[d] + One(d = e)
  BY <1>4, <1>8, <1>9 DEF One
<1>11. h.size \in Nat BY <1>8, HeapFields
<1>12. /\ IsHeap(g) /\ g.size = h.size + 1
       /\ \A d \in Heaps!Items : Heaps!Copies(g, d) = Heaps!Copies(h, d) + One(d = e)
       /\ library = "library" /\ h.size = 1 => g.endless
  BY <1>2, <1>3, <1>8, InsertIs
<1>13. ASSUME ~g.endless PROVE HeapIs(library, g, more, empty)
  <2>1. library = "library" => g.size <= 1 BY <1>8, <1>11, <1>12, <1>13
  <2>2. h.size = 0 => g.size \in 0 .. 1 BY <1>11, <1>12
  <2>3. h.size = 0 => ValidFrom(g, 0) BY <2>2, FewAreValid
  <2>4. empty \in BOOLEAN /\ (empty => ValidFrom(g, 0)) BY <1>5, <2>3, Zenon
  <2>5. \A d \in Heaps!Items : Heaps!Copies(g, d) = more[d] BY <1>8, <1>10, <1>12
  <2> QED BY <1>8, <1>10, <1>12, <2>1, <2>4, <2>5 DEF HeapIs
<1> QED BY <1>7, <1>13, AfterIs DEF After

LEMMA HeapPop ==
    ASSUME HeapsAssumption, HeapInv, Heaps!Pop
    PROVE  HeapInv'
<1>1. PICK library, h, held, heaped, overflowed :
         /\ library = heap.library /\ h = heap.h /\ held = heap.held /\ heaped = heap.heaped
         /\ overflowed = heap.overflowed
  OBVIOUS
<1>2. PICK e : e = Heaps!front(h) OBVIOUS
<1>3. PICK g : g = Heaps!pop(library, h) OBVIOUS
<1>4. PICK fewer : fewer = [held EXCEPT ![e] = @ - 1] OBVIOUS
<1>6. /\ HeapIs(library, h, held, heaped) /\ h.size # 0
      /\ heap = [library |-> library, h |-> h, held |-> held, heaped |-> heaped,
                 overflowed |-> overflowed]
  BY <1>1 DEF Heaps!Pop, Heaps!Filled, HeapInv
<1>7. heap' = [library |-> library, h |-> g, held |-> fewer, heaped |-> heaped, overflowed |-> overflowed]
  <2>1. heap' = [heap EXCEPT !.h = g, !.held = fewer]
    BY <1>1, <1>2, <1>3, <1>4, Zenon DEF Heaps!Pop
  <2> QED BY <1>6, <2>1
<1>8. /\ library \in {"library", "graph"} /\ held \in [Heaps!Items -> Int] /\ IsHeap(h)
      /\ heaped \in BOOLEAN
      /\ \A d \in Heaps!Items : Heaps!Copies(h, d) = held[d]
      /\ library = "library" => h.size <= 1
      /\ heaped => ValidFrom(h, 0)
  BY <1>6 DEF HeapIs
<1>11. h.size \in Nat /\ h.size > 0 /\ 0 \in 0 .. h.size - 1 BY <1>6, <1>8, HeapFields
<1>9. e \in Heaps!Items BY <1>2, <1>8, <1>11, HeapPriorities DEF Heaps!front
<1>10. fewer \in [Heaps!Items -> Int] /\ \A d \in Heaps!Items : fewer[d] = held[d] - One(d = e)
  BY <1>4, <1>8, <1>9 DEF One
<1>12. /\ IsHeap(g) /\ g.size = h.size - 1
       /\ \A d \in Heaps!Items : Heaps!Copies(g, d) = Heaps!Copies(h, d) - One(d = e)
       /\ ValidFrom(h, 0) => ValidFrom(g, 0)
  BY <1>2, <1>3, <1>8, <1>11, PopIs
<1>13. HeapIs(library, g, fewer, heaped)
  <2>1. library = "library" => g.size <= 1 BY <1>8, <1>11, <1>12
  <2> QED BY <1>8, <1>10, <1>12, <2>1 DEF HeapIs
<1> QED BY <1>7, <1>13, AfterIs DEF After

LEMMA HeapHeapified ==
    ASSUME HeapsAssumption, HeapInv, Heaps!heapify
    PROVE  HeapInv'
<1>1. PICK library, h, held, heaped, overflowed :
         /\ library = heap.library /\ h = heap.h /\ held = heap.held /\ heaped = heap.heaped
         /\ overflowed = heap.overflowed
  OBVIOUS
<1>3. PICK g : g = Heaps!HeapifiedFrom(h, h.size \div 2) OBVIOUS
<1>6. /\ HeapIs(library, h, held, heaped)
      /\ heap = [library |-> library, h |-> h, held |-> held, heaped |-> heaped,
                 overflowed |-> overflowed]
  BY <1>1 DEF Heaps!heapify, Heaps!Filled, HeapInv
<1>7. heap' = [library |-> library, h |-> g, held |-> held, heaped |-> TRUE, overflowed |-> overflowed]
  <2>1. heap' = [heap EXCEPT !.h = g, !.heaped = TRUE]
    BY <1>1, <1>3, Zenon DEF Heaps!heapify
  <2> QED BY <1>6, <2>1
<1>8. IsHeap(h) BY <1>6 DEF HeapIs
<1>9. Same(g, h) /\ ValidFrom(g, 0) BY <1>3, <1>8, HeapifiedIs
<1>10. HeapIs(library, g, held, TRUE) BY <1>6, <1>9 DEF HeapIs, Same
<1> QED BY <1>7, <1>10, AfterIs DEF After

LEMMA HeapSetPriority ==
    ASSUME HeapsAssumption, HeapInv, NEW index \in 0 .. heap.h.size - 1, NEW priority \in Priorities,
           Heaps!set_priority(index, priority)
    PROVE  HeapInv'
<1>1. PICK library, h, held, heaped, overflowed :
         /\ library = heap.library /\ h = heap.h /\ held = heap.held /\ heaped = heap.heaped
         /\ overflowed = heap.overflowed
  OBVIOUS
<1>2. PICK old : old = h.elements[index] OBVIOUS
<1>3. PICK q : q = Rewritten(h, index, priority) OBVIOUS
<1>4. PICK new : new = q.elements[index] OBVIOUS
<1>5. PICK g : g = IF priority < old.priority THEN Heaps!heapify_to(library, q, index)
                   ELSE Heaps!heapify_from(library, q, index)
  OBVIOUS
<1>a. PICK counted : counted = Heaps!Recounted(held, old, new) OBVIOUS
<1>b. PICK still : still = (heaped /\ priority >= old.priority) OBVIOUS
<1>6. /\ HeapIs(library, h, held, heaped)
      /\ heap = [library |-> library, h |-> h, held |-> held, heaped |-> heaped,
                 overflowed |-> overflowed]
  BY <1>1 DEF Heaps!set_priority, Heaps!Filled, HeapInv
<1>7. heap' = [library |-> library, h |-> g, held |-> counted, heaped |-> still, overflowed |-> overflowed]
  <2> DEFINE was == heap.h.elements[index]
             set == [heap.h EXCEPT !.elements[index].priority = priority]
  <2>a. was = old /\ set = q BY <1>1, <1>2, <1>3, Zenon DEF Rewritten
  <2>b. heap' = [heap EXCEPT
                   !.h = IF priority < was.priority THEN Heaps!heapify_to(heap.library, set, index)
                         ELSE Heaps!heapify_from(heap.library, set, index),
                   !.held = Heaps!Recounted(heap.held, was, set.elements[index]),
                   !.heaped = heap.heaped /\ priority >= was.priority]
    BY Zenon DEF Heaps!set_priority
  <2> HIDE DEF was, set
  <2>1. heap' = [heap EXCEPT !.h = g, !.held = counted, !.heaped = still]
    BY <1>1, <1>4, <1>5, <1>a, <1>b, <2>a, <2>b, Zenon
  <2> QED BY <1>6, <2>1
<1>8. /\ library \in {"library", "graph"} /\ held \in [Heaps!Items -> Int] /\ IsHeap(h)
      /\ heaped \in BOOLEAN
      /\ \A d \in Heaps!Items : Heaps!Copies(h, d) = held[d]
      /\ library = "library" => h.size <= 1
      /\ heaped => ValidFrom(h, 0)
  BY <1>6 DEF HeapIs
<1>9. index \in 0 .. h.size - 1 /\ h.size \in Nat /\ index \in Nat BY <1>1, <1>8, HeapFields
<1>10. old \in Heaps!Items /\ old.priority \in Int /\ priority \in Int
  BY <1>2, <1>8, <1>9, HeapPriorities DEF HeapsAssumption
<1>11. /\ IsHeap(q) /\ q.size = h.size /\ new \in Heaps!Items
       /\ \A d \in Heaps!Items :
             Heaps!Copies(q, d) = Heaps!Copies(h, d) - One(d = old) + One(d = new)
       /\ ValidFrom(h, 0) /\ priority >= old.priority => Sinking(q, 0, index)
  BY <1>2, <1>3, <1>4, <1>8, <1>9, RewrittenIs
<1>12. /\ counted \in [Heaps!Items -> Int]
       /\ \A d \in Heaps!Items : counted[d] = held[d] - One(d = old) + One(d = new)
  BY <1>8, <1>10, <1>11, <1>a DEF One, Heaps!Recounted
<1>c. still \in BOOLEAN /\ (still => heaped /\ priority >= old.priority) BY <1>b, Zenon
<1>13. Kept(g, q) /\ (still => ValidFrom(g, 0))
  <2>1. CASE priority < old.priority
    <3>1. g = Heaps!heapify_to(library, q, index) BY <1>5, <2>1
    <3>2. Kept(g, q) BY <1>9, <1>11, <3>1, ToKeeps
    <3> QED BY <1>10, <1>c, <2>1, <3>2
  <2>2. CASE ~(priority < old.priority)
    <3>1. g = Heaps!heapify_from(library, q, index) BY <1>5, <2>2
    <3>2. Same(g, q) /\ (0 <= index /\ Sinking(q, 0, index) => ValidFrom(g, 0))
      BY <1>9, <1>11, <3>1, FromKeeps
    <3>3. Kept(g, q) BY <3>2 DEF Same, Kept
    <3> QED BY <1>8, <1>9, <1>11, <1>c, <3>2, <3>3
  <2> QED BY <2>1, <2>2
<1>14. HeapIs(library, g, counted, still)
  <2>1. \A d \in Heaps!Items : Heaps!Copies(g, d) = counted[d] BY <1>8, <1>11, <1>12, <1>13 DEF Kept
  <2> QED BY <1>8, <1>11, <1>12, <1>13, <1>c, <2>1 DEF HeapIs, Kept
<1> QED BY <1>7, <1>14, AfterIs DEF After

LEMMA HeapSorted ==
    ASSUME HeapsAssumption, HeapInv, Heaps!heapsorted
    PROVE  HeapInv'
<1>1. PICK library, h, held, heaped, overflowed :
         /\ library = heap.library /\ h = heap.h /\ held = heap.held /\ heaped = heap.heaped
         /\ overflowed = heap.overflowed
  OBVIOUS
<1>2. PICK s : s = Heaps!Drained(library, h) OBVIOUS
<1>3. PICK q : q = [h EXCEPT !.size = 0] OBVIOUS
<1>4. PICK g : g = Heaps!Reinserted(q, s) OBVIOUS
<1>6. /\ HeapIs(library, h, held, heaped) /\ ~h.endless
      /\ heap = [library |-> library, h |-> h, held |-> held, heaped |-> heaped,
                 overflowed |-> overflowed]
  BY <1>1 DEF Heaps!heapsorted, Heaps!Filled, Heaps!Usable, HeapInv
<1>7. heap' = [library |-> library, h |-> g, held |-> held, heaped |-> heaped, overflowed |-> overflowed]
  <2>1. heap' = [heap EXCEPT !.h = g]
    BY <1>1, <1>2, <1>3, <1>4, Zenon DEF Heaps!heapsorted
  <2> QED BY <1>6, <2>1
<1>8. /\ library \in {"library", "graph"} /\ held \in [Heaps!Items -> Int] /\ IsHeap(h)
      /\ heaped \in BOOLEAN
      /\ \A d \in Heaps!Items : Heaps!Copies(h, d) = held[d]
      /\ library = "library" => h.size <= 1
      /\ heaped => ValidFrom(h, 0)
  BY <1>6 DEF HeapIs
<1>9. h.size \in Nat BY <1>8, HeapFields
<1>10. IsHeap(q) /\ q.size = 0 /\ ~q.endless
  <2>1. /\ h = [elements |-> h.elements, size |-> h.size, endless |-> h.endless]
        /\ h.elements \in [DOMAIN h.elements -> Heaps!Items] /\ DOMAIN h.elements \subseteq Nat
        /\ h.endless \in BOOLEAN
    BY <1>8, HeapFields
  <2>2. q = [elements |-> h.elements, size |-> 0, endless |-> h.endless] BY <1>3, <2>1
  <2>3. q.elements = h.elements /\ q.size = 0 /\ q.endless = h.endless BY <2>2
  <2>4. 0 .. 0 - 1 = {} OBVIOUS
  <2> QED BY <1>6, <2>1, <2>2, <2>3, <2>4, HeapFields
<1>11. /\ s = [n \in 1 .. h.size |-> s[n]] /\ \A n \in 1 .. h.size : s[n] \in Heaps!Items
       /\ \A d \in Heaps!Items :
             Cardinality({n \in 1 .. h.size : s[n] = d}) = Heaps!Copies(h, d)
       /\ ValidFrom(h, 0) => Heaps!Sorted(s)
  BY <1>2, <1>8, DrainedIs
<1>12. ASSUME ~g.endless PROVE HeapIs(library, g, held, heaped)
  <2>1. /\ IsHeap(g) /\ g.size = h.size
        /\ \A d \in Heaps!Items :
              Heaps!Copies(g, d) = Cardinality({n \in 1 .. h.size : s[n] = d})
        /\ heap.library = "graph" /\ Heaps!Sorted(s) => ValidFrom(g, 0)
    <3>1. PICK m \in Nat : m = h.size BY <1>9
    <3>2. AreItems(s, m) BY <1>11, <3>1 DEF AreItems
    <3>3. AreHeld(g, s, m) /\ (heap.library = "graph" /\ Heaps!Sorted(s) => ValidFrom(g, 0))
      BY <1>4, <1>10, <1>12, <3>2, ReinsertedIs, Zenon
    <3> QED BY <3>1, <3>3 DEF AreHeld
  <2>2. library = "library" => ValidFrom(g, 0)
    <3>1. library = "library" => g.size \in 0 .. 1 BY <1>8, <1>9, <2>1
    <3> QED BY <3>1, FewAreValid
  <2>3. heaped => ValidFrom(g, 0) BY <1>1, <1>8, <1>11, <2>1, <2>2
  <2> QED BY <1>8, <1>11, <2>1, <2>3 DEF HeapIs
<1> QED BY <1>7, <1>12, AfterIs DEF After

(* No element of a heap is lost or doubled, whatever is inserted, taken,     *)
(* raised, lowered, heapified or sorted; and a heap that is made valid stays   *)
(* so, and drains in order, until something comes into it from below            *)
THEOREM HeapsAreSound ==
    ASSUME HeapsAssumption PROVE Heaps!Spec => []Heaps!Sound
<1>1. Heaps!Init => HeapInv BY HeapStart
<1>2. HeapInv /\ [Heaps!Next]_heap => HeapInv'
  <2> SUFFICES ASSUME HeapInv, [Heaps!Next]_heap PROVE HeapInv'
    OBVIOUS
  <2>1. CASE UNCHANGED heap BY <2>1 DEF HeapInv, Heaps!Usable
  <2>2. CASE Heaps!Next
    BY <2>2, HeapInsert, HeapPop, HeapHeapified, HeapSetPriority, HeapSorted DEF Heaps!Next
  <2> QED BY <2>1, <2>2
<1>3. HeapInv => Heaps!Sound
  <2> SUFFICES ASSUME HeapInv, Heaps!Usable PROVE Heaps!Sound
    BY DEF Heaps!Sound, Heaps!Usable
  <2>1. HeapIs(heap.library, heap.h, heap.held, heap.heaped) BY DEF HeapInv
  <2>2. PICK h : h = heap.h OBVIOUS
  <2>3. IsHeap(h) BY <2>1, <2>2 DEF HeapIs
  <2>4. Heaps!Holds(heap.h, heap.held) BY <2>1, <2>2, <2>3, HeapPriorities DEF HeapIs, Heaps!Holds
  <2>5. ASSUME heap.heaped
        PROVE  Heaps!is_valid(heap.h) /\ Heaps!Sorted(Heaps!Drained(heap.library, heap.h))
    <3>1. ValidFrom(h, 0) BY <2>1, <2>2, <2>5 DEF HeapIs
    <3>2. Heaps!is_valid(h) BY <2>3, <3>1, HeapFields, ValidIs
    <3>3. PICK s : s = Heaps!Drained(heap.library, h) OBVIOUS
    <3>4. Heaps!Sorted(s) BY <2>3, <3>1, <3>3, DrainedIs
    <3> QED BY <2>2, <3>2, <3>3, <3>4
  <2> QED BY <2>4, <2>5 DEF Heaps!Sound
<1> QED BY <1>1, <1>2, <1>3, PTL DEF Heaps!Spec
=============================================================================
