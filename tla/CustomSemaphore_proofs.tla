------------------------ MODULE CustomSemaphore_proofs -----------------------
(* Theorems about CustomSemaphore, for every number of processes, of units *)
(* and of passes and every ring with a slot per child                       *)
EXTENDS CustomSemaphore, FiniteSetTheorems, SequenceTheorems, TLAPS

Waiting == {p \in Procs : pc[p] \in {"release_wait", "suspend"}}
Unwoken == Waiting \ pending                    \* those the ring must hold
Holding == Inside \cup (Waiting \cap pending)   \* a unit is theirs
AtKill == {p \in Procs : pc[p] = "kill"}
AtPop == {p \in Procs : pc[p] = "pop"}
One(S) == IF S = {} THEN 0 ELSE 1

(* The i-th of the ring, and which of its entries stand for somebody: the  *)
(* front does not once it has been woken                                    *)
Entry(i) == items[(first + i) % QUEUE_MAX_ITEMS]
Entries == One(AtPop) .. size - 1

(* One process at a time has the spinlock *)
SpinlockInv ==
    /\ \A p, q \in InLock : p = q
    /\ InLock # {} => lock

(* The entries are the processes that wait unwoken, each of them once *)
RingInv ==
    /\ \A i \in Entries : Entry(i) \in Unwoken
    /\ \A i, j \in Entries : Entry(i) = Entry(j) => i = j
    /\ \A p \in Unwoken : \E i \in Entries : Entry(i) = p
    /\ size = Cardinality(Unwoken) + One(AtPop)

(* Where the units are: who waits does so because none is left *)
UnitsInv ==
    /\ pending \subseteq Waiting
    /\ count = Units - Cardinality(Holding) - Cardinality(Unwoken) - One(Pushing)
    /\ Cardinality(Holding) + One(AtKill) <= Units
    /\ Unwoken # {} \/ Pushing # {} => Cardinality(Holding) + One(AtKill) = Units
    /\ AtKill # {} => Unwoken # {}

(* The loops of main and of each process *)
TestInv ==
    /\ \A p \in Procs : p > created => pc[p] = "none"
    /\ \A p \in Procs : pc[p] \notin {"wait", "ended", "reaped"} => left[p] > 0

IInv == TypeOK /\ SpinlockInv /\ RingInv /\ UnitsInv /\ TestInv
-----------------------------------------------------------------------------
LEMMA ProcsFinite ==
    /\ IsFiniteSet(Procs) /\ Cardinality(Procs) = PROC_COUNT + 1
    /\ 0 \in Procs
BY FS_Interval, CountAssumption DEF Procs

LEMMA Sizes ==
    /\ IsFiniteSet(Holding) /\ Cardinality(Holding) \in Nat
    /\ IsFiniteSet(Unwoken) /\ Cardinality(Unwoken) \in Nat
    /\ Cardinality(Holding) = 0 <=> Holding = {}
    /\ Cardinality(Unwoken) = 0 <=> Unwoken = {}
<1>1. Holding \in SUBSET Procs /\ Unwoken \in SUBSET Procs
  BY DEF Holding, Unwoken, Inside, Waiting
<1> QED BY <1>1, ProcsFinite, FS_Subset, FS_CardinalityType, FS_EmptySet

(* A ring index stays in the ring, and two within its capacity differ *)
LEMMA RingIndex ==
    ASSUME NEW a \in Nat
    PROVE  a % QUEUE_MAX_ITEMS \in Slots
BY RingAssumption DEF Slots

LEMMA RingDistinct ==
    ASSUME NEW f \in Slots, NEW i \in Nat, NEW j \in Nat,
           i < QUEUE_MAX_ITEMS, j < QUEUE_MAX_ITEMS,
           (f + i) % QUEUE_MAX_ITEMS = (f + j) % QUEUE_MAX_ITEMS
    PROVE  i = j
BY RingAssumption DEF Slots

LEMMA RingFirst == ASSUME NEW f \in Slots PROVE (f + 0) % QUEUE_MAX_ITEMS = f
BY RingAssumption DEF Slots

LEMMA RingNext ==
    ASSUME NEW f \in Slots, NEW i \in Nat, i < QUEUE_MAX_ITEMS
    PROVE  (((f + 1) % QUEUE_MAX_ITEMS) + i) % QUEUE_MAX_ITEMS
               = (f + (i + 1)) % QUEUE_MAX_ITEMS
BY RingAssumption DEF Slots

(* A process that goes from one step to another *)
LEMMA GoneTo ==
    ASSUME TypeOK, NEW p \in Procs, NEW l \in Pcs, Goto(p, l)
    PROVE  /\ pc' \in [Procs -> Pcs]
           /\ \A q \in Procs : pc'[q] = IF q = p THEN l ELSE pc[q]
BY DEF TypeOK, Goto
-----------------------------------------------------------------------------
LEMMA IInvInit == Init => IInv
<1> SUFFICES ASSUME Init PROVE IInv
  OBVIOUS
<1>1. \A p \in Procs : pc[p] \in {"fork", "none"}
  BY DEF Init
<1>2. Inside = {} /\ Waiting = {} /\ Pushing = {} /\ AtKill = {} /\ AtPop = {} /\ InLock = {}
  BY <1>1 DEF Inside, Waiting, Pushing, AtKill, AtPop, InLock, Locked
<1>3. Holding = {} /\ Unwoken = {} /\ One({}) = 0
  BY <1>2 DEF Holding, Unwoken, One
<1>4. TypeOK
  <2>1. pc \in [Procs -> Pcs] BY DEF Init, Pcs
  <2>2. items \in [Slots -> Procs \cup {-1}] BY DEF Init
  <2>3. size \in 0 .. QUEUE_MAX_ITEMS /\ first \in Slots
    BY RingAssumption DEF Init, Slots
  <2>4. /\ count \in Int /\ count <= Units /\ count >= -PROC_COUNT
        /\ created \in 0 .. PROC_COUNT /\ unreaped \in 0 .. PROC_COUNT
        /\ left \in [Procs -> 0 .. ITERATIONS]
    BY CountAssumption, UnitsAssumption DEF Init
  <2> QED BY <2>1, <2>2, <2>3, <2>4 DEF TypeOK, Init
<1>5. SpinlockInv
  BY <1>2 DEF SpinlockInv
<1>6. RingInv
  <2>1. Entries = {} BY <1>2, <1>3 DEF Entries, Init
  <2> QED BY <2>1, <1>2, <1>3, FS_EmptySet DEF RingInv, Init
<1>7. UnitsInv
  BY <1>2, <1>3, FS_EmptySet, UnitsAssumption DEF UnitsInv, Init
<1>8. TestInv
  BY CountAssumption DEF TestInv, Init, Procs
<1> QED BY <1>4, <1>5, <1>6, <1>7, <1>8 DEF IInv
-----------------------------------------------------------------------------
(* Steps that change neither where the units are nor the ring *)

Quiet ==
    /\ Holding' = Holding /\ Unwoken' = Unwoken /\ pending' \subseteq Waiting'
    /\ Pushing' = Pushing /\ AtKill' = AtKill /\ AtPop' = AtPop
    /\ UNCHANGED <<count, items, size, first>>

LEMMA QuietStep == RingInv /\ UnitsInv /\ Quiet => RingInv' /\ UnitsInv'
<1> SUFFICES ASSUME RingInv, UnitsInv, Quiet PROVE RingInv' /\ UnitsInv'
  OBVIOUS
<1>1. RingInv' BY DEF Quiet, RingInv, Entries, Entry
<1>2. UnitsInv' BY DEF Quiet, UnitsInv
<1> QED BY <1>1, <1>2

InsidePcs == {"release_in", "critical", "acquire_out", "leave"}
WaitingPcs == {"release_wait", "suspend"}

LEMMA QuietMove ==
    ASSUME IInv, NEW p \in Procs, NEW l \in Pcs, Goto(p, l),
           UNCHANGED <<pending, count, items, size, first>>,
           pc[p] \in InsidePcs <=> l \in InsidePcs,
           pc[p] \in WaitingPcs <=> l \in WaitingPcs,
           {pc[p], l} \cap {"push", "kill", "pop"} = {}
    PROVE  RingInv' /\ UnitsInv'
<1>1. \A q \in Procs : pc'[q] = IF q = p THEN l ELSE pc[q]
  BY GoneTo DEF IInv
<1>2. Inside' = Inside BY <1>1 DEF Inside, InsidePcs
<1>3. Waiting' = Waiting BY <1>1 DEF Waiting, WaitingPcs
<1>4. Pushing' = Pushing BY <1>1 DEF Pushing
<1>5. AtKill' = AtKill BY <1>1 DEF AtKill
<1>6. AtPop' = AtPop BY <1>1 DEF AtPop
<1>7. Quiet
  BY <1>2, <1>3, <1>4, <1>5, <1>6 DEF Quiet, Holding, Unwoken, IInv, UnitsInv
<1> QED BY <1>7, QuietStep DEF IInv
-----------------------------------------------------------------------------
(* The spinlock, and the loops of the test *)

LEMMA SpinlockPass ==
    ASSUME IInv, NEW p \in Procs, Pass(p)
    PROVE  SpinlockInv'
<1> USE DEF SpinlockInv, InLock, Locked
<1>t. TypeOK /\ SpinlockInv BY DEF IInv
<1>1. ASSUME NEW a, NEW b \in Pcs, Acquire(p, a, b) PROVE SpinlockInv'
  <2>1. \A q \in Procs : pc'[q] = IF q = p THEN b ELSE pc[q]
    BY <1>1, <1>t, GoneTo DEF Acquire
  <2>2. InLock = {} /\ lock' BY <1>1, <1>t DEF Acquire, Free
  <2> QED BY <2>1, <2>2
<1>2. ASSUME NEW b \in Pcs, p \in InLock, Goto(p, b), b \notin Locked PROVE SpinlockInv'
  <2>1. \A q \in Procs : pc'[q] = IF q = p THEN b ELSE pc[q]
    BY <1>2, <1>t, GoneTo
  <2> QED BY <2>1, <1>2, <1>t
<1>3. ASSUME NEW b \in Pcs, p \in InLock, Goto(p, b), lock' = lock PROVE SpinlockInv'
  <2>1. \A q \in Procs : pc'[q] = IF q = p THEN b ELSE pc[q]
    BY <1>3, <1>t, GoneTo
  <2> QED BY <2>1, <1>3, <1>t
<1>4. ASSUME NEW b \in Pcs, p \notin InLock, Goto(p, b), b \notin Locked, lock' = lock
      PROVE  SpinlockInv'
  <2>1. \A q \in Procs : pc'[q] = IF q = p THEN b ELSE pc[q]
    BY <1>4, <1>t, GoneTo
  <2> QED BY <2>1, <1>4, <1>t
<1>5. CASE AcquireIn(p) BY <1>5, <1>1 DEF AcquireIn, Pcs
<1>6. CASE AcquireOut(p) BY <1>6, <1>1 DEF AcquireOut, Pcs
<1>7. CASE Enter(p) BY <1>7, <1>3 DEF Enter, Pcs
<1>8. CASE Push(p) BY <1>8, <1>3 DEF Push, Pcs
<1>9. CASE ReleaseWait(p) BY <1>9, <1>2 DEF ReleaseWait, Release, Pcs
<1>10. CASE ReleaseIn(p) BY <1>10, <1>2 DEF ReleaseIn, Release, Pcs
<1>11. CASE Suspend(p) BY <1>11, <1>4 DEF Suspend, Pcs
<1>12. CASE Critical(p) BY <1>12, <1>4 DEF Critical, Pcs
<1>13. CASE Leave(p) BY <1>13, <1>3 DEF Leave, Pcs
<1>14. CASE Kill(p) BY <1>14, <1>3 DEF Kill, Pcs
<1>15. CASE Pop(p) BY <1>15, <1>3 DEF Pop, Pcs
<1>16. CASE ReleaseOut(p) BY <1>16, <1>2 DEF ReleaseOut, Pcs
<1> QED BY <1>5, <1>6, <1>7, <1>8, <1>9, <1>10, <1>11, <1>12, <1>13, <1>14, <1>15, <1>16
        DEF Pass

LEMMA TestPass ==
    ASSUME IInv, NEW p \in Procs, Pass(p)
    PROVE  TestInv'
<1>t. TypeOK /\ TestInv BY DEF IInv
<1>1. ASSUME NEW b \in Pcs, Goto(p, b), b \notin {"wait", "ended", "reaped"},
             pc[p] \notin {"none", "wait", "ended", "reaped"}, UNCHANGED <<left, created>>
      PROVE  TestInv'
  <2>1. \A q \in Procs : pc'[q] = IF q = p THEN b ELSE pc[q]
    BY <1>1, <1>t, GoneTo
  <2> QED BY <2>1, <1>1, <1>t DEF TestInv
<1>2. CASE ReleaseOut(p)
  <2> DEFINE b == IF left[p] > 1 THEN "acquire" ELSE IF p = 0 THEN "wait" ELSE "ended"
  <2>1. b \in Pcs /\ Goto(p, b) BY <1>2 DEF ReleaseOut, Pcs
  <2>2. \A q \in Procs : pc'[q] = IF q = p THEN b ELSE pc[q]
    BY <2>1, <1>t, GoneTo
  <2>3. \A q \in Procs : left'[q] = IF q = p THEN left[q] - 1 ELSE left[q]
    BY <1>2, <1>t DEF ReleaseOut, TypeOK
  <2>4. left[p] \in Nat /\ created' = created /\ pc[p] = "release_out"
    BY <1>2, <1>t DEF ReleaseOut, TypeOK, test
  <2>5. ASSUME NEW q \in Procs, q > created' PROVE pc'[q] = "none"
    BY <2>2, <2>4, <2>5, <1>t DEF TestInv
  <2>6. ASSUME NEW q \in Procs, pc'[q] \notin {"wait", "ended", "reaped"} PROVE left'[q] > 0
    <3>1. CASE q = p BY <3>1, <2>2, <2>3, <2>4, <2>6
    <3>2. CASE q # p BY <3>2, <2>2, <2>3, <2>6, <1>t DEF TestInv
    <3> QED BY <3>1, <3>2
  <2> QED BY <2>5, <2>6 DEF TestInv
<1>3. CASE AcquireIn(p) \/ AcquireOut(p)
  BY <1>3, <1>1 DEF AcquireIn, AcquireOut, Acquire, Pcs, test
<1>4. CASE ReleaseWait(p) \/ ReleaseIn(p)
  BY <1>4, <1>1 DEF ReleaseWait, ReleaseIn, Release, Pcs, test
<1>5. CASE Enter(p) BY <1>5, <1>1 DEF Enter, Pcs, test
<1>6. CASE Push(p) BY <1>6, <1>1 DEF Push, Pcs, test
<1>7. CASE Suspend(p) BY <1>7, <1>1 DEF Suspend, Pcs, test
<1>8. CASE Critical(p) BY <1>8, <1>1 DEF Critical, Pcs, test
<1>9. CASE Leave(p) BY <1>9, <1>1 DEF Leave, Pcs, test
<1>10. CASE Kill(p) BY <1>10, <1>1 DEF Kill, Pcs, test
<1>11. CASE Pop(p) BY <1>11, <1>1 DEF Pop, Pcs, test
<1> QED BY <1>2, <1>3, <1>4, <1>5, <1>6, <1>7, <1>8, <1>9, <1>10, <1>11 DEF Pass
-----------------------------------------------------------------------------
(* The steps that move the units and the ring *)

(* Whoever has the spinlock is alone in it *)
LEMMA AloneInLock ==
    ASSUME IInv, NEW p \in InLock
    PROVE  /\ pc[p] # "push" => Pushing = {}
           /\ pc[p] # "kill" => AtKill = {}
           /\ pc[p] # "pop" => AtPop = {}
           /\ pc[p] = "push" => Pushing = {p}
           /\ pc[p] = "kill" => AtKill = {p}
           /\ pc[p] = "pop" => AtPop = {p}
BY DEF IInv, SpinlockInv, InLock, Locked, Pushing, AtKill, AtPop

LEMMA One01 ==
    /\ One({}) = 0
    /\ \A p : One({p}) = 1
BY DEF One

LEMMA EnterStep ==
    ASSUME IInv, NEW p \in Procs, Enter(p)
    PROVE  RingInv' /\ UnitsInv'
<1>i. TypeOK /\ RingInv /\ UnitsInv BY DEF IInv
<1> DEFINE l == IF Full(count') THEN "push" ELSE "release_in"
<1>1. \A q \in Procs : pc'[q] = IF q = p THEN l ELSE pc[q]
  <2>1. l \in Pcs /\ Goto(p, l) BY DEF Enter, Pcs
  <2> QED BY <2>1, <1>i, GoneTo
<1>2. pc[p] = "enter" /\ p \in InLock BY DEF Enter, InLock, Locked
<1>3. Pushing = {} /\ AtKill = {} /\ AtPop = {} BY <1>2, AloneInLock
<1>4. UNCHANGED <<items, size, first, pending>> /\ count' = count - 1 /\ count \in Int
  BY <1>i DEF Enter, queue, TypeOK
<1>5. Waiting' = Waiting BY <1>1, <1>2 DEF Waiting
<1>6. Unwoken' = Unwoken BY <1>5, <1>4 DEF Unwoken
<1>7. AtKill' = {} /\ AtPop' = {} BY <1>1, <1>3 DEF AtKill, AtPop
<1>8. RingInv' BY <1>3, <1>4, <1>6, <1>7, <1>i DEF RingInv, Entries, Entry
<1>9. count = Units - Cardinality(Holding) - Cardinality(Unwoken)
  BY <1>i, <1>3, One01, Sizes, UnitsAssumption DEF UnitsInv
<1>10. CASE count' < 0
  <2>1. Pushing' = {p} BY <1>1, <1>3, <1>10 DEF Pushing, Full
  <2>2. Inside' = Inside BY <1>1, <1>2, <1>10 DEF Inside, Full
  <2>3. Holding' = Holding BY <2>2, <1>4, <1>5 DEF Holding
  <2>4. Cardinality(Holding) = Units
    BY <1>i, <1>3, <1>4, <1>9, <1>10, One01, Sizes, UnitsAssumption DEF UnitsInv
  <2>5. /\ pending' \subseteq Waiting' /\ Cardinality(Holding') = Units
        /\ Cardinality(Unwoken') = Cardinality(Unwoken)
        /\ One(Pushing') = 1 /\ One(AtKill') = 0
    BY <2>1, <2>3, <2>4, <1>i, <1>4, <1>5, <1>6, <1>7, One01 DEF UnitsInv
  <2>6. count' = Units - Units - Cardinality(Unwoken) - 1
    BY <1>4, <1>9, <2>4, Sizes, UnitsAssumption
  <2> QED BY <1>8, <2>5, <2>6, <2>1, <1>6, <1>7, Sizes, UnitsAssumption DEF UnitsInv
<1>11. CASE ~(count' < 0)
  <2>1. Pushing' = {} BY <1>1, <1>3, <1>11 DEF Pushing, Full
  <2>2. Holding' = Holding \cup {p} BY <1>1, <1>2, <1>4, <1>5, <1>11 DEF Holding, Inside, Full
  <2>3. p \notin Holding BY <1>2 DEF Holding, Inside, Waiting
  <2>4. Cardinality(Holding') = Cardinality(Holding) + 1
    BY <2>2, <2>3, Sizes, FS_AddElement
  <2>5. Unwoken = {}
    BY <1>i, <1>3, <1>4, <1>9, <1>11, One01, Sizes, UnitsAssumption DEF UnitsInv
  <2>6. /\ pending' \subseteq Waiting' /\ Unwoken' = {} /\ Cardinality(Unwoken') = 0
        /\ One(Pushing') = 0 /\ One(AtKill') = 0
    BY <2>1, <2>5, <1>i, <1>4, <1>5, <1>6, <1>7, One01, Sizes DEF UnitsInv
  <2>7. /\ count' = Units - (Cardinality(Holding) + 1) - 0 - 0
        /\ Cardinality(Holding) + 1 + 0 <= Units
    BY <1>4, <1>9, <1>11, <2>5, Sizes, UnitsAssumption
  <2> QED BY <1>8, <2>4, <2>6, <2>7, <2>1, <1>7, Sizes, UnitsAssumption DEF UnitsInv
<1> QED BY <1>8, <1>10, <1>11

LEMMA LeaveStep ==
    ASSUME IInv, NEW p \in Procs, Leave(p)
    PROVE  RingInv' /\ UnitsInv'
<1>i. TypeOK /\ RingInv /\ UnitsInv BY DEF IInv
<1> DEFINE l == IF SomeWait(count') THEN "kill" ELSE "release_out"
<1>1. \A q \in Procs : pc'[q] = IF q = p THEN l ELSE pc[q]
  <2>1. l \in Pcs /\ Goto(p, l) BY DEF Leave, Pcs
  <2> QED BY <2>1, <1>i, GoneTo
<1>2. pc[p] = "leave" /\ p \in InLock BY DEF Leave, InLock, Locked
<1>3. Pushing = {} /\ AtKill = {} /\ AtPop = {} BY <1>2, AloneInLock
<1>4. UNCHANGED <<items, size, first, pending>> /\ count' = count + 1 /\ count \in Int
  BY <1>i DEF Leave, queue, TypeOK
<1>5. Waiting' = Waiting BY <1>1, <1>2 DEF Waiting
<1>6. Unwoken' = Unwoken BY <1>5, <1>4 DEF Unwoken
<1>7. Pushing' = {} /\ AtPop' = {} BY <1>1, <1>3 DEF Pushing, AtPop
<1>8. RingInv' BY <1>3, <1>4, <1>6, <1>7, <1>i DEF RingInv, Entries, Entry
<1>9. Holding' = Holding \ {p}
  BY <1>1, <1>2, <1>4, <1>5 DEF Holding, Inside, Waiting
<1>10. p \in Holding BY <1>2 DEF Holding, Inside
<1>11. Cardinality(Holding') = Cardinality(Holding) - 1
  BY <1>9, <1>10, Sizes, FS_RemoveElement
<1>12. count = Units - Cardinality(Holding) - Cardinality(Unwoken)
  BY <1>i, <1>3, One01, Sizes, UnitsAssumption DEF UnitsInv
<1>13. /\ Cardinality(Holding) <= Units
       /\ Unwoken # {} => Cardinality(Holding) = Units
  BY <1>i, <1>3, One01, Sizes, UnitsAssumption DEF UnitsInv
<1>14. CASE count' <= 0
  <2>1. AtKill' = {p} BY <1>1, <1>3, <1>14 DEF AtKill, SomeWait
  <2>2. Unwoken # {}
    BY <1>4, <1>12, <1>13, <1>14, Sizes, UnitsAssumption
  <2>3. /\ pending' \subseteq Waiting' /\ One(Pushing') = 0 /\ One(AtKill') = 1
        /\ Cardinality(Unwoken') = Cardinality(Unwoken)
    BY <2>1, <1>i, <1>4, <1>5, <1>6, <1>7, One01 DEF UnitsInv
  <2>4. /\ Cardinality(Holding) - 1 = Units - 1
        /\ count' = Units - (Units - 1) - Cardinality(Unwoken) - 0
    BY <1>4, <1>12, <1>13, <2>2, Sizes, UnitsAssumption
  <2> QED BY <1>8, <2>1, <2>2, <2>3, <2>4, <1>6, <1>7, <1>11, Sizes, UnitsAssumption DEF UnitsInv
<1>15. CASE ~(count' <= 0)
  <2>1. AtKill' = {} BY <1>1, <1>3, <1>15 DEF AtKill, SomeWait
  <2>2. Unwoken = {}
    BY <1>4, <1>12, <1>13, <1>15, Sizes, UnitsAssumption
  <2>3. /\ pending' \subseteq Waiting' /\ Unwoken' = {} /\ Cardinality(Unwoken') = 0
        /\ One(Pushing') = 0 /\ One(AtKill') = 0
    BY <2>1, <2>2, <1>i, <1>4, <1>5, <1>6, <1>7, One01, Sizes DEF UnitsInv
  <2>4. /\ Cardinality(Holding) - 1 \in Nat
        /\ count' = Units - (Cardinality(Holding) - 1) - 0 - 0
        /\ Cardinality(Holding) - 1 + 0 <= Units
    BY <1>4, <1>10, <1>12, <1>13, <2>2, Sizes, UnitsAssumption
  <2> QED BY <1>8, <2>1, <2>3, <2>4, <1>7, <1>11, UnitsAssumption DEF UnitsInv
<1> QED BY <1>8, <1>14, <1>15

(* Who must push finds a free slot: the units are all held by others, so    *)
(* at most PROC_COUNT - 1 processes can be in the ring                      *)
LEMMA Room ==
    ASSUME IInv, NEW p \in Procs, pc[p] = "push"
    PROVE  size < QUEUE_MAX_ITEMS /\ AtPop = {} /\ AtKill = {} /\ Pushing = {p}
<1>i. TypeOK /\ RingInv /\ UnitsInv BY DEF IInv
<1>1. AtPop = {} /\ AtKill = {} /\ Pushing = {p}
  <2>1. p \in InLock BY DEF InLock, Locked
  <2> QED BY <2>1, AloneInLock
<1>2. Cardinality(Holding) = Units BY <1>1, <1>i, One01, Sizes, UnitsAssumption DEF UnitsInv
<1>3. p \notin Holding \cup Unwoken BY DEF Holding, Inside, Unwoken, Waiting
<1>4. Holding \cap Unwoken = {} BY DEF Holding, Inside, Unwoken, Waiting
<1>5. /\ IsFiniteSet(Holding \cup Unwoken)
      /\ Cardinality(Holding \cup Unwoken) = Units + Cardinality(Unwoken)
  BY <1>2, <1>4, Sizes, FS_Union, FS_EmptySet, UnitsAssumption
<1>6. Cardinality((Holding \cup Unwoken) \cup {p}) = Units + Cardinality(Unwoken) + 1
  BY <1>3, <1>5, FS_AddElement
<1>7. Cardinality((Holding \cup Unwoken) \cup {p}) <= PROC_COUNT + 1
  <2>1. (Holding \cup Unwoken) \cup {p} \in SUBSET Procs
    BY DEF Holding, Inside, Unwoken, Waiting
  <2> QED BY <2>1, ProcsFinite, FS_Subset
<1>8. size = Cardinality(Unwoken) BY <1>i, <1>1, One01, Sizes DEF RingInv
<1> QED BY <1>1, <1>6, <1>7, <1>8, Sizes, CountAssumption, UnitsAssumption, RingAssumption

LEMMA PushStep ==
    ASSUME IInv, NEW p \in Procs, Push(p)
    PROVE  RingInv' /\ UnitsInv'
<1>i. TypeOK /\ RingInv /\ UnitsInv BY DEF IInv
<1>1. \A q \in Procs : pc'[q] = IF q = p THEN "release_wait" ELSE pc[q]
  BY <1>i, GoneTo DEF Push, Pcs
<1>2. pc[p] = "push" BY DEF Push
<1>3. /\ size < QUEUE_MAX_ITEMS /\ AtPop = {} /\ AtKill = {} /\ Pushing = {p}
      /\ size \in Nat /\ first \in Slots
  BY <1>2, <1>i, Room, RingAssumption DEF TypeOK
<1>4. UNCHANGED <<count, first, pending>> /\ size' = size + 1 /\ count \in Int
  BY <1>i DEF Push, TypeOK
<1>5. Waiting' = Waiting \cup {p} BY <1>1, <1>2 DEF Waiting
<1>6. p \notin Waiting BY <1>2 DEF Waiting
<1>7. Unwoken' = Unwoken \cup {p} BY <1>4, <1>5, <1>6, <1>i DEF Unwoken, UnitsInv
<1>8. Pushing' = {} BY <1>1, <1>3 DEF Pushing
<1>9. AtKill' = {} /\ AtPop' = {} BY <1>1, <1>3 DEF AtKill, AtPop
<1>10. Inside' = Inside BY <1>1, <1>2 DEF Inside
<1>11. Holding' = Holding BY <1>4, <1>5, <1>6, <1>10, <1>i DEF Holding, UnitsInv
<1>12. Cardinality(Unwoken') = Cardinality(Unwoken) + 1
  <2>1. p \notin Unwoken BY <1>6 DEF Unwoken
  <2> QED BY <2>1, <1>7, Sizes, FS_AddElement
<1>13. Entries = 0 .. size - 1 /\ Entries' = 0 .. size
  <2>1. One(AtPop) = 0 /\ One(AtPop') = 0 BY <1>3, <1>9, One01
  <2>2. size' - 1 = size BY <1>3, <1>4
  <2> QED BY <2>1, <2>2 DEF Entries
<1>14. ASSUME NEW i \in Entries' PROVE Entry(i)' = IF i = size THEN p ELSE Entry(i)
  <2>1. i \in Nat /\ i < QUEUE_MAX_ITEMS BY <1>3, <1>13, RingAssumption
  <2>2. (first + i) % QUEUE_MAX_ITEMS \in Slots
    BY <2>1, <1>3, RingIndex DEF Slots
  <2>3. Entry(i)' = IF (first + i) % QUEUE_MAX_ITEMS = LastIndex THEN p
                    ELSE items[(first + i) % QUEUE_MAX_ITEMS]
    BY <2>2, <1>4, <1>i DEF Push, Entry, TypeOK
  <2>4. (first + i) % QUEUE_MAX_ITEMS = LastIndex <=> i = size
    BY <2>1, <1>3, RingDistinct DEF LastIndex
  <2> QED BY <2>3, <2>4 DEF Entry
<1>15. RingInv'
  <2>1. ASSUME NEW i \in Entries' PROVE Entry(i)' \in Unwoken'
    BY <1>7, <1>13, <1>14, <1>3, <1>i DEF RingInv
  <2>2. ASSUME NEW i \in Entries', NEW j \in Entries', Entry(i)' = Entry(j)' PROVE i = j
    <3>1. p \notin Unwoken BY <1>6 DEF Unwoken
    <3>2. \A k \in Entries' : k # size => k \in Entries BY <1>3, <1>13
    <3> QED BY <2>2, <3>1, <3>2, <1>14, <1>i DEF RingInv
  <2>3. ASSUME NEW q \in Unwoken' PROVE \E i \in Entries' : Entry(i)' = q
    <3>1. CASE q = p BY <3>1, <1>3, <1>13, <1>14
    <3>2. CASE q # p
      <4>1. PICK i \in Entries : Entry(i) = q BY <3>2, <1>7, <1>i DEF RingInv
      <4>2. i \in Entries' /\ i # size BY <1>3, <1>13
      <4> QED BY <4>1, <4>2, <1>14
    <3> QED BY <3>1, <3>2
  <2>4. size' = Cardinality(Unwoken') + One(AtPop')
    BY <1>3, <1>4, <1>9, <1>12, <1>i, One01, Sizes DEF RingInv
  <2> QED BY <2>1, <2>2, <2>3, <2>4 DEF RingInv
<1>16. UnitsInv'
  <2>1. /\ Cardinality(Holding) + 0 = Units
        /\ count = Units - Cardinality(Holding) - Cardinality(Unwoken) - 1
    BY <1>i, <1>3, One01, Sizes, UnitsAssumption DEF UnitsInv
  <2>2. /\ pending' \subseteq Waiting'
        /\ One(Pushing') = 0 /\ One(AtKill') = 0
    BY <1>4, <1>5, <1>8, <1>9, <1>i, One01 DEF UnitsInv
  <2> QED BY <2>1, <2>2, <1>4, <1>9, <1>11, <1>12, Sizes, UnitsAssumption DEF UnitsInv
<1> QED BY <1>15, <1>16

(* The front of the ring when somebody is about to be woken *)
LEMMA Front ==
    ASSUME IInv, NEW p \in Procs, pc[p] = "kill"
    PROVE  /\ AtKill = {p} /\ AtPop = {} /\ Pushing = {}
           /\ size > 0 /\ 0 \in Entries
           /\ items[first] \in Unwoken /\ Entry(0) = items[first]
<1>i. TypeOK /\ RingInv /\ UnitsInv BY DEF IInv
<1>1. AtKill = {p} /\ AtPop = {} /\ Pushing = {}
  <2>1. p \in InLock BY DEF InLock, Locked
  <2> QED BY <2>1, AloneInLock
<1>2. Cardinality(Unwoken) > 0 BY <1>1, <1>i, Sizes DEF UnitsInv
<1>3. size > 0 /\ size \in Nat BY <1>1, <1>2, <1>i, One01, Sizes DEF RingInv, TypeOK
<1>4. Entry(0) = items[first] BY <1>i, RingFirst DEF Entry, TypeOK
<1>5. 0 \in Entries BY <1>1, <1>3, One01 DEF Entries
<1> QED BY <1>1, <1>3, <1>4, <1>5, <1>i DEF RingInv

LEMMA KillStep ==
    ASSUME IInv, NEW p \in Procs, Kill(p)
    PROVE  RingInv' /\ UnitsInv'
<1>i. TypeOK /\ RingInv /\ UnitsInv BY DEF IInv
<1> DEFINE q == items[first]
<1>1. \A r \in Procs : pc'[r] = IF r = p THEN "pop" ELSE pc[r]
  BY <1>i, GoneTo DEF Kill, Pcs
<1>2. pc[p] = "kill" BY DEF Kill
<1>3. /\ AtKill = {p} /\ AtPop = {} /\ Pushing = {} /\ 0 \in Entries
      /\ q \in Unwoken /\ Entry(0) = q
  BY <1>2, Front
<1>4. UNCHANGED <<count, items, size, first>> /\ pending' = pending \cup {q}
  BY DEF Kill, queue
<1>5. Waiting' = Waiting BY <1>1, <1>2 DEF Waiting
<1>6. Inside' = Inside BY <1>1, <1>2 DEF Inside
<1>7. Pushing' = {} /\ AtKill' = {} /\ AtPop' = {p}
  BY <1>1, <1>3 DEF Pushing, AtKill, AtPop
<1>8. q \in Waiting /\ q \notin Holding BY <1>3 DEF Unwoken, Waiting, Holding, Inside
<1>9. Unwoken' = Unwoken \ {q} BY <1>4, <1>5 DEF Unwoken
<1>10. Holding' = Holding \cup {q} BY <1>4, <1>5, <1>6, <1>8 DEF Holding
<1>11. /\ Cardinality(Unwoken') = Cardinality(Unwoken) - 1
       /\ Cardinality(Holding') = Cardinality(Holding) + 1
  BY <1>3, <1>8, <1>9, <1>10, Sizes, FS_AddElement, FS_RemoveElement
<1>12. Entries = 0 .. size - 1 /\ Entries' = 1 .. size - 1 /\ size \in Nat
  <2>1. One(AtPop) = 0 /\ One(AtPop') = 1 BY <1>3, <1>7, One01
  <2> QED BY <2>1, <1>4, <1>i DEF Entries, TypeOK
<1>13. \A i : Entry(i)' = Entry(i) BY <1>4 DEF Entry
<1>14. RingInv'
  <2>1. ASSUME NEW i \in Entries' PROVE Entry(i) \in Unwoken'
    <3>1. i \in Entries /\ i # 0 BY <1>12
    <3> QED BY <3>1, <1>3, <1>9, <1>i DEF RingInv
  <2>2. ASSUME NEW i \in Entries', NEW j \in Entries', Entry(i) = Entry(j) PROVE i = j
    <3>1. i \in Entries /\ j \in Entries BY <1>12
    <3> QED BY <3>1, <2>2, <1>i DEF RingInv
  <2>3. ASSUME NEW r \in Unwoken' PROVE \E i \in Entries' : Entry(i) = r
    <3>1. PICK i \in Entries : Entry(i) = r BY <1>9, <1>i DEF RingInv
    <3>2. i # 0 BY <3>1, <1>3, <1>9
    <3>3. i \in Entries' BY <3>2, <1>12
    <3> QED BY <3>1, <3>3
  <2>4. size' = Cardinality(Unwoken') + One(AtPop')
    <3>1. One(AtPop) = 0 /\ One(AtPop') = 1 BY <1>3, <1>7, One01
    <3> QED BY <3>1, <1>4, <1>11, <1>i, Sizes DEF RingInv
  <2> QED BY <2>1, <2>2, <2>3, <2>4, <1>13 DEF RingInv
<1>15. UnitsInv'
  <2>1. /\ One(Pushing) = 0 /\ One(AtKill) = 1 /\ One(Pushing') = 0 /\ One(AtKill') = 0
        /\ pending' \subseteq Waiting'
    BY <1>3, <1>4, <1>5, <1>7, <1>8, <1>i, One01 DEF UnitsInv
  <2>2. /\ Cardinality(Holding) + 1 = Units
        /\ count = Units - Cardinality(Holding) - Cardinality(Unwoken) - 0
    BY <2>1, <1>3, <1>i DEF UnitsInv
  <2> QED BY <2>1, <2>2, <1>4, <1>7, <1>11, Sizes, UnitsAssumption DEF UnitsInv
<1> QED BY <1>14, <1>15

LEMMA PopStep ==
    ASSUME IInv, NEW p \in Procs, Pop(p)
    PROVE  RingInv' /\ UnitsInv'
<1>i. TypeOK /\ RingInv /\ UnitsInv BY DEF IInv
<1>1. \A r \in Procs : pc'[r] = IF r = p THEN "release_out" ELSE pc[r]
  BY <1>i, GoneTo DEF Pop, Pcs
<1>2. pc[p] = "pop" /\ p \in InLock BY DEF Pop, InLock, Locked
<1>3. AtPop = {p} /\ AtKill = {} /\ Pushing = {} BY <1>2, AloneInLock
<1>4. /\ UNCHANGED <<count, items, pending>>
      /\ first' = (first + 1) % QUEUE_MAX_ITEMS /\ size' = size - 1
  BY DEF Pop, NextIndex
<1>5. Waiting' = Waiting /\ Inside' = Inside BY <1>1, <1>2 DEF Waiting, Inside
<1>6. Pushing' = {} /\ AtKill' = {} /\ AtPop' = {}
  BY <1>1, <1>3 DEF Pushing, AtKill, AtPop
<1>7. Unwoken' = Unwoken /\ Holding' = Holding BY <1>4, <1>5 DEF Unwoken, Holding
<1>8. /\ Entries = 1 .. size - 1 /\ Entries' = 0 .. size - 2
      /\ size \in Nat /\ size <= QUEUE_MAX_ITEMS /\ first \in Slots
  <2>1. One(AtPop) = 1 /\ One(AtPop') = 0 BY <1>3, <1>6, One01
  <2>2. size \in Nat /\ size <= QUEUE_MAX_ITEMS /\ first \in Slots
    BY <1>i, RingAssumption DEF TypeOK
  <2> QED BY <2>1, <2>2, <1>4 DEF Entries
<1>9. ASSUME NEW i \in Entries' PROVE i + 1 \in Entries /\ Entry(i)' = Entry(i + 1)
  <2>1. i \in Nat /\ i < QUEUE_MAX_ITEMS /\ i + 1 \in Entries BY <1>8, RingAssumption
  <2> QED BY <2>1, <1>4, <1>8, RingNext DEF Entry
<1>10. RingInv'
  <2>1. ASSUME NEW i \in Entries' PROVE Entry(i)' \in Unwoken'
    BY <1>7, <1>9, <1>i DEF RingInv
  <2>2. ASSUME NEW i \in Entries', NEW j \in Entries', Entry(i)' = Entry(j)' PROVE i = j
    <3>1. i + 1 = j + 1 BY <2>2, <1>9, <1>i DEF RingInv
    <3> QED BY <3>1, <1>8
  <2>3. ASSUME NEW r \in Unwoken' PROVE \E i \in Entries' : Entry(i)' = r
    <3>1. PICK j \in Entries : Entry(j) = r BY <1>7, <1>i DEF RingInv
    <3>2. j - 1 \in Entries' /\ (j - 1) + 1 = j BY <1>8
    <3> QED BY <3>1, <3>2, <1>9
  <2>4. size' = Cardinality(Unwoken') + One(AtPop')
    <3>1. One(AtPop) = 1 /\ One(AtPop') = 0 BY <1>3, <1>6, One01
    <3> QED BY <3>1, <1>4, <1>7, <1>i, Sizes DEF RingInv
  <2> QED BY <2>1, <2>2, <2>3, <2>4 DEF RingInv
<1>11. UnitsInv' BY <1>3, <1>4, <1>5, <1>6, <1>7, <1>i DEF UnitsInv
<1> QED BY <1>10, <1>11

(* The signal that wakes p is its unit *)
LEMMA SuspendStep ==
    ASSUME IInv, NEW p \in Procs, Suspend(p)
    PROVE  RingInv' /\ UnitsInv'
<1>i. TypeOK /\ UnitsInv BY DEF IInv
<1>1. \A r \in Procs : pc'[r] = IF r = p THEN "critical" ELSE pc[r]
  BY <1>i, GoneTo DEF Suspend, Pcs
<1>2. /\ pc[p] = "suspend" /\ p \in pending /\ pending' = pending \ {p}
      /\ UNCHANGED <<count, items, size, first>>
  BY DEF Suspend, Resumed, queue
<1>3. Waiting' = Waiting \ {p} /\ p \in Waiting BY <1>1, <1>2 DEF Waiting
<1>4. Inside' = Inside \cup {p} BY <1>1, <1>2 DEF Inside
<1>5. Holding' = Holding /\ Unwoken' = Unwoken /\ pending' \subseteq Waiting'
  BY <1>2, <1>3, <1>4, <1>i DEF Holding, Unwoken, UnitsInv
<1>6. Pushing' = Pushing /\ AtKill' = AtKill /\ AtPop' = AtPop
  BY <1>1, <1>2 DEF Pushing, AtKill, AtPop
<1> QED BY <1>2, <1>5, <1>6, QuietStep DEF Quiet, IInv

LEMMA UnitsPass ==
    ASSUME IInv, NEW p \in Procs, Pass(p)
    PROVE  RingInv' /\ UnitsInv'
<1> USE DEF InsidePcs, WaitingPcs, Pcs, queue
<1>1. CASE AcquireIn(p) BY <1>1, QuietMove DEF AcquireIn, Acquire
<1>2. CASE AcquireOut(p) BY <1>2, QuietMove DEF AcquireOut, Acquire
<1>3. CASE ReleaseWait(p) BY <1>3, QuietMove DEF ReleaseWait, Release
<1>4. CASE ReleaseIn(p) BY <1>4, QuietMove DEF ReleaseIn, Release
<1>5. CASE Critical(p) BY <1>5, QuietMove DEF Critical
<1>6. CASE ReleaseOut(p)
  <2> DEFINE b == IF left[p] > 1 THEN "acquire" ELSE IF p = 0 THEN "wait" ELSE "ended"
  <2>1. b \in {"acquire", "wait", "ended"} /\ Goto(p, b) BY <1>6 DEF ReleaseOut
  <2>2. pc[p] = "release_out" /\ UNCHANGED <<pending, count, items, size, first>>
    BY <1>6 DEF ReleaseOut
  <2> HIDE DEF b
  <2> QED BY <2>1, <2>2, QuietMove
<1> QED BY <1>1, <1>2, <1>3, <1>4, <1>5, <1>6, EnterStep, PushStep, SuspendStep, LeaveStep,
           KillStep, PopStep DEF Pass

CountRange == count <= Units /\ count >= -PROC_COUNT

LEMMA CountInRange == UnitsInv => CountRange
<1> SUFFICES ASSUME UnitsInv PROVE CountRange
  OBVIOUS
<1> DEFINE Some == Holding \cup Unwoken
<1>1. Holding \cap Unwoken = {} BY DEF Holding, Inside, Unwoken, Waiting
<1>2. /\ IsFiniteSet(Some)
      /\ Cardinality(Some) = Cardinality(Holding) + Cardinality(Unwoken)
  BY <1>1, Sizes, FS_Union, FS_EmptySet
<1>3. Some \in SUBSET Procs BY DEF Holding, Inside, Unwoken, Waiting
<1>4. Cardinality(Some) + One(Pushing) <= PROC_COUNT + 1
  <2>1. CASE Pushing = {}
    <3>1. Cardinality(Some) <= PROC_COUNT + 1 BY <1>3, ProcsFinite, FS_Subset
    <3> QED BY <3>1, <2>1, <1>2, Sizes, One01, CountAssumption
  <2>2. CASE Pushing # {}
    <3>1. PICK p \in Procs : pc[p] = "push" BY <2>2 DEF Pushing
    <3>2. p \notin Some BY <3>1 DEF Holding, Inside, Unwoken, Waiting
    <3>3. Some \cup {p} \in SUBSET Procs BY <1>3
    <3>4. Cardinality(Some) + 1 <= PROC_COUNT + 1
      <4> HIDE DEF Some
      <4>1. Cardinality(Some \cup {p}) = Cardinality(Some) + 1
        BY <3>2, <1>2, FS_AddElement
      <4>2. Cardinality(Some \cup {p}) <= PROC_COUNT + 1
        BY <3>3, ProcsFinite, FS_Subset
      <4> QED BY <4>1, <4>2
    <3> QED BY <3>4, <2>2 DEF One
  <2> QED BY <2>1, <2>2
<1>5. One(Pushing) \in {0, 1} BY DEF One
<1> HIDE DEF Some
<1> QED BY <1>2, <1>4, <1>5, Sizes, UnitsAssumption, CountAssumption DEF UnitsInv, CountRange

LEMMA TypePass ==
    ASSUME IInv, NEW p \in Procs, Pass(p)
    PROVE  TypeOK'
<1>i. TypeOK /\ RingInv /\ UnitsInv BY DEF IInv
<1>1. pc' \in [Procs -> Pcs]
  BY <1>i DEF TypeOK, Pass, AcquireIn, Enter, Push, ReleaseWait, Suspend, ReleaseIn, Critical,
              AcquireOut, Leave, Kill, Pop, ReleaseOut, Acquire, Release, Goto, Pcs
<1>2. lock' \in BOOLEAN /\ UNCHANGED test
  BY <1>i DEF TypeOK, Pass, AcquireIn, Enter, Push, ReleaseWait, Suspend, ReleaseIn, Critical,
              AcquireOut, Leave, Kill, Pop, ReleaseOut, Acquire, Release
<1>3. count' \in Int
  BY <1>i DEF TypeOK, Pass, AcquireIn, Enter, Push, ReleaseWait, Suspend, ReleaseIn, Critical,
              AcquireOut, Leave, Kill, Pop, ReleaseOut, Acquire, Release
<1>4. /\ items' \in [Slots -> Procs \cup {-1}] /\ size' \in 0 .. QUEUE_MAX_ITEMS
      /\ first' \in Slots /\ pending' \in SUBSET Procs
  <2>1. CASE Push(p)
    <3>1. size < QUEUE_MAX_ITEMS BY <2>1, Room DEF Push
    <3>2. size' \in 0 .. QUEUE_MAX_ITEMS
      BY <3>1, <2>1, <1>i, RingAssumption DEF Push, TypeOK
    <3>3. items' \in [Slots -> Procs \cup {-1}] BY <2>1, <1>i DEF Push, TypeOK
    <3> QED BY <3>2, <3>3, <2>1, <1>i DEF Push, TypeOK
  <2>2. CASE Kill(p)
    <3>1. items[first] \in Procs BY <2>2, Front DEF Kill, Unwoken, Waiting
    <3> QED BY <3>1, <2>2, <1>i DEF Kill, TypeOK, queue
  <2>3. CASE Pop(p)
    <3>1. p \in AtPop BY <2>3 DEF Pop, AtPop
    <3>2. size > 0 BY <3>1, <1>i, Sizes DEF RingInv, One
    <3>3. first' \in Slots
      <4>1. first + 1 \in Nat BY <1>i DEF TypeOK, Slots
      <4> QED BY <4>1, <2>3, RingIndex DEF Pop, NextIndex
    <3> QED BY <3>2, <3>3, <2>3, <1>i, RingAssumption DEF Pop, TypeOK
  <2>4. CASE Suspend(p) BY <2>4, <1>i DEF Suspend, TypeOK, queue
  <2>5. CASE ~(Push(p) \/ Kill(p) \/ Pop(p) \/ Suspend(p))
    <3>1. UNCHANGED <<items, size, first, pending>>
      BY <2>5 DEF Pass, AcquireIn, Enter, ReleaseWait, ReleaseIn, Critical, AcquireOut, Leave,
                  ReleaseOut, Acquire, Release, queue
    <3> QED BY <3>1, <1>i DEF TypeOK
  <2> QED BY <2>1, <2>2, <2>3, <2>4, <2>5
<1>5. left' \in [Procs -> 0 .. ITERATIONS]
  <2>1. CASE ReleaseOut(p)
    <3>1. left[p] > 0 BY <2>1 DEF ReleaseOut, IInv, TestInv
    <3> QED BY <3>1, <2>1, <1>i, CountAssumption DEF ReleaseOut, TypeOK
  <2>2. CASE ~ReleaseOut(p)
    <3>1. left' = left
      BY <2>2 DEF Pass, AcquireIn, Enter, Push, ReleaseWait, Suspend, ReleaseIn, Critical,
                  AcquireOut, Leave, Kill, Pop, Acquire, Release
    <3> QED BY <3>1, <1>i DEF TypeOK
  <2> QED BY <2>1, <2>2
<1>6. count' <= Units /\ count' >= -PROC_COUNT
  <2>1. UnitsInv' => CountRange' BY CountInRange, PTL
  <2> QED BY <2>1, UnitsPass DEF CountRange
<1> QED BY <1>1, <1>2, <1>3, <1>4, <1>5, <1>6, <1>i DEF TypeOK, test

(* The steps of main outside its own passes move one process, or none,      *)
(* that is neither in the spinlock nor in the semaphore                     *)
LEMMA MainMove ==
    ASSUME IInv, NEW p \in Procs, NEW l \in Pcs, Goto(p, l),
           {pc[p], l} \subseteq {"none", "fork", "acquire", "wait", "ended", "reaped"},
           UNCHANGED <<lock, pending, count, items, size, first>>
    PROVE  SpinlockInv' /\ RingInv' /\ UnitsInv'
<1>1. \A q \in Procs : pc'[q] = IF q = p THEN l ELSE pc[q]
  BY GoneTo DEF IInv
<1>2. SpinlockInv' BY <1>1 DEF IInv, SpinlockInv, InLock, Locked
<1>3. RingInv' /\ UnitsInv' BY QuietMove DEF InsidePcs, WaitingPcs
<1> QED BY <1>2, <1>3

LEMMA IInvMain == IInv /\ Main => IInv'
<1> SUFFICES ASSUME IInv, Main PROVE IInv'
  OBVIOUS
<1>i. TypeOK /\ TestInv BY DEF IInv
<1>0. 0 \in Procs /\ PROC_COUNT \in Nat BY ProcsFinite, CountAssumption
<1>1. CASE Fork /\ created = PROC_COUNT
  <2>1. /\ pc[0] = "fork" /\ Goto(0, "acquire") /\ "acquire" \in Pcs
        /\ UNCHANGED <<lock, count, queue, pending, unreaped, released, left, created>>
    BY <1>1 DEF Fork, Pcs
  <2>2. \A q \in Procs : pc'[q] = IF q = 0 THEN "acquire" ELSE pc[q]
    BY <2>1, <1>0, <1>i, GoneTo
  <2>3. SpinlockInv' /\ RingInv' /\ UnitsInv'
    BY <2>1, <1>0, MainMove DEF queue
  <2>4. TestInv' BY <2>1, <2>2, <1>0, <1>i DEF TestInv
  <2>5. TypeOK' BY <2>1, <1>0, <1>i, GoneTo DEF TypeOK, queue
  <2> QED BY <2>3, <2>4, <2>5 DEF IInv
<1>2. CASE Fork /\ created # PROC_COUNT
  <2> DEFINE c == created + 1
  <2>1. /\ pc[0] = "fork" /\ Goto(c, "acquire") /\ "acquire" \in Pcs /\ created' = c
        /\ UNCHANGED <<lock, count, queue, pending, unreaped, released, left>>
    BY <1>2 DEF Fork, Goto, Pcs
  <2>2. c \in Procs /\ created \in Nat /\ c \in 0 .. PROC_COUNT
    BY <1>2, <1>0, <1>i DEF TypeOK, Procs
  <2>3. pc[c] = "none" BY <2>2, <1>i DEF TestInv
  <2>4. \A q \in Procs : pc'[q] = IF q = c THEN "acquire" ELSE pc[q]
    BY <2>1, <2>2, <1>i, GoneTo
  <2>5. SpinlockInv' /\ RingInv' /\ UnitsInv'
    BY <2>1, <2>2, <2>3, MainMove DEF queue
  <2>6. TestInv'
    <3>1. \A q \in Procs : q > created' => q > created /\ q # c
      BY <2>1, <2>2 DEF Procs
    <3> QED BY <3>1, <2>1, <2>2, <2>3, <2>4, <1>i DEF TestInv
  <2>7. TypeOK' BY <2>1, <2>2, <1>i, GoneTo DEF TypeOK, queue
  <2> QED BY <2>5, <2>6, <2>7 DEF IInv
<1>3. CASE Wait
  <2>1. PICK p \in Procs \ {0} : pc[p] = "ended" /\ Goto(p, "reaped")
    BY <1>3 DEF Wait
  <2>2. /\ unreaped' = unreaped - 1 /\ unreaped # 0 /\ "reaped" \in Pcs
        /\ UNCHANGED <<lock, count, queue, pending, created, released, left>>
    BY <1>3 DEF Wait, AllReaped, Pcs
  <2>3. \A q \in Procs : pc'[q] = IF q = p THEN "reaped" ELSE pc[q]
    BY <2>1, <2>2, <1>i, GoneTo
  <2>4. SpinlockInv' /\ RingInv' /\ UnitsInv'
    BY <2>1, <2>2, MainMove DEF queue
  <2>5. TestInv' BY <2>1, <2>2, <2>3, <1>i DEF TestInv
  <2>6. TypeOK'
    <3>1. unreaped' \in 0 .. PROC_COUNT BY <2>2, <1>0, <1>i DEF TypeOK
    <3> QED BY <3>1, <2>1, <2>2, <1>i, GoneTo DEF TypeOK, queue
  <2> QED BY <2>4, <2>5, <2>6 DEF IInv
<1>4. CASE ReleaseShared
  <2>1. /\ pc[0] = "wait" /\ Goto(0, "ended") /\ "ended" \in Pcs /\ released' = TRUE
        /\ UNCHANGED <<lock, count, queue, pending, created, unreaped, left>>
    BY <1>4 DEF ReleaseShared, Pcs
  <2>2. \A q \in Procs : pc'[q] = IF q = 0 THEN "ended" ELSE pc[q]
    BY <2>1, <1>0, <1>i, GoneTo
  <2>3. SpinlockInv' /\ RingInv' /\ UnitsInv'
    BY <2>1, <1>0, MainMove DEF queue
  <2>4. TestInv' BY <2>1, <2>2, <1>0, <1>i DEF TestInv
  <2>5. TypeOK' BY <2>1, <1>0, <1>i, GoneTo DEF TypeOK, queue
  <2> QED BY <2>3, <2>4, <2>5 DEF IInv
<1> QED BY <1>1, <1>2, <1>3, <1>4 DEF Main

LEMMA IInvNext == IInv /\ [Next]_vars => IInv'
<1> SUFFICES ASSUME IInv, [Next]_vars PROVE IInv'
  OBVIOUS
<1>1. CASE Main BY <1>1, IInvMain
<1>2. ASSUME NEW p \in Procs, Pass(p) PROVE IInv'
  BY <1>2, SpinlockPass, TestPass, UnitsPass, TypePass DEF IInv
<1>3. CASE UNCHANGED vars
  <2> USE <1>3 DEF vars, queue, test
  <2>1. TypeOK' BY DEF IInv, TypeOK
  <2>2. SpinlockInv' BY DEF IInv, SpinlockInv, InLock
  <2>3. TestInv' BY DEF IInv, TestInv
  <2>4. Quiet
    BY DEF IInv, UnitsInv, Quiet, Holding, Unwoken, Inside, Waiting, Pushing, AtKill, AtPop
  <2> QED BY <2>1, <2>2, <2>3, <2>4, QuietStep DEF IInv
<1> QED BY <1>1, <1>2, <1>3 DEF Next, Done
-----------------------------------------------------------------------------
LEMMA Inductive == Spec => []IInv
BY IInvInit, IInvNext, PTL DEF Spec

(* Every variable keeps its type: the count never goes above the units nor  *)
(* below minus the children, the ring's indices stay in the ring and nobody  *)
(* passes more often than it must.                                           *)
THEOREM TypeCorrect == Spec => []TypeOK
<1>1. IInv => TypeOK BY DEF IInv
<1> QED BY <1>1, Inductive, PTL

(* Between semaphore_lock and semaphore_unlock there are never more         *)
(* processes than units, for any number of them: the header's doubt (9-11)  *)
(* whether more than two processes may use it is settled by its spinlock.   *)
THEOREM MutualExclusion == Spec => []AtMostUnits
<1>1. IInv => AtMostUnits
  <2> SUFFICES ASSUME IInv PROVE AtMostUnits
    OBVIOUS
  <2>1. Cardinality(Holding) <= Units
    <3>1. One(AtKill) \in {0, 1} BY DEF One
    <3> QED BY <3>1, Sizes, UnitsAssumption DEF IInv, UnitsInv
  <2>2. Inside \in SUBSET Holding BY DEF Holding
  <2>3. Cardinality(Inside) <= Cardinality(Holding) /\ IsFiniteSet(Inside)
    BY <2>2, Sizes, FS_Subset
  <2>4. Cardinality(Inside) \in Nat BY <2>3, FS_CardinalityType
  <2> QED BY <2>1, <2>3, <2>4, Sizes, UnitsAssumption DEF AtMostUnits
<1> QED BY <1>1, Inductive, PTL

(* queue_push never meets a full ring if it has a slot for each process     *)
(* but one.                                                                  *)
THEOREM RingSuffices == Spec => []QueueHasRoom
<1>1. IInv => QueueHasRoom
  <2> SUFFICES ASSUME IInv, NEW p \in Procs, pc[p] = "push" PROVE size # QUEUE_MAX_ITEMS
    BY DEF QueueHasRoom
  <2>1. size < QUEUE_MAX_ITEMS BY Room
  <2> QED BY <2>1, RingAssumption DEF IInv, TypeOK
<1> QED BY <1>1, Inductive, PTL

(* Each SIGUSR1 goes to a process that waits and has not been woken, so     *)
(* that no two signals merge and none is sent in vain.                      *)
THEOREM SignalsArrive == Spec => []FrontWaits
<1>1. IInv => FrontWaits
  <2> SUFFICES ASSUME IInv, NEW p \in Procs, pc[p] = "kill"
               PROVE  /\ size > 0 /\ items[first] \in Procs \ pending
                      /\ pc[items[first]] \in {"release_wait", "suspend"}
    BY DEF FrontWaits
  <2>1. size > 0 /\ items[first] \in Unwoken BY Front
  <2> QED BY <2>1 DEF Unwoken, Waiting
<1> QED BY <1>1, Inductive, PTL
-----------------------------------------------------------------------------
(* CustomSemaphore implements Semaphore, for every value of its constants  *)

Pusher == CHOOSE p \in Pushing : TRUE
Served == IF AtKill = {} THEN {} ELSE {items[first]}   \* the front, handed a unit

(* The waiters are the entries of the ring, without the front while it is  *)
(* being woken, and then the one that is about to enter it                  *)
Shape ==
    /\ Queued \in Nat
    /\ waiters \in Seq(Procs)
    /\ Len(waiters) = Queued + One(Pushing)
    /\ \A i \in 1 .. Queued : Gone + (i - 1) \in Entries
    /\ \A i \in 1 .. Queued : waiters[i] = Entry(Gone + (i - 1))
    /\ Pushing # {} => waiters[Queued + 1] = Pusher

Hand ==
    /\ holders = Holding \cup Served
    /\ Fair!Waiting = (Unwoken \ Served) \cup Pushing

(* One process at most is past the count and before the ring, or hands over *)
LEMMA Counts ==
    ASSUME IInv
    PROVE  /\ size \in Nat /\ first \in Nat
           /\ Gone \in {0, 1} /\ Gone <= size
           /\ AtKill = {} => Gone = One(AtPop)
           /\ AtKill # {} => /\ Gone = 1 /\ One(AtPop) = 0 /\ size > 0
                             /\ Pushing = {} /\ Served \subseteq Unwoken
           /\ One(Pushing) \in {0, 1}
           /\ Cardinality(Pushing) = One(Pushing)
           /\ Pushing # {} => Pushing = {Pusher} /\ Pusher \in Procs
<1>i. TypeOK /\ SpinlockInv /\ RingInv BY DEF IInv
<1>1. size \in Nat /\ first \in Nat BY <1>i DEF TypeOK, Slots
<1>2. Handing = AtKill \cup AtPop BY DEF Handing, AtKill, AtPop
<1>3. size = Cardinality(Unwoken) + One(AtPop) BY <1>i DEF RingInv
<1>4. ASSUME AtKill = {} PROVE Gone = One(AtPop) /\ Gone \in {0, 1} /\ Gone <= size
  <2>1. Gone = One(AtPop) BY <1>2, <1>4 DEF Gone, One
  <2>2. One(AtPop) \in {0, 1} BY DEF One
  <2> QED BY <2>1, <2>2, <1>1, <1>3, Sizes
<1>5. ASSUME AtKill # {}
      PROVE  Gone = 1 /\ One(AtPop) = 0 /\ size > 0 /\ Pushing = {} /\ Served \subseteq Unwoken
  <2>1. PICK p \in Procs : pc[p] = "kill" BY <1>5 DEF AtKill
  <2>2. AtPop = {} /\ size > 0 /\ Pushing = {} /\ items[first] \in Unwoken BY <2>1, Front
  <2>3. Gone = 1 BY <1>2, <1>5 DEF Gone
  <2> QED BY <2>2, <2>3, One01 DEF Served
<1>6. One(Pushing) \in {0, 1} BY DEF One
<1>7. ASSUME Pushing # {} PROVE Pushing = {Pusher} /\ Pusher \in Procs
  <2>1. Pusher \in Pushing BY <1>7 DEF Pusher
  <2>2. \A p, q \in Pushing : p = q BY <1>i DEF Pushing, SpinlockInv, InLock, Locked
  <2> QED BY <2>1, <2>2 DEF Pushing
<1>8. Cardinality(Pushing) = One(Pushing)
  <2>1. CASE Pushing = {} BY <2>1, FS_EmptySet, One01
  <2>2. CASE Pushing # {} BY <2>2, <1>7, FS_Singleton, One01
  <2> QED BY <2>1, <2>2
<1>9. Gone \in {0, 1} /\ Gone <= size BY <1>1, <1>4, <1>5
<1> QED BY <1>1, <1>4, <1>5, <1>6, <1>7, <1>8, <1>9

LEMMA WaitersShape == IInv => Shape
<1> SUFFICES ASSUME IInv PROVE Shape
  OBVIOUS
<1> DEFINE n == Queued + One(Pushing)
<1>i. RingInv BY DEF IInv
<1>1. Queued \in Nat /\ n \in Nat BY Counts DEF Queued
<1>2. ASSUME NEW i \in 1 .. Queued
      PROVE  /\ Gone + (i - 1) \in Entries
             /\ items[(first + Gone + i - 1) % QUEUE_MAX_ITEMS] = Entry(Gone + (i - 1))
  <2>1. first + Gone + i - 1 = first + (Gone + (i - 1)) BY Counts
  <2>2. Gone + (i - 1) \in One(AtPop) .. size - 1 BY Counts, <1>1 DEF Queued
  <2> QED BY <2>1, <2>2 DEF Entry, Entries
<1>3. waiters = [i \in 1 .. n |-> IF i <= Queued THEN items[(first + Gone + i - 1) % QUEUE_MAX_ITEMS]
                                  ELSE Pusher]
  BY Counts DEF waiters, Pusher
<1>4. \A i \in 1 .. n : waiters[i] = IF i <= Queued THEN Entry(Gone + (i - 1)) ELSE Pusher
  BY <1>1, <1>2, <1>3
<1>5. \A i \in 1 .. n : waiters[i] \in Procs
  <2> SUFFICES ASSUME NEW i \in 1 .. n PROVE waiters[i] \in Procs
    OBVIOUS
  <2>1. CASE i <= Queued
    <3>1. Entry(Gone + (i - 1)) \in Unwoken BY <2>1, <1>1, <1>2, <1>i DEF RingInv
    <3> QED BY <3>1, <2>1, <1>4 DEF Unwoken, Waiting
  <2>2. CASE ~(i <= Queued)
    <3>1. Pushing # {} BY <2>2, <1>1, One01
    <3> QED BY <3>1, <2>2, <1>4, Counts
  <2> QED BY <2>1, <2>2
<1>6. waiters \in [1 .. n -> Procs] BY <1>3, <1>5
<1>7. waiters \in Seq(Procs) /\ Len(waiters) = n BY <1>1, <1>6, LenProperties
<1>8. \A i \in 1 .. Queued : i \in 1 .. n /\ i <= Queued BY <1>1, Counts
<1>9. Pushing # {} => /\ Queued + 1 \in 1 .. n /\ ~(Queued + 1 <= Queued)
  BY <1>1 DEF One
<1> QED BY <1>1, <1>2, <1>4, <1>7, <1>8, <1>9 DEF Shape

(* Who holds and who waits, as sets *)
LEMMA HandShape == IInv => Hand
<1> SUFFICES ASSUME IInv PROVE Hand
  OBVIOUS
<1> DEFINE Named == {waiters[i] : i \in DOMAIN waiters}
<1>i. RingInv /\ UnitsInv BY DEF IInv
<1>s. Shape BY WaitersShape
<1>1. DOMAIN waiters = 1 .. Queued + One(Pushing) BY <1>s, LenProperties DEF Shape
<1>2. ASSUME NEW r \in Unwoken \ Served PROVE r \in Named
  <2>1. PICK j \in Entries : Entry(j) = r BY <1>i DEF RingInv
  <2>2. j \in Int /\ Gone <= j /\ j <= size - 1
    <3>1. CASE AtKill = {} BY <3>1, Counts DEF Entries
    <3>2. CASE AtKill # {}
      <4>1. j \in 0 .. size - 1 BY <3>2, Counts DEF Entries
      <4>2. j # 0
        <5>1. PICK p \in Procs : pc[p] = "kill" BY <3>2 DEF AtKill
        <5>2. Entry(0) = items[first] BY <5>1, Front
        <5> QED BY <5>2, <2>1, <3>2 DEF Served
      <4> QED BY <4>1, <4>2, <3>2, Counts
    <3> QED BY <3>1, <3>2
  <2> DEFINE i == j - Gone + 1
  <2>3. i \in 1 .. Queued /\ Gone + (i - 1) = j BY <2>2, Counts DEF Queued
  <2>4. i \in DOMAIN waiters BY <2>3, <1>1, <1>s, Counts DEF Shape
  <2>5. waiters[i] = r BY <2>1, <2>3, <1>s DEF Shape
  <2> QED BY <2>4, <2>5
<1>3. ASSUME NEW r \in Pushing PROVE r \in Named
  <2>1. r = Pusher /\ Pushing # {} BY Counts
  <2>2. Queued + 1 \in DOMAIN waiters BY <2>1, <1>1, <1>s DEF Shape, One
  <2> QED BY <2>1, <2>2, <1>s DEF Shape
<1>4. ASSUME NEW i \in DOMAIN waiters PROVE waiters[i] \in (Unwoken \ Served) \cup Pushing
  <2>1. CASE i <= Queued
    <3>1. i \in 1 .. Queued BY <2>1, <1>1, <1>s, Counts DEF Shape
    <3> DEFINE j == Gone + (i - 1)
    <3>2. j \in Entries /\ waiters[i] = Entry(j) BY <3>1, <1>s DEF Shape
    <3>3. Entry(j) \in Unwoken BY <3>2, <1>i DEF RingInv
    <3>4. ASSUME AtKill # {} PROVE Entry(j) # items[first]
      <4>1. PICK p \in Procs : pc[p] = "kill" BY <3>4 DEF AtKill
      <4>2. Entry(0) = items[first] /\ 0 \in Entries BY <4>1, Front
      <4>3. j # 0 BY <3>1, <3>4, Counts
      <4> QED BY <4>2, <4>3, <3>2, <1>i DEF RingInv
    <3> QED BY <3>2, <3>3, <3>4 DEF Served
  <2>2. CASE ~(i <= Queued)
    <3>1. i = Queued + 1 /\ Pushing # {}
      BY <2>2, <1>1, <1>s, Counts DEF Shape, One
    <3> QED BY <3>1, <1>s, Counts DEF Shape
  <2> QED BY <2>1, <2>2
<1>5. Named = (Unwoken \ Served) \cup Pushing BY <1>2, <1>3, <1>4
<1>6. Fair!Waiting = Named BY DEF Fair!Waiting
<1>7. holders = Inside \cup (Waiting \ Named)
  BY DEF holders, Waiting
<1>8. Waiting \cap Pushing = {} BY DEF Waiting, Pushing
<1>9. Served \subseteq Unwoken BY Counts DEF Served
<1>10. Waiting \ Named = (Waiting \cap pending) \cup Served
  BY <1>5, <1>8, <1>9 DEF Unwoken
<1> QED BY <1>5, <1>6, <1>7, <1>10 DEF Hand, Holding

LEMMA AfterShapes == IInv' => Shape' /\ Hand'
BY WaitersShape, HandShape, PTL

GoneIs == /\ AtKill = {} => Gone = One(AtPop)
          /\ AtKill # {} => Gone = 1 /\ size > 0
          /\ Pushing # {} => Pushing = {Pusher}

LEMMA CountsBefore == IInv => GoneIs
BY Counts DEF GoneIs

LEMMA CountsAfter == IInv' => GoneIs'
BY CountsBefore, PTL

-----------------------------------------------------------------------------
(* Steps the abstract semaphore does not see *)

Unseen == UNCHANGED <<holders, waiters>>

LEMMA QuietUnseen ==
    ASSUME Inside' = Inside, Waiting' = Waiting, Pushing' = Pushing, Handing' = Handing,
           UNCHANGED <<items, size, first>>
    PROVE  Unseen
<1>1. Gone' = Gone BY DEF Gone
<1>2. Queued' = Queued BY <1>1 DEF Queued
<1>3. waiters' = waiters BY <1>1, <1>2 DEF waiters
<1>4. \A q : q \in Waiting <=> q \in Procs /\ pc[q] \in {"release_wait", "suspend"}
  BY DEF Waiting
<1>5. holders = Inside \cup {p \in Waiting : ~\E i \in DOMAIN waiters : waiters[i] = p}
  BY DEF holders, Waiting
<1>6. holders' = Inside' \cup {p \in Waiting' : ~\E i \in DOMAIN waiters' : waiters'[i] = p}
  BY DEF holders, Waiting
<1> QED BY <1>3, <1>5, <1>6 DEF Unseen

LEMMA MoveUnseen ==
    ASSUME IInv, NEW p \in Procs, NEW l \in Pcs, Goto(p, l), UNCHANGED <<items, size, first>>,
           pc[p] \in InsidePcs <=> l \in InsidePcs,
           pc[p] \in WaitingPcs <=> l \in WaitingPcs,
           {pc[p], l} \cap {"push", "kill", "pop"} = {}
    PROVE  Unseen
<1>1. \A q \in Procs : pc'[q] = IF q = p THEN l ELSE pc[q]
  BY GoneTo DEF IInv
<1>2. Inside' = Inside BY <1>1 DEF Inside, InsidePcs
<1>3. Waiting' = Waiting BY <1>1 DEF Waiting, WaitingPcs
<1>4. Pushing' = Pushing BY <1>1 DEF Pushing
<1>5. Handing' = Handing BY <1>1 DEF Handing
<1> QED BY <1>2, <1>3, <1>4, <1>5, QuietUnseen

LEMMA PushUnseen == ASSUME IInv, IInv', NEW p \in Procs, Push(p) PROVE Unseen
<1>i. TypeOK /\ RingInv BY DEF IInv
<1>s. Shape /\ Shape' BY WaitersShape, AfterShapes
<1>h. Hand /\ Hand' BY HandShape, AfterShapes
<1>1. \A q \in Procs : pc'[q] = IF q = p THEN "release_wait" ELSE pc[q]
  BY <1>i, GoneTo DEF Push, Pcs
<1>2. pc[p] = "push" BY DEF Push
<1>3. size < QUEUE_MAX_ITEMS /\ AtPop = {} /\ AtKill = {} /\ Pushing = {p}
  BY <1>2, Room
<1>4. Pushing' = {} /\ AtKill' = {} /\ AtPop' = {}
  BY <1>1, <1>3 DEF Pushing, AtKill, AtPop
<1>5. Gone = 0 /\ Gone' = 0 BY <1>3, <1>4, Counts, CountsAfter, One01 DEF GoneIs
<1>6. /\ first' = first /\ size' = size + 1 /\ size \in Nat /\ first \in Slots
      /\ pending' = pending
  BY <1>i, RingAssumption DEF Push, TypeOK
<1>7. Queued = size /\ Queued' = size + 1 BY <1>5, <1>6 DEF Queued
<1>8. Len(waiters) = size + 1 /\ Len(waiters') = size + 1
  <2>1. One(Pushing) = 1 /\ One(Pushing') = 0 BY <1>3, <1>4, One01
  <2>2. Len(waiters) = Queued + One(Pushing) BY <1>s DEF Shape
  <2>3. Len(waiters') = Queued' + One(Pushing') BY <1>s DEF Shape
  <2> QED BY <2>1, <2>2, <2>3, <1>6, <1>7
<1>9. ASSUME NEW i \in 1 .. size + 1 PROVE waiters'[i] = waiters[i]
  <2>1. /\ i - 1 \in Nat /\ i - 1 < QUEUE_MAX_ITEMS /\ Gone + (i - 1) = i - 1
        /\ Gone' + (i - 1) = i - 1
    BY <1>3, <1>5, <1>6, RingAssumption
  <2>2. waiters'[i] = Entry(i - 1)' BY <2>1, <1>7, <1>s DEF Shape
  <2>3. Entry(i - 1)' = IF i - 1 = size THEN p ELSE Entry(i - 1)
    <3>1. (first + (i - 1)) % QUEUE_MAX_ITEMS \in Slots
      BY <2>1, <1>6, RingIndex DEF Slots
    <3>2. Entry(i - 1)' = IF (first + (i - 1)) % QUEUE_MAX_ITEMS = LastIndex THEN p
                          ELSE Entry(i - 1)
      BY <3>1, <1>6, <1>i DEF Push, Entry, TypeOK
    <3>3. (first + (i - 1)) % QUEUE_MAX_ITEMS = LastIndex <=> i - 1 = size
      BY <2>1, <1>3, <1>6, RingDistinct DEF LastIndex
    <3> QED BY <3>2, <3>3
  <2>4. CASE i = size + 1
    <3>1. Pusher = p BY <1>3, Counts
    <3> QED BY <3>1, <2>2, <2>3, <2>4, <1>3, <1>6, <1>7, <1>s DEF Shape
  <2>5. CASE i # size + 1
    <3>1. i \in 1 .. Queued /\ i - 1 # size BY <2>5, <1>6, <1>7
    <3>2. waiters[i] = Entry(i - 1) BY <3>1, <2>1, <1>s DEF Shape
    <3> QED BY <3>1, <3>2, <2>2, <2>3
  <2> QED BY <2>4, <2>5
<1>10. waiters' = waiters
  <2>1. waiters \in Seq(Procs) /\ waiters' \in Seq(Procs) BY <1>s DEF Shape
  <2> QED BY <2>1, <1>8, <1>9, SeqEqual
<1>11. holders' = holders
  <2>1. Waiting' = Waiting \cup {p} BY <1>1, <1>2 DEF Waiting
  <2>2. Inside' = Inside BY <1>1, <1>2 DEF Inside
  <2>3. p \notin pending BY <1>2 DEF IInv, UnitsInv, Waiting
  <2>4. Holding' = Holding BY <2>1, <2>2, <2>3, <1>6 DEF Holding
  <2>5. Served = {} /\ Served' = {} BY <1>3, <1>4 DEF Served
  <2> QED BY <2>4, <2>5, <1>h DEF Hand
<1> QED BY <1>10, <1>11 DEF Unseen

LEMMA KillUnseen == ASSUME IInv, IInv', NEW p \in Procs, Kill(p) PROVE Unseen
<1>1. \A q \in Procs : pc'[q] = IF q = p THEN "pop" ELSE pc[q]
  BY GoneTo DEF IInv, Kill, Pcs
<1>2. pc[p] = "kill" /\ UNCHANGED <<items, size, first>> BY DEF Kill, queue
<1>3. Inside' = Inside /\ Waiting' = Waiting BY <1>1, <1>2 DEF Inside, Waiting
<1>4. Pushing' = Pushing /\ Handing' = Handing BY <1>1, <1>2 DEF Pushing, Handing
<1> QED BY <1>2, <1>3, <1>4, QuietUnseen

LEMMA PopUnseen == ASSUME IInv, IInv', NEW p \in Procs, Pop(p) PROVE Unseen
<1>i. TypeOK BY DEF IInv
<1>s. Shape /\ Shape' BY WaitersShape, AfterShapes
<1>h. Hand /\ Hand' BY HandShape, AfterShapes
<1>1. \A q \in Procs : pc'[q] = IF q = p THEN "release_out" ELSE pc[q]
  BY <1>i, GoneTo DEF Pop, Pcs
<1>2. pc[p] = "pop" /\ p \in InLock BY DEF Pop, InLock, Locked
<1>3. AtPop = {p} /\ AtKill = {} /\ Pushing = {} BY <1>2, AloneInLock
<1>4. Pushing' = {} /\ AtKill' = {} /\ AtPop' = {}
  BY <1>1, <1>3 DEF Pushing, AtKill, AtPop
<1>5. Gone = 1 /\ Gone' = 0 BY <1>3, <1>4, Counts, CountsAfter, One01 DEF GoneIs
<1>6. /\ items' = items /\ pending' = pending /\ size' = size - 1 /\ size \in Nat
      /\ size <= QUEUE_MAX_ITEMS /\ first' = (first + 1) % QUEUE_MAX_ITEMS /\ first \in Slots
  BY <1>i, RingAssumption DEF Pop, TypeOK, NextIndex
<1>7. Queued = size - 1 /\ Queued' = size - 1 BY <1>5, <1>6 DEF Queued
<1>8. Len(waiters) = size - 1 /\ Len(waiters') = size - 1
  BY <1>3, <1>4, <1>6, <1>7, <1>s, One01 DEF Shape
<1>9. ASSUME NEW i \in 1 .. size - 1 PROVE waiters'[i] = waiters[i]
  <2>1. /\ i - 1 \in Nat /\ i - 1 < QUEUE_MAX_ITEMS
        /\ Gone + (i - 1) = (i - 1) + 1 /\ Gone' + (i - 1) = i - 1
    BY <1>5, <1>6, RingAssumption
  <2>2. waiters'[i] = Entry(i - 1)' BY <2>1, <1>7, <1>s DEF Shape
  <2>3. waiters[i] = Entry((i - 1) + 1) BY <2>1, <1>7, <1>s DEF Shape
  <2>4. Entry(i - 1)' = Entry((i - 1) + 1) BY <2>1, <1>6, RingNext DEF Entry
  <2> QED BY <2>2, <2>3, <2>4
<1>10. waiters' = waiters
  <2>1. waiters \in Seq(Procs) /\ waiters' \in Seq(Procs) BY <1>s DEF Shape
  <2> QED BY <2>1, <1>8, <1>9, SeqEqual
<1>11. holders' = holders
  <2>1. Waiting' = Waiting /\ Inside' = Inside BY <1>1, <1>2 DEF Waiting, Inside
  <2>2. Holding' = Holding BY <2>1, <1>6 DEF Holding
  <2>3. Served = {} /\ Served' = {} BY <1>3, <1>4 DEF Served
  <2> QED BY <2>2, <2>3, <1>h DEF Hand
<1> QED BY <1>10, <1>11 DEF Unseen

LEMMA SuspendUnseen == ASSUME IInv, IInv', NEW p \in Procs, Suspend(p) PROVE Unseen
<1>h. Hand /\ Hand' BY HandShape, AfterShapes
<1>1. \A q \in Procs : pc'[q] = IF q = p THEN "critical" ELSE pc[q]
  BY GoneTo DEF IInv, Suspend, Pcs
<1>2. /\ pc[p] = "suspend" /\ p \in pending /\ pending' = pending \ {p}
      /\ UNCHANGED <<items, size, first>>
  BY DEF Suspend, Resumed, queue
<1>3. Pushing' = Pushing /\ Handing' = Handing /\ AtKill' = AtKill
  BY <1>1, <1>2 DEF Pushing, Handing, AtKill
<1>4. Gone' = Gone BY <1>3 DEF Gone
<1>5. Queued' = Queued BY <1>2, <1>4 DEF Queued
<1>6. waiters' = waiters BY <1>2, <1>3, <1>4, <1>5 DEF waiters
<1>7. Waiting' = Waiting \ {p} /\ p \in Waiting BY <1>1, <1>2 DEF Waiting
<1>8. Inside' = Inside \cup {p} BY <1>1, <1>2 DEF Inside
<1>9. Holding' = Holding BY <1>2, <1>7, <1>8 DEF Holding
<1>10. Served' = Served BY <1>2, <1>3 DEF Served
<1> QED BY <1>6, <1>9, <1>10, <1>h DEF Hand, Unseen
-----------------------------------------------------------------------------
(* The count changes, and with it who holds and who waits *)

(* The instance has its own copy of the standard definition *)
LEMMA SameCardinality == \A S : Fair!Cardinality(S) = Cardinality(S)
BY DEF Cardinality, Fair!Cardinality

LEMMA EnterLocks == ASSUME IInv, IInv', NEW p \in Procs, Enter(p) PROVE Fair!Lock(p)
<1> DEFINE l == IF Full(count') THEN "push" ELSE "release_in"
<1>s. Shape /\ Shape' BY WaitersShape, AfterShapes
<1>h. Hand /\ Hand' BY HandShape, AfterShapes
<1>u. UnitsInv /\ UnitsInv' BY DEF IInv
<1>1. \A q \in Procs : pc'[q] = IF q = p THEN l ELSE pc[q]
  <2>1. l \in Pcs /\ Goto(p, l) BY DEF Enter, Pcs
  <2> QED BY <2>1, GoneTo DEF IInv
<1>2. pc[p] = "enter" /\ p \in InLock BY DEF Enter, InLock, Locked
<1>3. Pushing = {} /\ AtKill = {} /\ AtPop = {} BY <1>2, AloneInLock
<1>4. UNCHANGED <<items, size, first, pending>> BY DEF Enter, queue
<1>5. AtKill' = {} /\ AtPop' = {} /\ Handing' = Handing
  BY <1>1, <1>2, <1>3 DEF AtKill, AtPop, Handing
<1>6. Waiting' = Waiting BY <1>1, <1>2 DEF Waiting
<1>7. Served = {} /\ Served' = {} BY <1>3, <1>5 DEF Served
<1>8. holders = Holding /\ holders' = Holding' /\ Fair!Waiting = Unwoken
  BY <1>3, <1>7, <1>h DEF Hand
<1>9. p \notin Holding \cup Unwoken BY <1>2 DEF Holding, Inside, Unwoken, Waiting
<1>10. Gone' = Gone /\ Queued' = Queued BY <1>4, <1>5 DEF Gone, Queued
<1>11. CASE l = "push"
  <2>1. Pushing' = {p} BY <1>1, <1>3, <1>11 DEF Pushing
  <2>2. Inside' = Inside BY <1>1, <1>2, <1>11 DEF Inside
  <2>3. Holding' = Holding BY <2>2, <1>4, <1>6 DEF Holding
  <2>4. Cardinality(Holding) = Units
    BY <2>1, <2>3, <1>5, <1>u, One01, Sizes, UnitsAssumption DEF UnitsInv
  <2>5. waiters' = Append(waiters, p)
    <3>1. waiters \in Seq(Procs) /\ waiters' \in Seq(Procs) BY <1>s DEF Shape
    <3>2. Queued \in Nat /\ Len(waiters) = Queued
      <4>1. One(Pushing) = 0 BY <1>3, One01
      <4> QED BY <4>1, <1>s DEF Shape
    <3>3. Len(waiters') = Queued + 1
      <4>1. One(Pushing') = 1 BY <2>1, One01
      <4> QED BY <4>1, <1>10, <1>s DEF Shape
    <3>4. waiters'[Queued + 1] = p
      <4>1. Pusher' = p BY <2>1, CountsAfter DEF GoneIs
      <4> QED BY <4>1, <2>1, <1>10, <1>s DEF Shape
    <3>5. \A i \in 1 .. Queued : waiters'[i] = waiters[i]
      BY <1>4, <1>10, <1>s DEF Shape, Entry
    <3>6. /\ Append(waiters, p) \in Seq(Procs) /\ Len(Append(waiters, p)) = Queued + 1
          /\ \A i \in 1 .. Queued + 1 :
                Append(waiters, p)[i] = IF i = Queued + 1 THEN p ELSE waiters[i]
      BY <3>1, <3>2
    <3>7. \A i \in 1 .. Queued + 1 : i # Queued + 1 => i \in 1 .. Queued BY <3>2
    <3> QED BY <3>1, <3>3, <3>4, <3>5, <3>6, <3>7, SeqEqual
  <2> QED BY <2>3, <2>4, <2>5, <1>8, <1>9, SameCardinality, UnitsAssumption DEF Fair!Lock
<1>12. CASE l = "release_in"
  <2>1. Pushing' = Pushing BY <1>1, <1>2, <1>12 DEF Pushing
  <2>2. Inside' = Inside \cup {p} BY <1>1, <1>2, <1>12 DEF Inside
  <2>3. Holding' = Holding \cup {p} BY <2>2, <1>4, <1>6 DEF Holding
  <2>4. Cardinality(Holding) < Units
    <3>1. Cardinality(Holding') = Cardinality(Holding) + 1
      BY <2>3, <1>9, Sizes, FS_AddElement
    <3>2. Cardinality(Holding') + One(AtKill') <= Units BY <1>u DEF UnitsInv
    <3>3. One(AtKill') = 0 BY <1>5, One01
    <3> QED BY <3>1, <3>2, <3>3, Sizes, UnitsAssumption
  <2>5. waiters' = waiters BY <2>1, <1>4, <1>10 DEF waiters
  <2> QED BY <2>3, <2>4, <2>5, <1>8, <1>9, SameCardinality DEF Fair!Lock
<1> QED BY <1>11, <1>12

LEMMA LeaveUnlocks == ASSUME IInv, IInv', NEW p \in Procs, Leave(p) PROVE Fair!Unlock(p)
<1> DEFINE l == IF SomeWait(count') THEN "kill" ELSE "release_out"
<1>s. Shape /\ Shape' BY WaitersShape, AfterShapes
<1>h. Hand /\ Hand' BY HandShape, AfterShapes
<1>u. TypeOK /\ UnitsInv /\ UnitsInv' /\ RingInv BY DEF IInv
<1>1. \A q \in Procs : pc'[q] = IF q = p THEN l ELSE pc[q]
  <2>1. l \in Pcs /\ Goto(p, l) BY DEF Leave, Pcs
  <2> QED BY <2>1, GoneTo DEF IInv
<1>2. pc[p] = "leave" /\ p \in InLock BY DEF Leave, InLock, Locked
<1>3. Pushing = {} /\ AtKill = {} /\ AtPop = {} BY <1>2, AloneInLock
<1>4. UNCHANGED <<items, size, first, pending>> BY DEF Leave, queue
<1>5. Pushing' = {} /\ AtPop' = {} BY <1>1, <1>3 DEF Pushing, AtPop
<1>6. Waiting' = Waiting /\ Inside' = Inside \ {p} /\ p \in Inside /\ p \notin Waiting
  BY <1>1, <1>2 DEF Waiting, Inside
<1>7. Unwoken' = Unwoken /\ Holding' = Holding \ {p} /\ p \in Holding
  BY <1>4, <1>6 DEF Unwoken, Holding
<1>8. holders = Holding
  <2>1. Served = {} BY <1>3 DEF Served
  <2> QED BY <2>1, <1>h DEF Hand
<1>9. Gone = 0 /\ size \in Nat /\ first \in Slots /\ Queued = size
  <2>1. Gone = 0 BY <1>3, Counts, One01
  <2>2. size \in Nat /\ first \in Slots BY <1>u DEF TypeOK
  <2> QED BY <2>1, <2>2 DEF Queued
<1>10. waiters \in Seq(Procs) /\ waiters' \in Seq(Procs) /\ Len(waiters) = size
  <2>1. One(Pushing) = 0 BY <1>3, One01
  <2> QED BY <2>1, <1>9, <1>s DEF Shape
<1>11. \A i \in 1 .. size : waiters[i] = Entry(i - 1)
  BY <1>9, <1>s DEF Shape
<1>12. CASE l = "kill"
  <2>1. AtKill' = {p} BY <1>1, <1>3, <1>12 DEF AtKill
  <2>2. Gone' = 1 /\ size > 0 BY <2>1, <1>4, CountsAfter DEF GoneIs
  <2>3. Queued' = size - 1 BY <2>2, <1>4 DEF Queued
  <2>4. Len(waiters') = size - 1
    <3>1. One(Pushing') = 0 BY <1>5, One01
    <3> QED BY <3>1, <2>3, <1>9, <1>s DEF Shape
  <2>5. waiters # <<>> BY <2>2, <1>10
  <2>6. Head(waiters) = items[first]
    <3>1. Head(waiters) = waiters[1] BY <2>5, <1>10
    <3>2. waiters[1] = Entry(0) BY <2>2, <1>9, <1>11
    <3> QED BY <3>1, <3>2, <1>9, RingFirst DEF Entry
  <2>7. /\ Tail(waiters) \in Seq(Procs) /\ Len(Tail(waiters)) = size - 1
        /\ \A i \in 1 .. size - 1 : Tail(waiters)[i] = waiters[i + 1]
    BY <2>5, <1>10, HeadTailProperties
  <2>8. ASSUME NEW i \in 1 .. size - 1 PROVE waiters'[i] = Tail(waiters)[i]
    <3>1. waiters'[i] = Entry(1 + (i - 1))' BY <2>2, <2>3, <1>s DEF Shape
    <3>2. 1 + (i - 1) = (i + 1) - 1 /\ i + 1 \in 1 .. size BY <1>9
    <3>3. waiters[i + 1] = Entry(1 + (i - 1)) BY <3>2, <1>11
    <3> QED BY <3>1, <3>3, <2>7, <1>4 DEF Entry
  <2>9. waiters' = Tail(waiters) BY <2>4, <2>7, <2>8, <1>10, SeqEqual
  <2>10. holders' = (holders \ {p}) \cup {items[first]}
    <3>1. Served' = {items[first]} BY <2>1, <1>4 DEF Served
    <3> QED BY <3>1, <1>7, <1>8, <1>h DEF Hand
  <2> QED BY <2>5, <2>6, <2>9, <2>10, <1>7, <1>8 DEF Fair!Unlock
<1>13. CASE l = "release_out"
  <2>1. AtKill' = {} BY <1>1, <1>3, <1>13 DEF AtKill
  <2>2. Unwoken = {}
    <3>1. Cardinality(Holding') = Cardinality(Holding) - 1
      BY <1>7, Sizes, FS_RemoveElement
    <3>2. Cardinality(Holding) <= Units
      BY <1>3, <1>u, One01, Sizes, UnitsAssumption DEF UnitsInv
    <3>3. One(AtKill') = 0 BY <2>1, One01
    <3>4. Unwoken # {} => Cardinality(Holding') + One(AtKill') = Units
      BY <1>7, <1>u DEF UnitsInv
    <3> QED BY <3>1, <3>2, <3>3, <3>4, Sizes, UnitsAssumption
  <2>3. size = 0
    <3>1. size = Cardinality(Unwoken) + One(AtPop) BY <1>u DEF RingInv
    <3> QED BY <3>1, <2>2, <1>3, One01, Sizes
  <2>4. waiters = <<>> BY <2>3, <1>10
  <2>5. waiters' = waiters
    <3>1. Handing' = Handing BY <1>1, <1>2, <1>13 DEF Handing
    <3>2. Gone' = Gone BY <3>1 DEF Gone
    <3>3. Queued' = Queued BY <3>2, <1>4 DEF Queued
    <3> QED BY <3>2, <3>3, <1>3, <1>4, <1>5 DEF waiters
  <2>6. holders' = holders \ {p}
    <3>1. Served' = {} BY <2>1 DEF Served
    <3> QED BY <3>1, <1>7, <1>8, <1>h DEF Hand
  <2> QED BY <2>4, <2>5, <2>6, <1>7, <1>8 DEF Fair!Unlock
<1> QED BY <1>12, <1>13
-----------------------------------------------------------------------------
LEMMA RefinesInit == Init => Fair!Init
<1> SUFFICES ASSUME Init PROVE Fair!Init
  OBVIOUS
<1>1. IInv BY IInvInit
<1>2. \A p \in Procs : pc[p] \in {"fork", "none"} BY DEF Init
<1>3. Pushing = {} /\ Inside = {} /\ Waiting = {} /\ AtKill = {} /\ Handing = {}
  BY <1>2 DEF Pushing, Inside, Waiting, AtKill, Handing
<1>4. holders = {} BY <1>1, <1>3, HandShape DEF Hand, Holding, Served
<1>5. Queued = 0 BY <1>3 DEF Queued, Gone, Init
<1>6. Len(waiters) = 0 /\ waiters \in Seq(Procs)
  <2>1. One(Pushing) = 0 BY <1>3, One01
  <2> QED BY <2>1, <1>1, <1>5, WaitersShape DEF Shape
<1>7. waiters = <<>> BY <1>6, EmptySeq
<1> QED BY <1>4, <1>7 DEF Fair!Init

LEMMA RefinesMain == ASSUME IInv, Main PROVE Unseen
<1>0. 0 \in Procs /\ PROC_COUNT \in Nat BY ProcsFinite, CountAssumption
<1> USE DEF InsidePcs, WaitingPcs, Pcs, queue
<1>1. CASE Fork /\ created = PROC_COUNT
  <2>1. pc[0] = "fork" /\ Goto(0, "acquire") /\ UNCHANGED <<items, size, first>>
    BY <1>1 DEF Fork
  <2> QED BY <2>1, <1>0, MoveUnseen
<1>2. CASE Fork /\ created # PROC_COUNT
  <2> DEFINE c == created + 1
  <2>1. Goto(c, "acquire") /\ UNCHANGED <<items, size, first>>
    BY <1>2 DEF Fork, Goto
  <2>2. c \in Procs /\ c > created BY <1>2, <1>0 DEF IInv, TypeOK, Procs
  <2>3. pc[c] = "none" BY <2>2 DEF IInv, TestInv
  <2> HIDE DEF c
  <2> QED BY <2>1, <2>2, <2>3, MoveUnseen
<1>3. CASE Wait
  <2>1. PICK p \in Procs \ {0} : pc[p] = "ended" /\ Goto(p, "reaped")
    BY <1>3 DEF Wait
  <2>2. UNCHANGED <<items, size, first>> BY <1>3 DEF Wait
  <2> QED BY <2>1, <2>2, MoveUnseen
<1>4. CASE ReleaseShared
  <2>1. pc[0] = "wait" /\ Goto(0, "ended") /\ UNCHANGED <<items, size, first>>
    BY <1>4 DEF ReleaseShared
  <2> QED BY <2>1, <1>0, MoveUnseen
<1> QED BY <1>1, <1>2, <1>3, <1>4 DEF Main

LEMMA RefinesPass ==
    ASSUME IInv, IInv', NEW p \in Procs, Pass(p)
    PROVE  Fair!Lock(p) \/ Fair!Unlock(p) \/ Unseen
<1> USE DEF InsidePcs, WaitingPcs, Pcs, queue
<1>1. CASE AcquireIn(p) BY <1>1, MoveUnseen DEF AcquireIn, Acquire
<1>2. CASE AcquireOut(p) BY <1>2, MoveUnseen DEF AcquireOut, Acquire
<1>3. CASE ReleaseWait(p) BY <1>3, MoveUnseen DEF ReleaseWait, Release
<1>4. CASE ReleaseIn(p) BY <1>4, MoveUnseen DEF ReleaseIn, Release
<1>5. CASE Critical(p) BY <1>5, MoveUnseen DEF Critical
<1>6. CASE ReleaseOut(p)
  <2> DEFINE b == IF left[p] > 1 THEN "acquire" ELSE IF p = 0 THEN "wait" ELSE "ended"
  <2>1. b \in {"acquire", "wait", "ended"} /\ Goto(p, b) BY <1>6 DEF ReleaseOut
  <2>2. pc[p] = "release_out" /\ UNCHANGED <<items, size, first>>
    BY <1>6 DEF ReleaseOut
  <2> HIDE DEF b
  <2> QED BY <2>1, <2>2, MoveUnseen
<1> QED BY <1>1, <1>2, <1>3, <1>4, <1>5, <1>6, EnterLocks, LeaveUnlocks, PushUnseen,
           KillUnseen, PopUnseen, SuspendUnseen DEF Pass

LEMMA RefinesNext ==
    IInv /\ IInv' /\ [Next]_vars => [Fair!Next]_<<holders, waiters>>
<1> SUFFICES ASSUME IInv, IInv', [Next]_vars PROVE Fair!Next \/ Unseen
  BY DEF Unseen
<1>1. CASE Main BY <1>1, RefinesMain
<1>2. ASSUME NEW p \in Procs, Pass(p) PROVE Fair!Next \/ Unseen
  BY <1>2, RefinesPass DEF Fair!Next
<1>3. CASE UNCHANGED vars
  BY <1>3, QuietUnseen DEF vars, queue, Inside, Waiting, Pushing, Handing
<1> QED BY <1>1, <1>2, <1>3 DEF Next, Done

(* The ring, the count, the spinlock and the signals together are a fair    *)
(* semaphore: a unit given back goes to whoever has waited longest, and     *)
(* nobody is let in, forgotten or overtaken at any step of any behaviour.   *)
THEOREM Refinement == Spec => ImplementsSemaphore
BY Inductive, RefinesInit, RefinesNext, PTL DEF Spec, ImplementsSemaphore, Fair!Spec
=============================================================================
