---------------------------- MODULE Cruce_proofs ----------------------------
(* Theorems about Cruce, for every number of slots and of processes, every *)
(* grid and every way through it                                             *)
EXTENDS Cruce, FiniteSetTheorems, TLAPS

Critical == {p \in Pids : child[p].at \in {"mark", "check", "move", "leave"}}
Births == {b[1] : b \in WalkerBirths}
Unreaped == {p \in Pids : child[p].at \notin {"none", "reaped"}}

SettingUp == {"inicio", "fork_manager", "store_manager", "await"}
Ending == {"fin", "kill", "release", "gone"}

(* One process at a time is where the semaphore should leave it alone *)
MutexInv ==
    /\ \A p, q \in Critical : p = q
    /\ Critical # {} => map_access = 0

(* Where a process is on its way, by where it is in its program *)
WayInv ==
    \A p \in Pids :
        /\ child[p].at \in {"lock_mark", "mark"} =>
              child[p].type = "PEAToN" /\ child[p].current \in Births
        /\ child[p].at \in {"lock_mark", "mark", "wait", "lock", "check", "move"} =>
              child[p].current \in Cells /\ child[p].next \in Cells
        /\ child[p].at = "wait" => child[p].current = child[p].next
        /\ child[p].at \in {"lock_leave", "leave"} => child[p].current \in Cells
        /\ child[p].type = "PEAToN" /\ child[p].at \in Running \ {"start", "birth"} =>
              child[p].current # child[p].next
        /\ child[p].at = "move" => child[p].next \notin grid

(* The start: no child before the manager is ready *)
StartInv ==
    /\ main \in SettingUp => alive_count = 0 /\ \A p \in Pids : Is(p, "none")
    /\ main \in {"inicio", "fork_manager"} => manager = "none"
    /\ manager \in {"none", "starting"} => manager_ready = 0
    /\ main = "inicio" => semaphores = "none"

(* A slot has the pid of the process it was given to, or nothing.  It has   *)
(* that of each process that is alive, but for the one main is about to      *)
(* store, if it has not stored itself.                                        *)
SlotsGiven ==
    \A i \in Slots : children[i] # 0 => child[children[i]].slot = i /\ ~Is(children[i], "none")
AliveStored ==
    \A p \in Pids : Alive(p) =>
        \/ children[child[p].slot] = p
        \/ /\ p = newborn /\ Is(p, "start") /\ children[child[p].slot] = 0
           /\ main \in {"store"} \cup Ending
SlotOfNewborn ==
    /\ main \in {"fork", "store"} => index \in Slots
    /\ main = "fork" => children[index] = 0
    /\ main = "store" =>
          /\ newborn \in Unreaped /\ child[newborn].slot = index
          /\ children[index] \in {0, newborn}
SlotInv == SlotsGiven /\ AliveStored /\ SlotOfNewborn

(* alive_count is of the children that main has not waited for *)
CountInv ==
    /\ main \in {"count", "scan", "fork"} => alive_count = Cardinality(Unreaped)
    /\ main = "store" => alive_count + 1 = Cardinality(Unreaped)
    /\ main \in {"scan", "fork", "store"} => alive_count < MaxCount

(* The end: the slots already seen have somebody who is dead *)
Killed == {i \in Slots : children[i] # 0 /\ ~Alive(children[i])}
EndInv ==
    /\ main = "kill" => index \in Slots /\ 0 .. index - 1 \subseteq Killed
    /\ main = "release" => Slots \subseteq Killed
    /\ main = "gone" => \A p \in Pids : ~Alive(p)
    /\ main \in {"kill", "release", "gone"} => manager = "ended"
    /\ semaphores = "removed" => main = "gone" /\ \A i \in Slots : children[i] # 0

IInv ==
    /\ TypeOK /\ MutexInv /\ WayInv /\ NobodyRunOver
    /\ StartInv /\ SlotInv /\ CountInv /\ EndInv
(* child, as TypeOK has it *)
Labels == Running \cup {"none", "zombie", "reaped"}
Points == Cells \cup {Off}
ChildRecord == [at : Labels, type : {"COCHE", "PEAToN"}, slot : Slots, current : Points, next : Points]
-----------------------------------------------------------------------------
LEMMA Records ==
    ASSUME TypeOK
    PROVE  /\ child \in [Pids -> ChildRecord]
           /\ \A p \in Pids, l \in Labels : [child[p] EXCEPT !.at = l] \in ChildRecord
           /\ \A p \in Pids : Dead(p) \in ChildRecord
           /\ \A p \in Pids, l \in Labels, c, n \in Points :
                 [child[p] EXCEPT !.at = l, !.current = c, !.next = n] \in ChildRecord
           /\ \A p \in Pids, l \in Labels, type \in {"COCHE", "PEAToN"}, i \in Slots :
                 [child[p] EXCEPT !.at = l, !.type = type, !.slot = i] \in ChildRecord
<1>1. child \in [Pids -> ChildRecord]
  BY DEF TypeOK, ChildRecord, Labels, Points
<1>2. \A p \in Pids, l \in Labels : [child[p] EXCEPT !.at = l] \in ChildRecord
  BY <1>1 DEF ChildRecord
<1>3. "zombie" \in Labels
  BY DEF Labels
<1>4. \A p \in Pids : Dead(p) \in ChildRecord
  BY <1>1, <1>2, <1>3, Zenon DEF Dead
<1>5. \A p \in Pids, l \in Labels, c, n \in Points :
         [child[p] EXCEPT !.at = l, !.current = c, !.next = n] \in ChildRecord
  BY <1>1 DEF ChildRecord
<1>6. \A p \in Pids, l \in Labels, type \in {"COCHE", "PEAToN"}, i \in Slots :
         [child[p] EXCEPT !.at = l, !.type = type, !.slot = i] \in ChildRecord
  BY <1>1 DEF ChildRecord
<1> QED BY <1>1, <1>2, <1>4, <1>5, <1>6

LEMMA TypeOfChild == child' \in [Pids -> ChildRecord] <=> child' \in
                        [Pids -> [at : Running \cup {"none", "zombie", "reaped"},
                                  type : {"COCHE", "PEAToN"}, slot : Slots,
                                  current : Cells \cup {Off}, next : Cells \cup {Off}]]
BY DEF ChildRecord, Labels, Points

(* What the other invariants say that TypeOK' rests on *)
LEMMA TypeFacts ==
    ASSUME IInv
    PROVE  /\ TypeOK
           /\ main \in {"fork", "store", "kill"} => index \in Slots
           /\ main \in {"fork", "store"} => alive_count < MaxCount
           /\ main = "store" => newborn \in Pids
           /\ main = "kill" => manager = "ended"
           /\ manager = "starting" => manager_ready = 0
           /\ main = "fork_manager" => manager = "none"
           /\ \A p \in Pids : child[p].at \in {"mark", "move"} =>
                                  child[p].current \in Cells /\ child[p].next \in Cells
BY DEF IInv, SlotInv, SlotOfNewborn, CountInv, EndInv, StartInv, WayInv, Unreaped

LEMMA TypeMain == IInv /\ (Main \/ Exit \/ ManagerReady) => TypeOK'
<1> SUFFICES ASSUME IInv, Main \/ Exit \/ ManagerReady PROVE TypeOK'
  OBVIOUS
<1> USE CountAssumption, PidsAssumption, TypeFacts DEF TypeOK, Slots, Running
<1>1. CASE Inicio
  BY <1>1 DEF Inicio
<1>2. CASE ForkManager
  BY <1>2 DEF ForkManager
<1>3. CASE StoreManager
  BY <1>3 DEF StoreManager
<1>4. CASE Await
  BY <1>4 DEF Await
<1>5. CASE Count
  <2>1. CASE Full
    <3>1. PICK p \in Pids : child' = [child EXCEPT ![p].at = "reaped"]
      BY <1>5, <2>1 DEF Count
    <3>2. child' \in [Pids -> ChildRecord]
      BY <3>1, Records DEF Labels
    <3> QED BY <1>5, <2>1, <3>2, TypeOfChild DEF Count, Full
  <2> QED BY <1>5, <2>1 DEF Count, Full
<1>6. CASE Scan
  BY <1>6 DEF Scan, Free
<1>7. CASE Fork
  <2>1. PICK p \in Pids, type \in {"COCHE", "PEAToN"} :
           /\ newborn' = p
           /\ child' = [child EXCEPT ![p] = [@ EXCEPT !.at = "start", !.type = type, !.slot = index]]
    BY <1>7 DEF Fork
  <2>2. child' \in [Pids -> ChildRecord]
    BY <1>7, <2>1, Records DEF Labels, Fork
  <2> QED BY <1>7, <2>1, <2>2, TypeOfChild DEF Fork
<1>8. CASE Store
  BY <1>8 DEF Store
<1>9. CASE KillManager
  <2>1. child' = child \/ child' = [p \in Pids |-> Dead(p)]
    BY <1>9 DEF KillManager, KillGroup
  <2>2. child' \in [Pids -> ChildRecord]
    BY <2>1, Records, TypeFacts, Zenon
  <2>3. main' \in {"kill", "gone"} /\ index' \in {0, index} /\ manager' = "ended"
    BY <1>9 DEF KillManager, KillGroup
  <2> QED BY <1>9, <2>2, <2>3, TypeOfChild DEF KillManager
<1>10. CASE KillSlot
  <2>1. CASE children[index] = 0
    <3>1. child' = [p \in Pids |-> Dead(p)]
      BY <1>10, <2>1 DEF KillSlot, KillGroup
    <3>2. child' \in [Pids -> ChildRecord]
      BY <3>1, Records, TypeFacts, Zenon
    <3> QED BY <1>10, <2>1, <3>2, TypeOfChild DEF KillSlot, KillGroup
  <2>2. CASE children[index] # 0
    <3>1. children[index] \in Pids
      BY <1>10, <2>2 DEF KillSlot
    <3>2. child' \in [Pids -> ChildRecord]
      BY <1>10, <2>2, <3>1, Records DEF KillSlot
    <3>3. index' \in 0 .. MaxCount /\ main' \in {"kill", "release"}
      BY <1>10, <2>2 DEF KillSlot, LastSlot
    <3> QED BY <1>10, <2>2, <3>2, <3>3, TypeOfChild DEF KillSlot
  <2> QED BY <2>1, <2>2
<1>11. CASE ReleaseData
  BY <1>11 DEF ReleaseData
<1>12. CASE Exit
  BY <1>12 DEF Exit
<1>13. CASE ManagerReady
  BY <1>13 DEF ManagerReady
<1> QED BY <1>1, <1>2, <1>3, <1>4, <1>5, <1>6, <1>7, <1>8, <1>9, <1>10, <1>11, <1>12, <1>13 DEF Main

LEMMA TypeChild == ASSUME IInv, NEW p \in Pids, Child(p) PROVE TypeOK'
<1> USE PidsAssumption, BirthsAssumption, AdvanceAssumption, TypeFacts DEF TypeOK, Running, Is, mains
<1>1. CASE SetId(p)
  <2>1. child' \in [Pids -> ChildRecord]
    BY <1>1, Records DEF SetId, Goto, Labels
  <2>2. children' \in [Slots -> Pids \cup {0}]
    BY <1>1 DEF SetId
  <2> QED BY <1>1, <2>1, <2>2, TypeOfChild DEF SetId
<1>2. CASE WalkerBirth(p)
  <2>1. PICK b \in WalkerBirths :
           child' = [child EXCEPT ![p] = [@ EXCEPT !.at = "lock_mark", !.current = b[1], !.next = b[2]]]
    BY <1>2 DEF WalkerBirth
  <2>2. b[1] \in Cells /\ b[2] \in Cells
    OBVIOUS
  <2>3. child' \in [Pids -> ChildRecord]
    BY <2>1, <2>2, Records DEF Labels, Points
  <2> QED BY <1>2, <2>3, TypeOfChild DEF WalkerBirth
<1>3. CASE CarBirth(p)
  <2>1. PICK c \in CarBirths :
           child' = [child EXCEPT ![p] = [@ EXCEPT !.at = "wait", !.current = c, !.next = c]]
    BY <1>3 DEF CarBirth
  <2>2. child' \in [Pids -> ChildRecord]
    BY <2>1, Records DEF Labels, Points
  <2> QED BY <1>3, <2>2, TypeOfChild DEF CarBirth
<1>4. CASE CarWait(p)
  BY <1>4 DEF CarWait, Goto
<1>5. CASE LockToMark(p)
  BY <1>5 DEF LockToMark, Lock, Locked, Goto
<1>6. CASE LockToMove(p)
  BY <1>6 DEF LockToMove, Lock, Locked, Goto
<1>7. CASE LockToLeave(p)
  BY <1>7 DEF LockToLeave, Lock, Locked, Goto
<1>8. CASE Mark(p)
  BY <1>8 DEF Mark, Goto
<1>9. CASE PauseFails(p)
  BY <1>9 DEF PauseFails, Goto
<1>10. CASE Check(p)
  BY <1>10 DEF Check, Goto, NextIsFree
<1>11. CASE Move(p)
  <2>1. PICK next \in Advance[child[p].next] :
           child' = [child EXCEPT ![p] = [@ EXCEPT !.at = IF next = Off THEN "lock_leave" ELSE "lock",
                                                   !.current = child[p].next, !.next = next]]
    BY <1>11 DEF Move
  <2>2. child[p].next \in Cells /\ child[p].next \in Points /\ next \in Points
    BY <1>11, <2>1 DEF Move, Points
  <2>3. "lock_leave" \in Labels /\ "lock" \in Labels
    BY DEF Labels
  <2>4. child' \in [Pids -> ChildRecord]
    BY <2>1, <2>2, <2>3, Records
  <2> QED BY <1>11, <2>2, <2>4, TypeOfChild DEF Move
<1>12. CASE WalkerLeave(p)
  BY <1>12 DEF WalkerLeave, Cleared, Goto
<1>13. CASE CarLeave(p)
  BY <1>13 DEF CarLeave, Goto
<1>14. CASE CarClear(p)
  BY <1>14 DEF CarClear, Cleared, Goto
<1> QED BY <1>1, <1>2, <1>3, <1>4, <1>5, <1>6, <1>7, <1>8, <1>9, <1>10, <1>11, <1>12, <1>13, <1>14 DEF Child
-----------------------------------------------------------------------------
(* What a step does to a process that does not take it *)
Same(q) == child'[q].type = child[q].type /\ child'[q].slot = child[q].slot
           /\ child'[q].current = child[q].current /\ child'[q].next = child[q].next

LEMMA OthersStay ==
    ASSUME TypeOK, NEW p \in Pids, Child(p)
    PROVE  /\ \A q \in Pids \ {p} : child'[q] = child[q]
           /\ child'[p].type = child[p].type /\ child'[p].slot = child[p].slot
           /\ Alive(p)
           /\ UNCHANGED mains
<1>0. child \in [Pids -> ChildRecord]
  BY Records
<1> USE <1>0 DEF Goto, Lock, Is, Alive, Running, ChildRecord
<1>1. CASE SetId(p) \/ CarWait(p)
  BY <1>1 DEF SetId, CarWait
<1>5. CASE WalkerBirth(p)
  BY <1>5 DEF WalkerBirth
<1>6. CASE CarBirth(p)
  BY <1>6 DEF CarBirth
<1>2. CASE LockToMark(p) \/ LockToMove(p) \/ LockToLeave(p)
  BY <1>2 DEF LockToMark, LockToMove, LockToLeave
<1>3. CASE Mark(p) \/ PauseFails(p) \/ Check(p)
  BY <1>3 DEF Mark, PauseFails, Check
<1>7. CASE Move(p)
  BY <1>7 DEF Move
<1>4. CASE WalkerLeave(p) \/ CarLeave(p) \/ CarClear(p)
  BY <1>4 DEF WalkerLeave, CarLeave, CarClear
<1> QED BY <1>1, <1>2, <1>3, <1>4, <1>5, <1>6, <1>7 DEF Child

LEMMA MainKeeps ==
    ASSUME IInv, Main \/ Exit \/ ManagerReady
    PROVE  /\ grid' = grid
           /\ \A q \in Pids :
                 \/ child'[q] = child[q]
                 \/ ~Is(q, "none") /\ Same(q) /\ child'[q].at \in {"zombie", "reaped"}
                 \/ Is(q, "none") /\ child'[q].at = "start"
<1>0. child \in [Pids -> ChildRecord]
  BY TypeFacts, Records
<1>1. CASE Inicio \/ ForkManager \/ StoreManager \/ Await \/ Scan \/ Store \/ ReleaseData \/ Exit
           \/ ManagerReady
  BY <1>1 DEF Inicio, ForkManager, StoreManager, Await, Scan, Store, ReleaseData, Exit, ManagerReady
<1>2. CASE Count
  <2>1. CASE Full
    <3>1. PICK p \in Pids : Is(p, "zombie") /\ child' = [child EXCEPT ![p].at = "reaped"]
      BY <1>2, <2>1 DEF Count
    <3>2. \A q \in Pids : q # p => child'[q] = child[q]
      BY <1>0, <3>1
    <3>3. child'[p].at = "reaped" /\ Same(p)
      BY <1>0, <3>1 DEF ChildRecord, Same
    <3> QED BY <1>2, <3>1, <3>2, <3>3 DEF Count, Is
  <2> QED BY <1>2, <2>1 DEF Count
<1>3. CASE Fork
  <2>1. PICK p \in Pids, type \in {"COCHE", "PEAToN"} :
           /\ Is(p, "none")
           /\ child' = [child EXCEPT ![p] = [@ EXCEPT !.at = "start", !.type = type, !.slot = index]]
    BY <1>3 DEF Fork
  <2>2. \A q \in Pids : q # p => child'[q] = child[q]
    BY <1>0, <2>1
  <2>3. child'[p].at = "start"
    BY <1>0, <2>1 DEF ChildRecord
  <2> QED BY <1>3, <2>1, <2>2, <2>3 DEF Fork
<1>4. ASSUME NEW q \in Pids, child'[q] = Dead(q)
      PROVE  \/ child'[q] = child[q]
             \/ ~Is(q, "none") /\ Same(q) /\ child'[q].at \in {"zombie", "reaped"}
  BY <1>0, <1>4 DEF Dead, Alive, Running, Is, Same, ChildRecord
<1>5. CASE KillManager
  <2>1. child' = child \/ child' = [q \in Pids |-> Dead(q)]
    BY <1>5 DEF KillManager, KillGroup
  <2> QED BY <1>4, <1>5, <2>1 DEF KillManager
<1>6. CASE KillSlot
  <2>1. \A q \in Pids : child'[q] \in {child[q], Dead(q)}
    <3>1. CASE children[index] = 0
      BY <1>6, <3>1 DEF KillSlot, KillGroup
    <3>2. CASE children[index] # 0
      BY <1>0, <1>6, <3>2 DEF KillSlot
    <3> QED BY <3>1, <3>2
  <2> QED BY <1>4, <1>6, <2>1 DEF KillSlot
<1> QED BY <1>1, <1>2, <1>3, <1>5, <1>6 DEF Main


LEMMA FledStays == ASSUME IInv, [Next]_vars, Fled PROVE Fled'
<1>1. PICK p \in Pids : /\ child[p].type = "COCHE" /\ child[p].current # Off
                        /\ child[p].current = child[p].next
                        /\ child[p].at \in {"lock_leave", "leave", "clear", "zombie", "reaped"}
  BY DEF Fled
<1>2. CASE Main \/ Exit \/ ManagerReady
  BY <1>1, <1>2, MainKeeps DEF Fled, Is, Same
<1>3. ASSUME NEW q \in Pids, Child(q) PROVE Fled'
  <2>1. TypeOK
    BY TypeFacts
  <2>2. CASE q # p
    BY <1>1, <1>3, <2>1, <2>2, OthersStay DEF Fled
  <2>3. CASE q = p
    <3>0. child \in [Pids -> ChildRecord]
      BY <2>1, Records
    <3>1. child[p].at \in {"lock_leave", "leave", "clear"}
      BY <1>1, <1>3, <2>1, <2>3, OthersStay DEF Alive, Running
    <3>2. LockToLeave(p) \/ WalkerLeave(p) \/ CarLeave(p) \/ CarClear(p)
      BY <1>3, <2>3, <3>1 DEF Child, SetId, WalkerBirth, CarBirth, CarWait, LockToMark, LockToMove,
           Lock, Mark, PauseFails, Check, Move, Is
    <3>3. Same(p) /\ child'[p].at \in {"leave", "clear", "zombie"}
      BY <3>0, <3>2 DEF LockToLeave, Lock, WalkerLeave, CarLeave, CarClear, Goto, ChildRecord, Same
    <3> QED BY <1>1, <3>3 DEF Fled, Same
  <2> QED BY <2>2, <2>3
<1>4. CASE UNCHANGED vars
  BY <1>1, <1>4 DEF Fled, vars
<1> QED BY <1>2, <1>3, <1>4 DEF Next
-----------------------------------------------------------------------------
(* The way of cars and walkers: the main process and its manager do not touch it *)
LEMMA WayMain ==
    ASSUME IInv, Main \/ Exit \/ ManagerReady
    PROVE  MutexInv' /\ WayInv' /\ NobodyRunOver'
<1>0. /\ grid' = grid
      /\ \A q \in Pids :
            \/ child'[q] = child[q]
            \/ ~Is(q, "none") /\ Same(q) /\ child'[q].at \in {"zombie", "reaped"}
            \/ Is(q, "none") /\ child'[q].at = "start"
  BY MainKeeps
<1>1. Critical' \subseteq Critical
  BY <1>0 DEF Critical
<1>2. map_access' = map_access \/ Critical = {}
  <2>1. CASE Inicio
    BY <2>1 DEF Inicio, IInv, StartInv, SettingUp, Is, Critical
  <2>2. CASE ~Inicio
    BY <2>2 DEF Main, ForkManager, StoreManager, Await, Count, Scan, Fork, Store, KillManager,
         KillSlot, ReleaseData, Exit, ManagerReady
  <2> QED BY <2>1, <2>2
<1>3. MutexInv'
  BY <1>1, <1>2 DEF MutexInv, IInv
<1>4. WayInv'
  BY <1>0 DEF WayInv, IInv, Running
<1>5. NobodyRunOver'
  <2>1. Fled => Fled'
    BY FledStays DEF Next
  <2>2. \A q \in Pids, c \in Cells : StandsOn(q, c)' => StandsOn(q, c)
    BY <1>0 DEF StandsOn
  <2> QED BY <1>0, <2>1, <2>2 DEF NobodyRunOver, IInv
<1> QED BY <1>3, <1>4, <1>5

LEMMA MutexChild == ASSUME IInv, NEW p \in Pids, Child(p) PROVE MutexInv'
<1>0. MutexInv /\ map_access \in {0, 1} /\ TypeOK /\ child \in [Pids -> ChildRecord]
  BY TypeFacts, Records DEF IInv, TypeOK
<1>0a. \A q \in Pids \ {p} : child'[q] = child[q]
  BY <1>0, OthersStay
<1> USE <1>0, <1>0a DEF MutexInv, Critical, Is, ChildRecord
<1>1. CASE SetId(p)
  BY <1>1 DEF SetId, Goto
<1>2. CASE WalkerBirth(p)
  BY <1>2 DEF WalkerBirth
<1>3. CASE CarBirth(p)
  BY <1>3 DEF CarBirth
<1>4. CASE CarWait(p)
  BY <1>4 DEF CarWait, Goto
<1>5. CASE LockToMark(p)
  BY <1>5 DEF LockToMark, Lock, Locked, Goto
<1>6. CASE LockToMove(p)
  BY <1>6 DEF LockToMove, Lock, Locked, Goto
<1>7. CASE LockToLeave(p)
  BY <1>7 DEF LockToLeave, Lock, Locked, Goto
<1>8. CASE Mark(p)
  BY <1>8 DEF Mark, Goto
<1>9. CASE PauseFails(p)
  BY <1>9 DEF PauseFails, Goto
<1>10. CASE Check(p)
  BY <1>10 DEF Check, Goto, NextIsFree
<1>11. CASE Move(p)
  BY <1>11 DEF Move
<1>12. CASE WalkerLeave(p)
  BY <1>12 DEF WalkerLeave, Cleared, Goto
<1>13. CASE CarLeave(p)
  BY <1>13 DEF CarLeave, Goto
<1>14. CASE CarClear(p)
  BY <1>14 DEF CarClear, Cleared, Goto
<1> QED BY <1>1, <1>2, <1>3, <1>4, <1>5, <1>6, <1>7, <1>8, <1>9, <1>10, <1>11, <1>12, <1>13, <1>14 DEF Child

LEMMA WayChild == ASSUME IInv, NEW p \in Pids, Child(p) PROVE WayInv'
<1>0. WayInv /\ MutexInv /\ TypeOK /\ child \in [Pids -> ChildRecord]
  BY TypeFacts, Records DEF IInv
<1>0a. \A q \in Pids \ {p} : child'[q] = child[q]
  BY <1>0, OthersStay
<1> USE <1>0, <1>0a, BirthsAssumption, AdvanceAssumption DEF WayInv, Is, ChildRecord, Running
<1>1. CASE SetId(p)
  BY <1>1 DEF SetId, Goto
<1>2. CASE WalkerBirth(p)
  <2>1. PICK b \in WalkerBirths :
           child' = [child EXCEPT ![p] = [@ EXCEPT !.at = "lock_mark", !.current = b[1], !.next = b[2]]]
    BY <1>2 DEF WalkerBirth
  <2>2. b[1] \in Births /\ b[1] \in Cells /\ b[2] \in Cells /\ b[1] # b[2]
    BY DEF Births
  <2>3. child'[p] = [child[p] EXCEPT !.at = "lock_mark", !.current = b[1], !.next = b[2]]
    BY <2>1
  <2>4. /\ child'[p].at = "lock_mark" /\ child'[p].type = child[p].type
        /\ child'[p].current = b[1] /\ child'[p].next = b[2]
    BY <2>3
  <2> QED BY <1>2, <2>2, <2>4 DEF WalkerBirth
<1>3. CASE CarBirth(p)
  BY <1>3 DEF CarBirth
<1>4. CASE CarWait(p)
  BY <1>4 DEF CarWait, Goto
<1>5. CASE LockToMark(p)
  BY <1>5 DEF LockToMark, Lock, Locked, Goto
<1>6. CASE LockToMove(p)
  BY <1>6 DEF LockToMove, Lock, Locked, Goto
<1>7. CASE LockToLeave(p)
  BY <1>7 DEF LockToLeave, Lock, Locked, Goto
<1>8. CASE Mark(p)
  <2>1. \A q \in Pids \ {p} : child[q].at # "move"
    BY <1>8 DEF Mark, MutexInv, Critical
  <2>2. child'[p] = [child[p] EXCEPT !.at = "lock"] /\ child[p].at = "mark"
    BY <1>8 DEF Mark, Goto
  <2> QED BY <2>1, <2>2, <1>8 DEF Mark
<1>9. CASE PauseFails(p)
  BY <1>9 DEF PauseFails, Goto
<1>10. CASE Check(p)
  BY <1>10 DEF Check, Goto, NextIsFree
<1>11. CASE Move(p)
  <2>1. \A q \in Pids \ {p} : child[q].at # "move"
    BY <1>11 DEF Move, MutexInv, Critical
  <2>2. PICK next \in Advance[child[p].next] :
           child' = [child EXCEPT ![p] = [@ EXCEPT !.at = IF next = Off THEN "lock_leave" ELSE "lock",
                                                   !.current = child[p].next, !.next = next]]
    BY <1>11 DEF Move
  <2>3. child[p].next \in Cells /\ (next = Off \/ next \in Cells) /\ next # child[p].next
    BY <1>11, <2>2 DEF Move
  <2>4. /\ child'[p].at = IF next = Off THEN "lock_leave" ELSE "lock"
        /\ child'[p].current = child[p].next /\ child'[p].next = next
    BY <2>2
  <2> HIDE DEF ChildRecord
  <2> QED BY <2>1, <2>3, <2>4
<1>12. CASE WalkerLeave(p)
  BY <1>12 DEF WalkerLeave, Cleared, Goto
<1>13. CASE CarLeave(p)
  BY <1>13 DEF CarLeave, Goto
<1>14. CASE CarClear(p)
  BY <1>14 DEF CarClear, Cleared, Goto
<1> QED BY <1>1, <1>2, <1>3, <1>4, <1>5, <1>6, <1>7, <1>8, <1>9, <1>10, <1>11, <1>12, <1>13, <1>14 DEF Child

LEMMA RunOverChild ==
    ASSUME IInv, NEW p \in Pids, Child(p), ~Fled'
    PROVE  \A c \in Cells \ Births :
              /\ \A q, r \in Pids : StandsOn(q, c)' /\ StandsOn(r, c)' => q = r
              /\ \A q \in Pids : StandsOn(q, c)' => c \in grid'
<1>0. /\ WayInv /\ TypeOK /\ child \in [Pids -> ChildRecord]
      /\ \A q \in Pids \ {p} : child'[q] = child[q]
  BY TypeFacts, Records, OthersStay DEF IInv
<1>1. ~Fled
  BY FledStays DEF Next
<1> SUFFICES ASSUME NEW c \in Cells \ Births
             PROVE  /\ \A q, r \in Pids : StandsOn(q, c)' /\ StandsOn(r, c)' => q = r
                    /\ \A q \in Pids : StandsOn(q, c)' => c \in grid'
  OBVIOUS
<1>2. /\ \A q, r \in Pids : StandsOn(q, c) /\ StandsOn(r, c) => q = r
      /\ \A q \in Pids : StandsOn(q, c) => c \in grid
  BY <1>1 DEF IInv, NobodyRunOver, Births
<1>3. \A q \in Pids \ {p} : StandsOn(q, c)' => StandsOn(q, c)
  BY <1>0 DEF StandsOn
(* Who leaves a cell, or clears it, is the one who stood on it *)
<1>4. CASE Move(p)
  <2>1. /\ grid' = (grid \ {child[p].current}) \cup {child[p].next}
        /\ child[p].at = "move" /\ child[p].next \notin grid
    BY <1>0, <1>4 DEF Move, Is, WayInv
  <2>2. PICK next \in Advance[child[p].next] :
           child' = [child EXCEPT ![p] = [@ EXCEPT !.at = IF next = Off THEN "lock_leave" ELSE "lock",
                                                   !.current = child[p].next, !.next = next]]
    BY <1>4 DEF Move
  <2>3. child'[p].current = child[p].next
    <3>1. child'[p] = [child[p] EXCEPT !.at = IF next = Off THEN "lock_leave" ELSE "lock",
                                       !.current = child[p].next, !.next = next]
      BY <1>0, <2>2
    <3> QED BY <1>0, <3>1 DEF ChildRecord
  <2>4. StandsOn(p, c)' => c = child[p].next
    BY <2>3 DEF StandsOn
  <2>5. c = child[p].next => \A q \in Pids : ~StandsOn(q, c)
    BY <1>2, <2>1
  <2>6. c = child[p].current /\ c # child[p].next => StandsOn(p, c)
    BY <2>1 DEF StandsOn
  <2> QED BY <1>2, <1>3, <2>1, <2>4, <2>5, <2>6
<1>5. CASE WalkerLeave(p) \/ CarLeave(p)
  <2>1. grid' = grid \ {child[p].current} /\ child[p].at = "leave"
    BY <1>5 DEF WalkerLeave, CarLeave, Is
  <2>2. child[p].current # child[p].next
    <3>1. CASE child[p].type = "PEAToN"
      BY <1>0, <2>1, <3>1 DEF WayInv, Running
    <3>2. CASE child[p].type = "COCHE"
      BY <1>0, <1>1, <2>1, <3>2, AdvanceAssumption DEF WayInv, Fled
    <3> QED BY <1>0, <3>1, <3>2 DEF ChildRecord
  <2>3. c = child[p].current => StandsOn(p, c)
    BY <2>1, <2>2 DEF StandsOn
  <2>4. child'[p].at \in {"zombie", "clear"}
    BY <1>0, <1>5 DEF WalkerLeave, CarLeave, Goto, ChildRecord
  <2>5. ~StandsOn(p, c)'
    BY <2>4 DEF StandsOn
  <2> QED BY <1>2, <1>3, <2>1, <2>3, <2>5
<1>6. CASE ~Move(p) /\ ~WalkerLeave(p) /\ ~CarLeave(p)
  <2>1. grid \subseteq grid'
    BY <1>6 DEF Child, SetId, WalkerBirth, CarBirth, CarWait, LockToMark, LockToMove, LockToLeave,
         Lock, Mark, PauseFails, Check, CarClear
  <2>2. StandsOn(p, c)' => StandsOn(p, c)
    <3>1. CASE SetId(p) \/ WalkerBirth(p) \/ CarBirth(p) \/ LockToMark(p) \/ CarClear(p)
      <4>1. child'[p].at \in {"birth", "lock_mark", "wait", "mark", "zombie"}
        <5>1. CASE SetId(p) \/ LockToMark(p) \/ CarClear(p)
          BY <1>0, <5>1 DEF SetId, LockToMark, CarClear, Lock, Goto, ChildRecord
        <5>2. CASE WalkerBirth(p)
          BY <1>0, <5>2 DEF WalkerBirth, ChildRecord
        <5>3. CASE CarBirth(p)
          BY <1>0, <5>3 DEF CarBirth, ChildRecord
        <5> QED BY <3>1, <5>1, <5>2, <5>3
      <4> QED BY <4>1 DEF StandsOn
    <3>2. CASE CarWait(p) \/ Mark(p)
      <4>1. Same(p) /\ child[p].at \in {"wait", "mark"}
        BY <1>0, <3>2 DEF CarWait, Mark, Goto, Is, Same, ChildRecord
      <4> QED BY <1>0, <4>1 DEF StandsOn, WayInv, Same
    <3>3. CASE LockToMove(p) \/ LockToLeave(p) \/ PauseFails(p) \/ Check(p)
      <4>1. Same(p) /\ child[p].at \in {"lock", "lock_leave", "check"}
        BY <1>0, <3>3 DEF LockToMove, LockToLeave, PauseFails, Check, Lock, Goto, Is, Same, ChildRecord
      <4> QED BY <4>1 DEF StandsOn, Same
    <3> QED BY <1>6, <3>1, <3>2, <3>3 DEF Child
  <2> QED BY <1>2, <1>3, <2>1, <2>2
<1> QED BY <1>4, <1>5, <1>6
-----------------------------------------------------------------------------
(* Slots, counts and the end *)
LEMMA ChildMoves ==
    ASSUME IInv, NEW p \in Pids, Child(p)
    PROVE  /\ child'[p].at \notin {"none", "reaped", "start"}
           /\ Is(p, "start") => SetId(p)
           /\ \/ children' = children /\ Alive(p)'
              \/ SetId(p) /\ children' = [children EXCEPT ![child[p].slot] = p] /\ Alive(p)'
              \/ ~Is(p, "start") /\ children' = [children EXCEPT ![child[p].slot] = 0] /\ ~Alive(p)'
<1>0. child \in [Pids -> ChildRecord]
  BY TypeFacts, Records
<1>1. CASE SetId(p)
  BY <1>0, <1>1 DEF SetId, Goto, Alive, Running, ChildRecord
<1>2. CASE WalkerLeave(p) \/ CarClear(p)
  BY <1>0, <1>2 DEF WalkerLeave, CarClear, Cleared, Goto, Is, Alive, Running, ChildRecord
<1>3. CASE WalkerBirth(p)
  BY <1>0, <1>3 DEF WalkerBirth, Is, Alive, Running, ChildRecord
<1>4. CASE CarBirth(p)
  BY <1>0, <1>4 DEF CarBirth, Is, Alive, Running, ChildRecord
<1>5. CASE Move(p)
  <2>1. PICK next \in Advance[child[p].next] :
           child' = [child EXCEPT ![p] = [@ EXCEPT !.at = IF next = Off THEN "lock_leave" ELSE "lock",
                                                   !.current = child[p].next, !.next = next]]
    BY <1>5 DEF Move
  <2>2. child'[p] = [child[p] EXCEPT !.at = IF next = Off THEN "lock_leave" ELSE "lock",
                                     !.current = child[p].next, !.next = next]
    BY <1>0, <2>1
  <2>3. child'[p].at \in {"lock_leave", "lock"}
    BY <1>0, <2>2 DEF ChildRecord
  <2> QED BY <1>5, <2>3 DEF Move, Is, Alive, Running
<1>6. CASE CarWait(p) \/ Mark(p) \/ PauseFails(p) \/ Check(p) \/ CarLeave(p)
  BY <1>0, <1>6 DEF CarWait, Mark, PauseFails, Check, CarLeave, Goto, Is, Alive, Running, ChildRecord
<1>7. CASE LockToMark(p) \/ LockToMove(p) \/ LockToLeave(p)
  BY <1>0, <1>7 DEF LockToMark, LockToMove, LockToLeave, Lock, Goto, Is, Alive, Running, ChildRecord
<1> QED BY <1>1, <1>2, <1>3, <1>4, <1>5, <1>6, <1>7 DEF Child

(* Two that are alive do not share a slot *)
LEMMA OneEach ==
    ASSUME IInv, NEW p \in Pids, NEW q \in Pids, Alive(p), Alive(q), child[p].slot = child[q].slot
    PROVE  p = q
BY PidsAssumption DEF IInv, SlotInv, AliveStored, SlotsGiven

LEMMA StartStep == ASSUME IInv, [Next]_vars PROVE StartInv'
<1>0. StartInv
  BY DEF IInv
<1>1. ASSUME NEW p \in Pids, Child(p) PROVE StartInv'
  <2>1. Alive(p) /\ UNCHANGED mains
    BY <1>1, OthersStay, TypeFacts
  <2>2. main \notin SettingUp
    BY <1>0, <2>1 DEF StartInv, Alive, Running, Is
  <2>3. manager_ready' = manager_ready
    BY <1>1 DEF Child, SetId, WalkerBirth, CarBirth, CarWait, LockToMark, LockToMove, LockToLeave,
         Lock, Mark, PauseFails, Check, Move, WalkerLeave, CarLeave, CarClear
  <2> QED BY <1>0, <2>1, <2>2, <2>3 DEF StartInv, mains, SettingUp
<1>2. CASE Inicio \/ ForkManager \/ StoreManager \/ Await \/ Scan \/ Store \/ ReleaseData \/ Exit
           \/ ManagerReady
  BY <1>0, <1>2 DEF Inicio, ForkManager, StoreManager, Await, Scan, Store, ReleaseData, Exit,
                    ManagerReady, StartInv, SettingUp, Is
<1>3. CASE Count \/ Fork \/ KillManager \/ KillSlot
  BY <1>0, <1>3 DEF Count, Fork, KillManager, KillSlot, KillGroup, StartInv, SettingUp
<1>4. CASE UNCHANGED vars
  BY <1>0, <1>4 DEF vars, mains, StartInv, Is
<1> QED BY <1>1, <1>2, <1>3, <1>4 DEF Next, Main

LEMMA SlotChild == ASSUME IInv, NEW p \in Pids, Child(p) PROVE SlotInv'
<1>0. /\ SlotInv /\ child \in [Pids -> ChildRecord]
      /\ \A q \in Pids \ {p} : child'[q] = child[q]
      /\ child'[p].slot = child[p].slot /\ Alive(p) /\ UNCHANGED mains
      /\ children \in [Slots -> Pids \cup {0}] /\ child[p].slot \in Slots
      /\ child'[p].at \notin {"none", "reaped", "start"}
  BY TypeFacts, Records, OthersStay, ChildMoves DEF IInv, TypeOK, ChildRecord
<1>1. \A q \in Pids : ~Is(q, "none") => ~Is(q, "none")' /\ child'[q].slot = child[q].slot
  BY <1>0 DEF Is
<1>2. main = "store" => newborn \in Unreaped' /\ child'[newborn].slot = index /\ index \in Slots
  BY <1>0 DEF SlotInv, SlotOfNewborn, Unreaped
<1>7. main' = main /\ index' = index /\ newborn' = newborn /\ (main = "fork" => index \in Slots)
  BY <1>0 DEF mains, SlotInv, SlotOfNewborn
<1>3. \A q \in Pids \ {p} : child[q].slot = child[p].slot => ~Alive(q)'
  BY <1>0, OneEach DEF Alive
<1>4. CASE children' = children /\ Alive(p)'
  <2>1. children[child[p].slot] = p \/ SetId(p)
    BY <1>0, ChildMoves DEF SlotInv, AliveStored
  <2>2. children'[child[p].slot] = p
    <3>1. CASE SetId(p)
      BY <1>0, <3>1, <1>4 DEF SetId
    <3> QED BY <1>4, <2>1, <3>1
  <2>3. SlotsGiven'
    BY <1>0, <1>1, <1>4 DEF SlotInv, SlotsGiven
  <2>4. AliveStored'
    BY <1>0, <1>4, <1>7, <2>2 DEF SlotInv, AliveStored, Alive, Is, Ending
  <2>5. SlotOfNewborn'
    BY <1>0, <1>2, <1>4, <1>7 DEF SlotInv, SlotOfNewborn
  <2> QED BY <2>3, <2>4, <2>5 DEF SlotInv
<1>5. CASE SetId(p) /\ children' = [children EXCEPT ![child[p].slot] = p] /\ Alive(p)'
  <2>1. /\ \A i \in Slots : children'[i] = IF i = child[p].slot THEN p ELSE children[i]
        /\ Is(p, "start")
    BY <1>0, <1>5 DEF SetId
  <2>2. SlotsGiven'
    BY <1>0, <1>1, <2>1 DEF SlotInv, SlotsGiven, Is
  <2>3. AliveStored'
    BY <1>0, <1>3, <1>7, <2>1 DEF SlotInv, AliveStored, Alive, Is, ChildRecord, Ending
  <2>4. main = "fork" => children'[index] = 0
    BY <1>0, <2>1, PidsAssumption DEF SlotInv, SlotOfNewborn, AliveStored, Ending
  <2>5. main = "store" => children'[index] \in {0, newborn}
    BY <1>0, <2>1 DEF SlotInv, SlotOfNewborn, AliveStored
  <2>6. SlotOfNewborn'
    BY <1>2, <1>7, <2>4, <2>5 DEF SlotOfNewborn
  <2> QED BY <2>2, <2>3, <2>6 DEF SlotInv
<1>6. CASE ~Is(p, "start") /\ children' = [children EXCEPT ![child[p].slot] = 0] /\ ~Alive(p)'
  <2>1. \A i \in Slots : children'[i] = IF i = child[p].slot THEN 0 ELSE children[i]
    BY <1>0, <1>6
  <2>2. SlotsGiven'
    BY <1>0, <1>1, <2>1 DEF SlotInv, SlotsGiven
  <2>3. AliveStored'
    BY <1>0, <1>3, <1>7, <1>6, <2>1 DEF SlotInv, AliveStored, Alive, Is, ChildRecord, Ending
  <2>4. main = "fork" => children'[index] = 0
    BY <1>0, <2>1 DEF SlotInv, SlotOfNewborn, AliveStored
  <2>5. main = "store" => children'[index] \in {0, newborn}
    BY <1>0, <2>1 DEF SlotInv, SlotOfNewborn, AliveStored
  <2>6. SlotOfNewborn'
    BY <1>2, <1>7, <2>4, <2>5 DEF SlotOfNewborn
  <2> QED BY <2>2, <2>3, <2>6 DEF SlotInv
<1> QED BY <1>4, <1>5, <1>6, ChildMoves

LEMMA SlotMain ==
    ASSUME IInv, Main \/ Exit \/ ManagerReady
    PROVE  SlotInv'
<1>0. /\ SlotInv /\ child \in [Pids -> ChildRecord]
      /\ children \in [Slots -> Pids \cup {0}] /\ newborn \in Pids \cup {0}
  BY TypeFacts, Records DEF IInv, TypeOK
<1>1. \A q \in Pids :
         \/ child'[q] = child[q]
         \/ ~Is(q, "none") /\ Same(q) /\ child'[q].at \in {"zombie", "reaped"}
         \/ Is(q, "none") /\ child'[q].at = "start"
  BY MainKeeps
<1>2. CASE Fork
  <2>1. PICK p \in Pids, type \in {"COCHE", "PEAToN"} :
           /\ Is(p, "none") /\ newborn' = p
           /\ child' = [child EXCEPT ![p] = [@ EXCEPT !.at = "start", !.type = type, !.slot = index]]
    BY <1>2 DEF Fork
  <2>2. main = "fork" /\ main' = "store" /\ index' = index /\ children' = children
        /\ index \in Slots /\ children[index] = 0
    BY <1>0, <1>2 DEF Fork, SlotInv, SlotOfNewborn
  <2>3. \A q \in Pids : q # p => child'[q] = child[q]
    BY <1>0, <2>1
  <2>4. child'[p].at = "start" /\ child'[p].slot = index
    <3>1. child'[p] = [child[p] EXCEPT !.at = "start", !.type = type, !.slot = index]
      BY <1>0, <2>1
    <3> QED BY <1>0, <3>1 DEF ChildRecord
  <2>5. \A i \in Slots : children[i] # p
    BY <1>0, <2>1, PidsAssumption DEF SlotInv, SlotsGiven
  <2>6. SlotsGiven'
    BY <1>0, <2>2, <2>3, <2>5 DEF SlotInv, SlotsGiven, Is
  <2>7. AliveStored'
    BY <1>0, <2>1, <2>2, <2>3, <2>4 DEF SlotInv, AliveStored, Is, Alive, Ending
  <2>8. SlotOfNewborn'
    BY <2>1, <2>2, <2>4 DEF SlotOfNewborn, Unreaped
  <2> QED BY <2>6, <2>7, <2>8 DEF SlotInv
<1>3. ASSUME ~Fork PROVE SlotInv'
  <2>1. \A q \in Pids : Is(q, "none") => Is(q, "none")'
    <3>1. CASE Inicio \/ ForkManager \/ StoreManager \/ Await \/ Scan \/ Store \/ ReleaseData \/ Exit
               \/ ManagerReady
      BY <3>1 DEF Inicio, ForkManager, StoreManager, Await, Scan, Store, ReleaseData, Exit,
                  ManagerReady, Is
    <3>2. CASE Count
      BY <1>0, <3>2 DEF Count, Is
    <3>3. CASE KillManager
      BY <1>0, <3>3 DEF KillManager, KillGroup, Dead, Alive, Running, Is
    <3>4. CASE KillSlot
      <4>1. CASE children[index] = 0
        BY <1>0, <3>4, <4>1 DEF KillSlot, KillGroup, Dead, Alive, Running, Is
      <4>2. CASE children[index] # 0
        BY <1>0, <3>4, <4>2 DEF KillSlot, Dead, Alive, Running, Is
      <4> QED BY <4>1, <4>2
    <3> QED BY <1>3, <3>1, <3>2, <3>3, <3>4 DEF Main
  <2>2. /\ \A q \in Pids : ~Is(q, "none") => ~Is(q, "none")' /\ child'[q].slot = child[q].slot
        /\ \A q \in Pids : Alive(q)' => Alive(q) /\ child'[q] = child[q]
    BY <1>1, <2>1 DEF Is, Same, Alive, Running
  <2>3. CASE Store
    <3>1. /\ index \in Slots /\ newborn \in Pids /\ child[newborn].slot = index
          /\ ~Is(newborn, "none") /\ children[index] \in {0, newborn}
      BY <1>0, <2>3 DEF Store, SlotInv, SlotOfNewborn, Unreaped, Is
    <3>2. /\ \A i \in Slots : children'[i] = IF i = index THEN newborn ELSE children[i]
          /\ main' = "count" /\ child' = child /\ newborn' = newborn
      BY <1>0, <2>3, <3>1 DEF Store
    <3>3. SlotsGiven'
      BY <1>0, <3>1, <3>2 DEF SlotInv, SlotsGiven, Is
    <3>4. AliveStored'
      BY <1>0, <3>1, <3>2, PidsAssumption DEF SlotInv, AliveStored, Is, Alive, ChildRecord
    <3>5. SlotOfNewborn'
      BY <3>2 DEF SlotOfNewborn
    <3> QED BY <3>3, <3>4, <3>5 DEF SlotInv
  <2>4. ASSUME ~Store PROVE SlotInv'
    <3>1. /\ children' = children /\ newborn' = newborn
          /\ \/ main' = main /\ index' = index
             \/ /\ main' # "store"
                /\ main \in {"store"} \cup Ending => main' \in Ending
                /\ main' = "fork" => index' \in Slots /\ children[index'] = 0
      <4>1. CASE Inicio \/ ForkManager \/ StoreManager \/ Await \/ Count
        BY <4>1 DEF Inicio, ForkManager, StoreManager, Await, Count, Ending
      <4>2. CASE Scan
        BY <4>2 DEF Scan, Free, Ending
      <4>3. CASE KillManager \/ KillSlot \/ ReleaseData \/ Exit
        BY <4>3 DEF KillManager, KillSlot, KillGroup, ReleaseData, Exit, Ending
      <4>4. CASE ManagerReady
        BY <4>4 DEF ManagerReady
      <4> QED BY <1>3, <2>4, <4>1, <4>2, <4>3, <4>4 DEF Main
    <3>2. SlotsGiven'
      BY <1>0, <2>2, <3>1 DEF SlotInv, SlotsGiven
    <3>3. AliveStored'
      BY <1>0, <2>2, <3>1 DEF SlotInv, AliveStored, Is, Ending
    <3>4. SlotOfNewborn'
      <4>1. CASE main' = main /\ index' = index
        <5>1. main = "store" => child' = child
          BY <1>3, <2>4, <4>1 DEF Main, Inicio, ForkManager, StoreManager, Await, Count, Scan,
               KillManager, KillSlot, ReleaseData, Exit, ManagerReady
        <5> QED BY <1>0, <3>1, <4>1, <5>1 DEF SlotInv, SlotOfNewborn, Unreaped
      <4>2. CASE main' # "store" /\ (main' = "fork" => index' \in Slots /\ children[index'] = 0)
        BY <3>1, <4>2 DEF SlotOfNewborn
      <4> QED BY <3>1, <4>1, <4>2
    <3> QED BY <3>2, <3>3, <3>4 DEF SlotInv
  <2> QED BY <2>3, <2>4
<1> QED BY <1>2, <1>3

LEMMA CountStep == ASSUME IInv, [Next]_vars PROVE CountInv'
<1>0. /\ CountInv /\ StartInv /\ TypeOK /\ child \in [Pids -> ChildRecord]
      /\ alive_count \in 0 .. MaxCount /\ MaxCount \in Nat
  <2>1. TypeOK
    BY DEF IInv
  <2>2. alive_count \in 0 .. MaxCount
    BY <2>1 DEF TypeOK
  <2> QED BY <2>1, <2>2, Records, CountAssumption DEF IInv
<1>1. IsFiniteSet(Unreaped) /\ Cardinality(Unreaped) \in Nat
  BY PidsAssumption, FS_Subset, FS_CardinalityType DEF Unreaped
<1>2. ASSUME NEW p \in Pids, Child(p) PROVE CountInv'
  <2>1. UNCHANGED mains /\ \A q \in Pids \ {p} : child'[q] = child[q]
    BY <1>0, <1>2, OthersStay
  <2>2. p \in Unreaped /\ p \in Unreaped'
    BY <1>0, <1>2, OthersStay, ChildMoves DEF Unreaped, Alive, Running
  <2>3. Unreaped' = Unreaped
    BY <2>1, <2>2 DEF Unreaped
  <2> QED BY <1>0, <2>1, <2>3 DEF CountInv, mains
<1>3. CASE Count
  <2>1. CASE Full
    <3>1. PICK p \in Pids : Is(p, "zombie") /\ child' = [child EXCEPT ![p].at = "reaped"]
      BY <1>3, <2>1 DEF Count
    <3>2. p \in Unreaped /\ Unreaped' = Unreaped \ {p}
      BY <1>0, <3>1 DEF Unreaped, Is, ChildRecord
    <3>3. Cardinality(Unreaped') = Cardinality(Unreaped) - 1
      BY <1>1, <3>2, FS_RemoveElement
    <3> QED BY <1>0, <1>1, <1>3, <2>1, <3>3 DEF Count, Full, CountInv
  <2>2. CASE ~Full
    <3>1. alive_count < MaxCount
      BY <1>0, <2>2 DEF Full, TypeOK
    <3> QED BY <1>0, <1>3, <2>2, <3>1 DEF Count, CountInv, Unreaped
  <2> QED BY <2>1, <2>2
<1>4. CASE Fork
  <2>1. PICK p \in Pids, type \in {"COCHE", "PEAToN"} :
           /\ Is(p, "none")
           /\ child' = [child EXCEPT ![p] = [@ EXCEPT !.at = "start", !.type = type, !.slot = index]]
    BY <1>4 DEF Fork
  <2>2. \A q \in Pids : q # p => child'[q] = child[q]
    BY <1>0, <2>1
  <2>3. child'[p].at = "start"
    <3>1. child'[p] = [child[p] EXCEPT !.at = "start", !.type = type, !.slot = index]
      BY <1>0, <2>1
    <3> QED BY <1>0, <3>1 DEF ChildRecord
  <2>4. p \notin Unreaped /\ Unreaped' = Unreaped \cup {p}
    BY <2>1, <2>2, <2>3 DEF Unreaped, Is
  <2>5. Cardinality(Unreaped') = Cardinality(Unreaped) + 1
    BY <1>1, <2>4, FS_AddElement
  <2> QED BY <1>0, <1>1, <1>4, <2>5 DEF Fork, CountInv
<1>5. CASE Store
  BY <1>0, <1>1, <1>5 DEF Store, CountInv, Unreaped
<1>6. CASE Await
  <2>1. Unreaped = {} /\ alive_count = 0
    BY <1>0, <1>6 DEF Await, StartInv, SettingUp, Is, Unreaped
  <2>2. Cardinality(Unreaped) = 0
    BY <2>1, FS_EmptySet
  <2> QED BY <1>6, <2>1, <2>2 DEF Await, CountInv, Unreaped
<1>7. CASE Inicio \/ ForkManager \/ StoreManager \/ Scan \/ Exit \/ ManagerReady \/ ReleaseData
  BY <1>0, <1>7 DEF Inicio, ForkManager, StoreManager, Scan, Exit, ManagerReady, ReleaseData,
                    CountInv, Unreaped
<1>8. CASE KillManager \/ KillSlot
  BY <1>8 DEF KillManager, KillSlot, KillGroup, CountInv
<1>9. CASE UNCHANGED vars
  BY <1>0, <1>9 DEF vars, mains, CountInv, Unreaped
<1> QED BY <1>2, <1>3, <1>4, <1>5, <1>6, <1>7, <1>8, <1>9 DEF Next, Main

LEMMA EndChild == ASSUME IInv, NEW p \in Pids, Child(p) PROVE EndInv'
<1>0. /\ EndInv /\ UNCHANGED mains /\ Alive(p)
      /\ \A q \in Pids \ {p} : child'[q] = child[q]
      /\ children \in [Slots -> Pids \cup {0}] /\ child[p].slot \in Slots
  BY TypeFacts, Records, OthersStay DEF IInv, TypeOK, ChildRecord
<1>1. children[child[p].slot] \in {0, p}
  BY <1>0 DEF IInv, SlotInv, AliveStored
<1>2. \A i \in Slots : i # child[p].slot => children'[i] = children[i]
  BY <1>0, ChildMoves
<1>3. \A i \in Slots : i # child[p].slot => children[i] # p
  BY <1>0, PidsAssumption DEF IInv, SlotInv, SlotsGiven
<1>4. Killed \subseteq Killed'
  BY <1>0, <1>1, <1>2, <1>3 DEF Killed, Alive
<1>5. main # "gone" /\ semaphores # "removed"
  BY <1>0 DEF EndInv
<1>6. main' = main /\ index' = index /\ manager' = manager /\ semaphores' = semaphores
  BY <1>0 DEF mains
<1> QED BY <1>0, <1>4, <1>5, <1>6 DEF EndInv

LEMMA EndMain ==
    ASSUME IInv, Main \/ Exit \/ ManagerReady
    PROVE  EndInv'
<1>0. /\ EndInv /\ StartInv /\ child \in [Pids -> ChildRecord]
      /\ children \in [Slots -> Pids \cup {0}] /\ MaxCount \in Nat \ {0}
      /\ index \in 0 .. MaxCount /\ Slots = 0 .. MaxCount - 1
  BY TypeFacts, Records, CountAssumption DEF IInv, TypeOK, Slots
<1>1. \A q \in Pids : Alive(q)' => Alive(q) \/ Fork
  <2>1. CASE Count
    <3>1. CASE Full
      <4>1. PICK p \in Pids : Is(p, "zombie") /\ child' = [child EXCEPT ![p].at = "reaped"]
        BY <2>1, <3>1 DEF Count
      <4> QED BY <1>0, <4>1 DEF Alive, Running, ChildRecord
    <3> QED BY <2>1, <3>1 DEF Count, Alive
  <2>2. CASE KillManager
    BY <1>0, <2>2 DEF KillManager, KillGroup, Dead, Alive, Running
  <2>3. CASE KillSlot
    <3>1. CASE children[index] = 0
      BY <1>0, <2>3, <3>1 DEF KillSlot, KillGroup, Dead, Alive, Running
    <3>2. CASE children[index] # 0
      BY <1>0, <2>3, <3>2 DEF KillSlot, Dead, Alive, Running
    <3> QED BY <3>1, <3>2
  <2>4. CASE Inicio \/ ForkManager \/ StoreManager \/ Await \/ Scan \/ Store \/ ReleaseData \/ Exit
             \/ ManagerReady
    BY <2>4 DEF Inicio, ForkManager, StoreManager, Await, Scan, Store, ReleaseData, Exit,
                ManagerReady, Alive
  <2> QED BY <2>1, <2>2, <2>3, <2>4 DEF Main
<1>2. CASE Inicio \/ ForkManager \/ StoreManager \/ Await \/ Count \/ Scan \/ Fork \/ Store \/ Exit
  BY <1>0, <1>2 DEF Inicio, ForkManager, StoreManager, Await, Count, Scan, Fork, Store, Exit, EndInv,
                    StartInv, SettingUp
<1>3. CASE ManagerReady
  BY <1>0, <1>3 DEF ManagerReady, EndInv, Killed, Alive
<1>4. ASSUME KillGroup, semaphores' = semaphores, main \in {"fin", "kill"} PROVE EndInv'
  <2>1. \A q \in Pids : ~Alive(q)'
    BY <1>0, <1>4 DEF KillGroup, Dead, Alive, Running, ChildRecord
  <2> QED BY <1>0, <1>4, <2>1 DEF KillGroup, EndInv
<1>5. CASE KillManager
  <2>1. CASE manager_id = 0
    BY <1>4, <1>5, <2>1 DEF KillManager
  <2>2. CASE manager_id # 0
    BY <1>0, <1>5, <2>2 DEF KillManager, EndInv
  <2> QED BY <2>1, <2>2
<1>6. CASE KillSlot
  <2>1. CASE children[index] = 0
    BY <1>4, <1>6, <2>1 DEF KillSlot
  <2>2. CASE children[index] # 0
    <3>1. /\ main = "kill" /\ index \in Slots /\ 0 .. index - 1 \subseteq Killed
          /\ manager = "ended" /\ semaphores # "removed"
      BY <1>0, <1>6 DEF KillSlot, EndInv
    <3>2. children' = children /\ manager' = manager /\ semaphores' = semaphores
      BY <1>6, <2>2 DEF KillSlot
    <3>3. Killed \subseteq Killed'
      BY <1>0, <1>1, <1>6, <3>2 DEF Killed, KillSlot, Fork
    <3>4. index \in Killed'
      <4>1. children[index] \in Pids /\ child'[children[index]] = Dead(children[index])
        BY <1>0, <1>6, <2>2, <3>1 DEF KillSlot
      <4>2. child'[children[index]].at \notin Running
        BY <1>0, <4>1 DEF Dead, Alive, Running, ChildRecord
      <4> QED BY <2>2, <3>1, <3>2, <4>2 DEF Killed, Alive
    <3>5. CASE index = MaxCount - 1
      BY <1>0, <1>6, <2>2, <3>1, <3>2, <3>3, <3>4, <3>5 DEF KillSlot, LastSlot, EndInv
    <3>6. CASE index # MaxCount - 1
      BY <1>0, <1>6, <2>2, <3>1, <3>2, <3>3, <3>4, <3>6 DEF KillSlot, LastSlot, EndInv
    <3> QED BY <3>5, <3>6
  <2> QED BY <2>1, <2>2
<1>7. CASE ReleaseData
  <2>1. Slots \subseteq Killed /\ manager = "ended"
    BY <1>0, <1>7 DEF ReleaseData, EndInv
  <2>2. \A p \in Pids : ~Alive(p)
    <3>1. ASSUME NEW p \in Pids, Alive(p) PROVE FALSE
      <4>1. child[p].slot \in Slots /\ children[child[p].slot] \in {0, p}
        BY <1>0, <3>1 DEF IInv, SlotInv, AliveStored, ChildRecord
      <4> QED BY <2>1, <3>1, <4>1 DEF Killed
    <3> QED BY <3>1
  <2> QED BY <1>7, <2>1, <2>2 DEF ReleaseData, EndInv, Killed, Alive
<1> QED BY <1>2, <1>3, <1>5, <1>6, <1>7 DEF Main
-----------------------------------------------------------------------------
LEMMA Inductive == IInv /\ [Next]_vars => IInv'
<1> SUFFICES ASSUME IInv, [Next]_vars PROVE IInv'
  OBVIOUS
<1>1. StartInv' /\ CountInv'
  BY StartStep, CountStep
<1>2. CASE Main \/ Exit \/ ManagerReady
  BY <1>1, <1>2, TypeMain, WayMain, SlotMain, EndMain DEF IInv
<1>3. ASSUME NEW p \in Pids, Child(p) PROVE IInv'
  <2>1. NobodyRunOver'
    BY <1>3, RunOverChild DEF NobodyRunOver, Births
  <2> QED BY <1>1, <1>3, <2>1, TypeChild, MutexChild, WayChild, SlotChild, EndChild DEF IInv
<1>4. CASE UNCHANGED vars
  BY <1>4 DEF vars, mains, IInv, TypeOK, MutexInv, WayInv, NobodyRunOver, StartInv, SlotInv, CountInv,
     EndInv, Critical, Births, Unreaped, Killed, SlotsGiven, AliveStored, SlotOfNewborn, StandsOn, Fled,
     Is, Alive
<1> QED BY <1>2, <1>3, <1>4 DEF Next

LEMMA Start == Init => IInv
<1> SUFFICES ASSUME Init PROVE IInv
  OBVIOUS
<1>1. TypeOK
  BY CountAssumption DEF Init, TypeOK, Slots
<1>2. \A p \in Pids : child[p].at = "none"
  BY DEF Init
<1> QED BY <1>1, <1>2 DEF Init, IInv, MutexInv, WayInv, NobodyRunOver, StartInv, SlotInv, CountInv,
           EndInv, Critical, SlotsGiven, AliveStored, SlotOfNewborn, StandsOn, Is, Alive, Running

LEMMA Invariant == Spec => []IInv
<1>1. Init => IInv
  BY Start
<1>2. IInv /\ [Next]_vars => IInv'
  BY Inductive
<1> QED BY <1>1, <1>2, PTL DEF Spec

(* The types are right: TypeOK rests on where each process is *)
THEOREM TypeCorrect == Spec => []TypeOK
<1>1. IInv => TypeOK
  BY DEF IInv
<1> QED BY <1>1, Invariant, PTL

(* Nobody is run over, in any number, on any grid, by any way through it,  *)
(* as far as NobodyRunOver says: until a car fled from its first pause        *)
THEOREM CellsAreExclusive == Spec => []NobodyRunOver
<1>1. IInv => NobodyRunOver
  BY DEF IInv
<1> QED BY <1>1, Invariant, PTL

(* If no slot is lost there is one for the next child: the slots taken are *)
(* of children that are alive, each has its own, and they are fewer         *)
THEOREM SlotIsFound == Spec => []FindsSlot
<1>1. ASSUME IInv, main = "scan", Lost = {} PROVE Free # {}
  <2> SUFFICES ASSUME Free = {} PROVE FALSE
    OBVIOUS
  <2>1. /\ SlotInv /\ alive_count = Cardinality(Unreaped) /\ alive_count < MaxCount
    BY <1>1 DEF IInv, CountInv
  <2>2. IsFiniteSet(Slots) /\ Cardinality(Slots) = MaxCount
    BY CountAssumption, FS_Interval DEF Slots
  <2>3. IsFiniteSet(Unreaped)
    BY PidsAssumption, FS_Subset DEF Unreaped
  <2>4. \A i \in Slots : children[i] \in Pids /\ Alive(children[i])
    BY <1>1, TypeFacts DEF Free, Lost, TypeOK
  <2> DEFINE f == [i \in Slots |-> children[i]]
  <2>5. f \in [Slots -> Unreaped]
    BY <2>4 DEF Unreaped, Alive, Running
  <2>6. \A i, j \in Slots : f[i] = f[j] => i = j
    BY <2>1, <2>4, PidsAssumption DEF SlotInv, SlotsGiven
  <2>7. Cardinality(Unreaped) < Cardinality(Slots)
    BY <2>1, <2>2
  <2> HIDE DEF f
  <2> QED BY <2>2, <2>3, <2>5, <2>6, <2>7, FS_PigeonHole
<1>2. IInv => FindsSlot
  BY <1>1 DEF FindsSlot
<1> QED BY <1>2, Invariant, PTL

(* All the processes have ended when main has, wherever it was interrupted *)
(* or a call failed, if no interrupt comes once its clean-up has begun       *)
THEOREM AllEnd == Spec => []NobodyOutlivesMain
<1>1. IInv => NobodyOutlivesMain
  BY DEF IInv, EndInv, NobodyOutlivesMain
<1> QED BY <1>1, Invariant, PTL

(* A slot is only lost when main stores the pid of who has cleared it *)
THEOREM SlotsLostByStoreOnly == Spec => LostByStore
<1>1. ASSUME IInv, [Next]_vars, main \notin {"kill", "fin"}, ~(Lost' \subseteq Lost)
      PROVE  main = "store" /\ main' = "count"
  <2>1. PICK i \in Slots : i \in Lost' /\ i \notin Lost
    BY <1>1 DEF Lost
  <2>2. children \in [Slots -> Pids \cup {0}]
    BY <1>1, TypeFacts DEF TypeOK
  <2>3. ASSUME NEW p \in Pids, Child(p) PROVE FALSE
    <3>1. /\ child[p].slot \in Slots
          /\ \A q \in Pids \ {p} : child'[q] = child[q]
      BY <1>1, <2>3, OthersStay, Records, TypeFacts DEF ChildRecord
    <3>2. i # child[p].slot => children'[i] = children[i] /\ children[i] # p
      BY <1>1, <2>2, <2>3, <3>1, ChildMoves, PidsAssumption DEF IInv, SlotInv, SlotsGiven
    <3>3. i = child[p].slot => children'[i] = 0 \/ (children'[i] = p /\ Alive(p)')
      <4>1. CASE children' = children /\ Alive(p)'
        <5>1. CASE SetId(p)
          BY <2>2, <3>1, <4>1, <5>1 DEF SetId
        <5>2. CASE ~Is(p, "start")
          <6>1. Alive(p)
            BY <1>1, <2>3, OthersStay, TypeFacts
          <6> QED BY <1>1, <4>1, <5>2, <6>1 DEF IInv, SlotInv, AliveStored
        <5> QED BY <1>1, <2>3, <5>1, <5>2, ChildMoves
      <4>2. CASE SetId(p) /\ children' = [children EXCEPT ![child[p].slot] = p] /\ Alive(p)'
        BY <2>2, <3>1, <4>2
      <4>3. CASE children' = [children EXCEPT ![child[p].slot] = 0]
        BY <2>2, <3>1, <4>3
      <4> QED BY <1>1, <2>3, <4>1, <4>2, <4>3, ChildMoves
    <3> QED BY <2>1, <2>2, <3>1, <3>2, <3>3 DEF Lost, Alive
  <2>4. CASE (Main \/ Exit \/ ManagerReady) /\ ~Store
    <3>1. children' = children
      BY <2>4 DEF Main, Inicio, ForkManager, StoreManager, Await, Count, Scan, Fork, KillManager,
           KillSlot, ReleaseData, Exit, ManagerReady
    <3>2. children[i] \in Pids /\ Alive(children[i]) /\ ~(child'[children[i]].at \in Running)
      BY <2>1, <2>2, <3>1 DEF Lost, Alive
    <3>3. ~KillManager /\ ~KillSlot
      BY <1>1 DEF KillManager, KillSlot
    <3>4. \A q \in Pids : Alive(q) => child'[q].at = child[q].at
      <4>1. CASE Count
        <5>1. CASE Full
          <6>1. PICK p \in Pids : Is(p, "zombie") /\ child' = [child EXCEPT ![p].at = "reaped"]
            BY <4>1, <5>1 DEF Count
          <6> QED BY <6>1 DEF Alive, Running, Is
        <5> QED BY <4>1, <5>1 DEF Count
      <4>2. CASE Fork
        <5>1. PICK p \in Pids, type \in {"COCHE", "PEAToN"} :
                 /\ Is(p, "none")
                 /\ child' = [child EXCEPT ![p] = [@ EXCEPT !.at = "start", !.type = type, !.slot = index]]
          BY <4>2 DEF Fork
        <5> QED BY <5>1 DEF Alive, Running, Is
      <4> QED BY <2>4, <3>3, <4>1, <4>2 DEF Main, Inicio, ForkManager, StoreManager, Await, Scan,
                 ReleaseData, Exit, ManagerReady
    <3> QED BY <3>2, <3>4 DEF Alive
  <2>5. CASE UNCHANGED vars
    BY <2>1, <2>5 DEF vars, Lost, Alive
  <2> QED BY <1>1, <2>3, <2>4, <2>5 DEF Next, Store
<1>2. IInv /\ [Next]_vars =>
         [main \notin {"kill", "fin"} /\ ~(Lost' \subseteq Lost) => main = "store" /\ main' = "count"]_vars
  BY <1>1
<1> QED BY <1>2, Invariant, PTL DEF Spec, LostByStore
=============================================================================
