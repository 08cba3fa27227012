---------------------------- MODULE Pist2_proofs ----------------------------
(* Theorems about Pist2, for every number of players, every choice of the  *)
(* library and every set of faults                                          *)
EXTENDS Pist2, FiniteSetTheorems, TLAPS

(* TypeOK is not inductive alone: an index is in the array because of where *)
(* the parent is, a target is a player because of where the shooter is.     *)
TypeInv ==
    /\ TypeOK
    /\ ppc \in {"semget", "msgget", "inicio"} => process_count = 0
    /\ ppc \in {"fork", "record"} => process_count < N
    /\ \A p \in Players : pc[p] \in {"load", "store", "send"} => target[p] \in Players

LEMMA PlayersRange ==
    /\ \A p \in Players : p \in 0 .. N
    /\ \A i \in Nat : i < N => i \in Players
BY NAssumption DEF Players

LEMMA ForkStatus ==
    status \in [Players -> SUBSET Bits] /\ Fork => status' \in [Players -> SUBSET Bits]
BY Zenon DEF Fork, Bits

LEMMA TypeInit == Init => TypeInv
BY NAssumption DEF Init, TypeInv, TypeOK, Players, ParentPcs, Bits, ChildPcs, ProcStates,
                    UShort

LEMMA TypeParent == TypeInv /\ Parent => TypeInv'
<1> SUFFICES ASSUME TypeInv, Parent PROVE TypeInv'
  OBVIOUS
<1> USE NAssumption DEF TypeInv, TypeOK, ParentPcs, data, local, family, kernel
<1>1. CASE CreateSemaphores
  <2>1. ppc' \in {"fin", "inicio", "msgget"} /\ ipc' \in {ipc, ipc \cup {"sem"}}
    BY <1>1 DEF CreateSemaphores, ParentFails
  <2> QED BY <1>1, <2>1 DEF CreateSemaphores
<1>2. CASE CreateQueue
  <2>1. ppc' \in {"fin", "inicio"} /\ ipc' \in {ipc, ipc \cup {"queue"}}
    BY <1>2 DEF CreateQueue, ParentFails
  <2> QED BY <1>2, <2>1 DEF CreateQueue
<1>3. CASE StartLibrary
  <2>1. /\ ppc' = "fin" \/ (ppc' = "fork" /\ process_count < N)
        /\ all_received' \in Nat /\ all_shooted' \in Nat
    BY <1>3 DEF StartLibrary, ParentFails, ReadyValue
  <2> QED BY <1>3, <2>1 DEF StartLibrary
<1>4. CASE Fork
  <2>1. ppc' \in {"fin", "record"} /\ process_count < N
    BY <1>4 DEF Fork, ParentFails
  <2>2. proc' \in [Players -> ProcStates]
    BY <1>4 DEF Fork, ParentFails, ProcStates
  <2>3. status' \in [Players -> SUBSET Bits] BY <1>4, ForkStatus
  <2>4. UNCHANGED <<process_count, alive_count, rounds, ids, kernel, in_game, pc, killed,
                    reaped, last_dead, kill_i, local>>
    BY <1>4 DEF Fork
  <2> QED BY <2>1, <2>2, <2>3, <2>4
<1>5. CASE Record BY <1>5, PlayersRange DEF Record, UShort
<1>6. CASE ParentReady BY <1>6 DEF ParentReady, MayWait
<1>7. CASE \E p \in Players : Reap(p) BY <1>7, PlayersRange DEF Reap
<1>8. CASE Finish BY <1>8 DEF Finish
<1>9. CASE KillNext BY <1>9, PlayersRange DEF KillNext, NextIndex
<1>10. CASE RemoveSemaphores BY <1>10 DEF RemoveSemaphores, Removed
<1>11. CASE RemoveQueue BY <1>11 DEF RemoveQueue, Removed
<1> QED BY <1>1, <1>2, <1>3, <1>4, <1>5, <1>6, <1>7, <1>8, <1>9, <1>10, <1>11 DEF Parent

LEMMA TypeInterrupt == TypeInv /\ Interrupt => TypeInv'
BY DEF TypeInv, TypeOK, Interrupt, ParentPcs, data, local, family, kernel

LEMMA TypeChild == \A p \in Players : TypeInv /\ Child(p) => TypeInv'
<1> SUFFICES ASSUME NEW p \in Players, TypeInv, Child(p) PROVE TypeInv'
  OBVIOUS
<1> USE NAssumption DEF TypeInv, TypeOK, parents, local, At, Goto, Exit, ChildPcs,
                        ProcStates, Bits
<1>1. CASE Start(p) BY <1>1 DEF Start
<1>2. CASE Register(p) BY <1>2 DEF Register
<1>3. CASE WReady(p) BY <1>3 DEF WReady, WaitReceived, MayWait
<1>4. CASE W0Ready(p) BY <1>4 DEF W0Ready
<1>5. CASE StartRound(p) BY <1>5 DEF StartRound, IsCoordinator
<1>6. CASE IncShooted(p) BY <1>6 DEF IncShooted, UShort
<1>7. CASE Aim(p) BY <1>7, VictimsAssumption, PlayersRange DEF Aim
<1>8. CASE Load(p) BY <1>8 DEF Load
<1>9. CASE Store(p) BY <1>9 DEF Store, Marked
<1>10. CASE Send(p) BY <1>10 DEF Send
<1>11. CASE WShooted(p) BY <1>11 DEF WShooted, MayWait
<1>12. CASE W0Shooted(p) BY <1>12 DEF W0Shooted
<1>13. CASE IncReceived(p) BY <1>13 DEF IncReceived, UShort
<1>14. CASE Check(p) BY <1>14 DEF Check, HasMessage
<1>15. CASE Drain(p) BY <1>15 DEF Drain, MoreMessages, HasMessage
<1>16. CASE Die(p) BY <1>16 DEF Die
<1>17. CASE Uncount(p) BY <1>17 DEF Uncount, UShort, Decrement
<1>18. CASE WReceived(p) BY <1>18 DEF WReceived, WaitReceived, MayWait
<1>19. CASE W0Received(p) BY <1>19 DEF W0Received
<1>20. CASE SemaphoreGone(p) BY <1>20 DEF SemaphoreGone
<1>21. CASE Killed(p) BY <1>21 DEF Killed
<1> QED BY <1>1, <1>2, <1>3, <1>4, <1>5, <1>6, <1>7, <1>8, <1>9, <1>10, <1>11, <1>12,
           <1>13, <1>14, <1>15, <1>16, <1>17, <1>18, <1>19, <1>20, <1>21 DEF Child

LEMMA TypeNext == TypeInv /\ [Next]_vars => TypeInv'
<1> SUFFICES ASSUME TypeInv, [Next]_vars PROVE TypeInv'
  OBVIOUS
<1>1. CASE UNCHANGED vars
  BY <1>1 DEF vars, data, kernel, local, family, TypeInv, TypeOK
<1> QED BY <1>1, TypeParent, TypeInterrupt, TypeChild DEF Next

(* Every variable keeps its type: no semaphore goes below zero, no index   *)
(* leaves the array, no counter exceeds its width.                          *)
THEOREM TypeCorrect == Spec => []TypeOK
<1>1. TypeInv => TypeOK BY DEF TypeInv
<1> QED BY <1>1, TypeInit, TypeNext, PTL DEF Spec
-----------------------------------------------------------------------------
(* The objects removed so far, by where the clean-up is *)
CleanInv ==
    /\ ipc \subseteq {"sem", "queue"}
    /\ ppc = "rm_queue" => "sem" \notin ipc
    /\ ppc = "gone" => ipc = {}

(* Signals that come before main returns find exit not yet called, so the   *)
(* clean-up they start, or the one of a failed call, or that of a normal    *)
(* end, is never cut short: no semaphore and no queue survives the parent.  *)
THEOREM ReleasedByDesign ==
    ASSUME InterruptAt \subseteq {"w_ready", "reap"}
    PROVE  Spec => []ReleasedAtExit
<1>1. Init => CleanInv
  BY DEF Init, CleanInv
<1>2. CleanInv /\ [Next]_vars => CleanInv'
  <2> SUFFICES ASSUME CleanInv, [Next]_vars PROVE CleanInv'
    OBVIOUS
  <2> USE DEF CleanInv, kernel
  <2>1. CASE Parent
    <3>1. CASE CreateSemaphores BY <3>1 DEF CreateSemaphores, ParentFails
    <3>2. CASE CreateQueue BY <3>2 DEF CreateQueue, ParentFails
    <3>3. CASE RemoveSemaphores BY <3>3 DEF RemoveSemaphores, Removed
    <3>4. CASE RemoveQueue BY <3>4 DEF RemoveQueue, Removed
    <3>5. CASE StartLibrary BY <3>5 DEF StartLibrary, ParentFails
    <3>6. CASE Fork BY <3>6 DEF Fork, ParentFails
    <3>7. CASE Record BY <3>7 DEF Record
    <3>8. CASE ParentReady \/ Finish BY <3>8 DEF ParentReady, Finish
    <3>9. CASE KillNext BY <3>9 DEF KillNext
    <3>10. CASE \E p \in Players : Reap(p) BY <3>10 DEF Reap
    <3> QED BY <2>1, <3>1, <3>2, <3>3, <3>4, <3>5, <3>6, <3>7, <3>8, <3>9, <3>10 DEF Parent
  <2>2. CASE Interrupt
    BY <2>2 DEF Interrupt
  <2>3. ASSUME NEW p \in Players, Child(p) PROVE CleanInv'
    <3>1. UNCHANGED <<ppc, ipc>>
      BY <2>3 DEF Child, Start, Register, WReady, WReceived, WaitReceived, W0Ready,
                  StartRound, IncShooted, Aim, Load, Store, Send, WShooted, W0Shooted,
                  IncReceived, Check, Drain, Die, Uncount, W0Received, SemaphoreGone,
                  Killed, parents
    <3> QED BY <3>1
  <2>4. CASE UNCHANGED vars
    BY <2>4 DEF vars
  <2> QED BY <2>1, <2>2, <2>3, <2>4 DEF Next
<1>3. CleanInv => ReleasedAtExit
  BY DEF CleanInv, ReleasedAtExit
<1> QED BY <1>1, <1>2, <1>3, PTL DEF Spec
-----------------------------------------------------------------------------
(***************************************************************************)
(* The double barrier of Pist2, for every number of players, every choice  *)
(* of the library, every set of faults and every point of interruption.    *)
(* A process that has ended, however it did, stays where it was: what it   *)
(* owes to a barrier is never paid and nobody passes it.  The invariant    *)
(* says in which of three phases the family is: the start, the shooting of *)
(* a round or the count of its dead.                                       *)
(***************************************************************************)

Living == {p \in Players : "DEAD" \notin status[p]}
Last(p) == p \in Living /\ \A q \in Living : q <= p

(* Before the first round: somebody still owes READY a unit *)
Unready == {p \in Players : pc[p] \in {"start", "register", "w_ready"}}
ParentOwes == IF ppc \in {"fork", "record", "w_ready"} THEN 1 ELSE 0

StartPhase ==
    /\ \A p \in Players : pc[p] \in {"start", "register", "w_ready", "w0_ready"}
    /\ \A p \in Players : pc[p] # "start" => status[p] = {"READY"}
    /\ \A p \in Players : proc[p] = "none" => pc[p] = "start"
    /\ \A p \in Players : p > process_count \/ (p = process_count /\ ppc # "record")
                             => proc[p] = "none"
    /\ all_shooted = 0
    /\ alive_count = process_count
    /\ in_game = {p \in Players : pc[p] \in {"w_ready", "w0_ready"}}
    /\ ParentOwes = 1 \/ (\E p \in Players : proc[p] # "none")
          => all_received >= Cardinality(Unready) + ParentOwes

AllCreated == process_count = N /\ ppc \in {"reap", "fin", "kill", "rm_sem", "rm_queue", "gone"}

(* The shooting: the last of the living coordinates, and once it has raised *)
(* the first semaphore everyone alive owes it a unit until it waits for zero *)
ShootPcs == {"aim", "load", "store", "send", "w_shooted", "w0_shooted"}
Raised == \E p \in Players : Last(p) /\ pc[p] \in ShootPcs
Unshot == {p \in Living : pc[p] # "w0_shooted"}

ShootPhase ==
    /\ AllCreated
    /\ all_received = 0
    /\ \A p \in Players :
          pc[p] \in {"w0_ready", "w0_received", "round", "inc_shooted"} \cup ShootPcs
    /\ \A p \in Players \ Living : pc[p] = "w0_received"
    /\ alive_count = Cardinality(Living) /\ in_game = Living
    /\ \A p \in Living : pc[p] \in ShootPcs \cup {"inc_shooted"} =>
          /\ im_coordinator[p] <=> Last(p)
          /\ im_coordinator[p] => this_round[p] = Cardinality(Living)
    /\ \A p \in Living : pc[p] = "inc_shooted" => im_coordinator[p]
    /\ all_shooted = IF Raised THEN Cardinality(Unshot) ELSE 0
    /\ Raised \/ \A p \in Players : pc[p] # "w0_shooted"
    /\ \A p \in Players : pc[p] \in {"load", "store"} => target[p] \in Living
    /\ \A p \in Players : pc[p] = "store" => "DEAD" \notin seen[p]

(* The count of the dead: until the coordinator raises the second semaphore *)
(* nobody alive has passed it, and then all those who have not owe it a unit *)
CountPcs == {"w0_shooted", "inc_received", "check", "drain", "die", "uncount", "w_received",
             "w0_received"}
Unpassed == {p \in Players : pc[p] # "w0_received"}
Uncounting == {p \in Players : pc[p] = "uncount"}
ToRaise == {p \in Players : im_coordinator[p] /\ pc[p] \in {"w0_shooted", "inc_received"}}

CountPhase ==
    /\ AllCreated
    /\ all_shooted = 0
    /\ \A p \in Players : pc[p] \in CountPcs
    /\ \A p \in Players : pc[p] = "inc_received" => im_coordinator[p]
    /\ \A p, q \in ToRaise : p = q
    /\ \A p \in ToRaise : this_round[p] = Cardinality(Unpassed)
    /\ all_received = IF ToRaise = {} THEN Cardinality(Unpassed) ELSE 0
    /\ ToRaise = {} \/ \A p \in Players \ Unpassed : p \notin Living
    /\ \A p \in Players \ Living : pc[p] \in {"uncount", "w_received", "w0_received"}
    /\ Uncounting \cap Living = {}
    /\ alive_count = Cardinality(Living) + Cardinality(Uncounting)
    /\ in_game = Living \cup Uncounting

Phases == TypeInv /\ (StartPhase \/ ShootPhase \/ CountPhase)
-----------------------------------------------------------------------------
(* Counting players *)
LEMMA Count ==
    ASSUME NEW S \in SUBSET Players
    PROVE  /\ IsFiniteSet(S)
           /\ Cardinality(S) \in Nat /\ Cardinality(S) <= N
           /\ Cardinality(S) = 0 <=> S = {}
<1>1. IsFiniteSet(Players) /\ Cardinality(Players) = N
  <2>1. IsFiniteSet(0 .. N - 1) /\ Cardinality(0 .. N - 1) = N - 1 - 0 + 1
    BY NAssumption, FS_Interval
  <2> QED BY <2>1, NAssumption DEF Players
<1> QED BY <1>1, FS_Subset, FS_CardinalityType, FS_EmptySet

LEMMA CountLess ==
    ASSUME NEW S \in SUBSET Players, NEW p \in S
    PROVE  Cardinality(S \ {p}) = Cardinality(S) - 1
BY Count, FS_RemoveElement

LEMMA CountMore ==
    ASSUME NEW S \in SUBSET Players, NEW p \in Players \ S
    PROVE  Cardinality(S \cup {p}) = Cardinality(S) + 1
BY Count, FS_AddElement

LEMMA Coordinators ==
    ASSUME AllCreated
    PROVE  Undead = Living /\ \A p \in Players : IsCoordinator(p) <=> Last(p)
BY NAssumption DEF AllCreated, Undead, Living, IsCoordinator, Last, Players

LEMMA OneLast == \A p, q \in Players : Last(p) /\ Last(q) => p = q
BY NAssumption DEF Last, Living, Players

(* What the phases know of the types *)
LEMMA Shapes ==
    ASSUME TypeInv
    PROVE  /\ pc \in [Players -> ChildPcs] /\ proc \in [Players -> ProcStates]
           /\ status \in [Players -> SUBSET Bits] /\ seen \in [Players -> SUBSET Bits]
           /\ im_coordinator \in [Players -> BOOLEAN]
           /\ this_round \in [Players -> UShort] /\ target \in [Players -> 0 .. N]
           /\ process_count \in 0 .. N /\ alive_count \in UShort
           /\ all_shooted \in Nat /\ all_received \in Nat /\ in_game \subseteq Players
           /\ ppc \in ParentPcs
BY DEF TypeInv, TypeOK
-----------------------------------------------------------------------------
(* Where one phase meets the next *)

(* READY can only be zero when the whole family has taken its units *)
LEMMA StartEnds ==
    ASSUME TypeInv, StartPhase, all_received = 0, NEW p \in Players, At(p, "w0_ready")
    PROVE  ShootPhase
<1>1. Unready = {} /\ ParentOwes = 0
  <2>1. 0 >= Cardinality(Unready) + ParentOwes
    BY Zenon DEF StartPhase, At
  <2>2. Cardinality(Unready) \in Nat /\ (Cardinality(Unready) = 0 <=> Unready = {})
    BY Count DEF Unready
  <2> QED BY <2>1, <2>2 DEF ParentOwes
<1>2. \A q \in Players : pc[q] = "w0_ready" /\ status[q] = {"READY"} /\ proc[q] # "none"
  BY <1>1 DEF StartPhase, Unready
<1>3. AllCreated
  <2>1. N - 1 \in Players /\ N \in Nat BY NAssumption DEF Players
  <2>2. process_count = N
    BY <2>1, <1>1, <1>2, Shapes DEF StartPhase, ParentOwes
  <2> QED BY <2>1, <2>2, <1>1, Shapes, NAssumption DEF AllCreated, ParentOwes, TypeInv,
                                                       ParentPcs
<1>4. Living = Players
  BY <1>2 DEF Living
<1>5. alive_count = Cardinality(Living) /\ in_game = Living
  <2>1. Cardinality(Players) = N
    BY NAssumption, FS_Interval DEF Players
  <2> QED BY <1>2, <1>3, <1>4, <2>1 DEF StartPhase, AllCreated
<1>6. ~Raised
  BY <1>2 DEF Raised, ShootPcs
<1> QED BY <1>2, <1>3, <1>4, <1>5, <1>6 DEF ShootPhase, StartPhase, ShootPcs

(* The first semaphore can only be zero again when everyone alive has shot *)
LEMMA ShootEnds ==
    ASSUME TypeInv, ShootPhase, all_shooted = 0, NEW p \in Players, At(p, "w0_shooted")
    PROVE  CountPhase
<1>1. Raised
  BY DEF ShootPhase, At
<1>2. \A q \in Living : pc[q] = "w0_shooted"
  <2>1. Unshot \in SUBSET Players BY DEF Unshot, Living
  <2>2. Unshot = {} BY <1>1, <2>1, Count DEF ShootPhase
  <2> QED BY <2>2 DEF Unshot
<1>3. \A q \in Players \ Living : pc[q] = "w0_received"
  BY DEF ShootPhase
<1>4. PICK c \in Players : Last(c) /\ c \in Living
  BY <1>1 DEF Raised, Last
<1>5. \A q \in Living : /\ im_coordinator[q] <=> Last(q)
                        /\ im_coordinator[q] => this_round[q] = Cardinality(Living)
  BY <1>2 DEF ShootPhase, ShootPcs
<1>6. Living \subseteq Players /\ Unpassed = Living /\ Uncounting = {}
  BY <1>2, <1>3 DEF Unpassed, Uncounting, Living
<1>7. ToRaise = {c}
  BY <1>2, <1>3, <1>4, <1>5, OneLast, Zenon DEF ToRaise, Living
<1>8. Cardinality({}) = 0 /\ Cardinality(Living) \in Nat
  BY FS_EmptySet, <1>6, Count
<1> QED BY <1>2, <1>3, <1>4, <1>5, <1>6, <1>7, <1>8 DEF ShootPhase, CountPhase, CountPcs

(* The second one can only be zero, once raised, when everyone has passed it *)
LEMMA CountEnds ==
    ASSUME TypeInv, CountPhase, all_received = 0, ToRaise = {}
    PROVE  ShootPhase
<1>1. \A q \in Players : pc[q] = "w0_received"
  <2>1. Unpassed \in SUBSET Players BY DEF Unpassed
  <2>2. Unpassed = {} BY <2>1, Count DEF CountPhase
  <2> QED BY <2>2 DEF Unpassed
<1>2. Uncounting = {} /\ ~Raised
  BY <1>1 DEF Uncounting, Raised, ShootPcs
<1>3. Cardinality({}) = 0 /\ Cardinality(Living) \in Nat
  BY FS_EmptySet, Count DEF Living
<1> QED BY <1>1, <1>2, <1>3 DEF ShootPhase, CountPhase, ShootPcs, Living
-----------------------------------------------------------------------------
(* The start *)
LEMMA InitPhase == Init => StartPhase
BY NAssumption DEF Init, StartPhase, ParentOwes, Players

LEMMA StartParent ==
    ASSUME TypeInv, TypeInv', StartPhase, Parent \/ Interrupt
    PROVE  StartPhase'
<1> USE Shapes, NAssumption DEF data, kernel, family, local
<1>1. ASSUME CreateSemaphores \/ CreateQueue \/ StartLibrary
      PROVE  StartPhase'
  <2>1. /\ UNCHANGED <<process_count, proc, pc, status, alive_count, in_game>>
        /\ ppc # "record" /\ ppc' # "record"
    BY <1>1 DEF CreateSemaphores, CreateQueue, StartLibrary, ParentFails
  <2>2. \A p \in Players : proc[p] = "none"
    BY <1>1 DEF StartPhase, CreateSemaphores, CreateQueue, StartLibrary, TypeInv, Players
  <2>3. all_shooted' = 0
    BY <1>1 DEF StartPhase, CreateSemaphores, CreateQueue, StartLibrary, ParentFails
  <2>4. ParentOwes' = 1 => all_received' = N + 1
    BY <1>1 DEF CreateSemaphores, CreateQueue, StartLibrary, ParentFails, ParentOwes,
                ReadyValue
  <2>5. Cardinality(Unready') \in Nat /\ Cardinality(Unready') <= N
    BY Count DEF Unready
  <2>6. ParentOwes' = 1 => all_received' >= Cardinality(Unready') + ParentOwes'
    BY <2>4, <2>5
  <2> QED BY <2>1, <2>2, <2>3, <2>6 DEF StartPhase
<1>2. ASSUME Fork
      PROVE  StartPhase'
  <2>1. process_count \in Players /\ proc[process_count] = "none"
    BY <1>2 DEF Fork, StartPhase, Players, TypeInv
  <2>2. /\ UNCHANGED <<process_count, pc, all_shooted, all_received, alive_count, in_game>>
        /\ status' = [status EXCEPT ![process_count] = {"DEAD"}]
        /\ ParentOwes = 1 /\ ppc # "record"
        /\ \/ ppc' = "fin" /\ UNCHANGED proc /\ ParentOwes' = 0
           \/ /\ ppc' = "record" /\ proc' = [proc EXCEPT ![process_count] = "live"]
              /\ ParentOwes' = 1
    BY <1>2 DEF Fork, ParentFails, ParentOwes
  <2>3. /\ Unready' = Unready /\ Cardinality(Unready) \in Nat
        /\ all_received >= Cardinality(Unready) + 1
    BY <2>2, Count DEF StartPhase, Unready
  <2> QED BY <2>1, <2>2, <2>3 DEF StartPhase
<1>3. ASSUME Record
      PROVE  StartPhase'
  <2>1. /\ process_count' = process_count + 1 /\ process_count < N
        /\ alive_count' = (alive_count + 1) % 65536
        /\ ppc = "record" /\ ppc' # "record" /\ ParentOwes = 1 /\ ParentOwes' = 1
        /\ UNCHANGED <<pc, status, proc, all_shooted, all_received, in_game>>
    BY <1>3 DEF Record, ParentOwes, TypeInv
  <2>2. alive_count' = process_count'
    BY <2>1 DEF StartPhase
  <2>3. Unready' = Unready
    BY <2>1 DEF Unready
  <2> QED BY <2>1, <2>2, <2>3 DEF StartPhase, Players
<1>4. ASSUME ParentReady
      PROVE  StartPhase'
  <2>1. /\ UNCHANGED <<process_count, proc, pc, status, all_shooted, alive_count, in_game>>
        /\ ppc # "record" /\ ppc' # "record" /\ ParentOwes = 1 /\ ParentOwes' = 0
        /\ all_received' = all_received - 1
    BY <1>4 DEF ParentReady, ParentOwes
  <2>2. Unready' = Unready /\ Cardinality(Unready) \in Nat
    BY <2>1, Count DEF Unready
  <2> QED BY <2>1, <2>2 DEF StartPhase
<1>5. ASSUME \/ (\E p \in Players : Reap(p)) \/ Finish \/ KillNext \/ RemoveSemaphores
             \/ RemoveQueue \/ Interrupt
      PROVE  StartPhase'
  <2>1. /\ UNCHANGED <<process_count, proc, pc, status, all_shooted, all_received,
                       alive_count, in_game>>
        /\ ppc # "record" /\ ppc' # "record" /\ ParentOwes' = 0
    BY <1>5 DEF Reap, Finish, KillNext, RemoveSemaphores, RemoveQueue, Interrupt, ParentOwes
  <2>2. Unready' = Unready /\ Cardinality(Unready) \in Nat /\ ParentOwes \in {0, 1}
    BY <2>1, Count DEF Unready, ParentOwes
  <2> QED BY <2>1, <2>2 DEF StartPhase
<1> QED BY <1>1, <1>2, <1>3, <1>4, <1>5 DEF Parent

(* A child has taken no step yet, is registering or waits for READY *)
LEMMA StartChild ==
    ASSUME TypeInv, TypeInv', StartPhase, NEW p \in Players,
           Start(p) \/ Register(p) \/ WReady(p) \/ SemaphoreGone(p) \/ Killed(p)
    PROVE  StartPhase'
<1> USE Shapes DEF parents, At, Goto, Exit, local
<1>1. ASSUME Start(p)
      PROVE  StartPhase'
  <2>1. /\ UNCHANGED <<ppc, process_count, proc, all_shooted, all_received, alive_count,
                       in_game>>
        /\ pc[p] = "start" /\ proc[p] = "live"
        /\ pc' = [pc EXCEPT ![p] = "register"]
        /\ status' = [status EXCEPT ![p] = {"READY"}]
    BY <1>1 DEF Start
  <2>2. Unready' = Unready /\ ParentOwes' = ParentOwes
    BY <2>1 DEF Unready, ParentOwes
  <2> QED BY <2>1, <2>2 DEF StartPhase
<1>2. ASSUME Register(p)
      PROVE  StartPhase'
  <2>1. /\ UNCHANGED <<ppc, process_count, all_shooted, all_received, alive_count, status>>
        /\ pc[p] = "register" /\ proc[p] = "live"
        /\ \/ /\ proc' = [proc EXCEPT ![p] = "exit_100"] /\ UNCHANGED <<pc, in_game>>
           \/ /\ pc' = [pc EXCEPT ![p] = "w_ready"] /\ in_game' = in_game \cup {p}
              /\ UNCHANGED proc
    BY <1>2 DEF Register
  <2>2. Unready' = Unready /\ ParentOwes' = ParentOwes
    BY <2>1 DEF Unready, ParentOwes
  <2>3. in_game' = {q \in Players : pc'[q] \in {"w_ready", "w0_ready"}}
    BY <2>1 DEF StartPhase
  <2> QED BY <2>1, <2>2, <2>3 DEF StartPhase
<1>3. ASSUME WReady(p)
      PROVE  StartPhase'
  <2>1. /\ UNCHANGED <<ppc, process_count, proc, all_shooted, alive_count, status, in_game>>
        /\ pc[p] = "w_ready" /\ proc[p] = "live"
        /\ pc' = [pc EXCEPT ![p] = "w0_ready"]
        /\ all_received' = all_received - 1
    BY <1>3 DEF WReady, WaitReceived
  <2>2. /\ Unready \in SUBSET Players /\ p \in Unready
        /\ Unready' = Unready \ {p} /\ ParentOwes' = ParentOwes
    BY <2>1 DEF Unready, ParentOwes
  <2>3. Cardinality(Unready') = Cardinality(Unready) - 1 /\ Cardinality(Unready) \in Nat
    BY <2>2, Count, CountLess
  <2>4. all_received >= Cardinality(Unready) + ParentOwes /\ ParentOwes \in {0, 1}
    BY <2>1 DEF StartPhase, ParentOwes
  <2>5. in_game' = {q \in Players : pc'[q] \in {"w_ready", "w0_ready"}}
    BY <2>1 DEF StartPhase
  <2>6. all_received' >= Cardinality(Unready') + ParentOwes'
    BY <2>1, <2>2, <2>3, <2>4
  <2> QED BY <2>1, <2>5, <2>6 DEF StartPhase
<1>4. ASSUME SemaphoreGone(p) \/ Killed(p)
      PROVE  StartPhase'
  <2>1. /\ UNCHANGED <<ppc, process_count, pc, all_shooted, all_received, alive_count,
                       status, in_game>>
        /\ proc[p] = "live" /\ \E s \in {"exit_100", "sigkill"} : proc' = [proc EXCEPT ![p] = s]
    BY <1>4 DEF SemaphoreGone, Killed
  <2>2. Unready' = Unready /\ ParentOwes' = ParentOwes
    BY <2>1 DEF Unready, ParentOwes
  <2> QED BY <2>1, <2>2 DEF StartPhase
<1> QED BY <1>1, <1>2, <1>3, <1>4
-----------------------------------------------------------------------------
(* The shooting *)

(* Once all the children exist, the parent touches nothing of the game *)
LEMMA ParentLeaves ==
    ASSUME TypeInv, AllCreated, Parent \/ Interrupt
    PROVE  /\ AllCreated'
           /\ UNCHANGED <<pc, status, all_shooted, all_received, alive_count, in_game, local>>
BY Shapes, NAssumption DEF AllCreated, Parent, Interrupt, CreateSemaphores, CreateQueue,
   StartLibrary, Fork, Record, ParentReady, Reap, Finish, KillNext, RemoveSemaphores,
   RemoveQueue, data, kernel, family

LEMMA ShootUnchanged ==
    ASSUME ShootPhase, AllCreated',
           UNCHANGED <<pc, status, all_shooted, all_received, alive_count, in_game, local>>
    PROVE  ShootPhase'
<1>1. Living' = Living /\ Unshot' = Unshot /\ Raised' = Raised
  BY DEF Living, Unshot, Raised, Last, local
<1> QED BY <1>1, SMTT(30) DEF ShootPhase, local, Last

LEMMA CountUnchanged ==
    ASSUME CountPhase, AllCreated',
           UNCHANGED <<pc, status, all_shooted, all_received, alive_count, in_game, local>>
    PROVE  CountPhase'
<1>1. /\ Living' = Living /\ Unpassed' = Unpassed /\ Uncounting' = Uncounting
      /\ ToRaise' = ToRaise
  BY DEF Living, Unpassed, Uncounting, ToRaise, local
<1> QED BY <1>1 DEF CountPhase, local

(* Leaving a barrier: the first of the start, or the second of a round *)
LEMMA ShootEnter ==
    ASSUME TypeInv, ShootPhase, NEW p \in Players, W0Ready(p) \/ W0Received(p)
    PROVE  ShootPhase'
<1>1. CASE UNCHANGED pc
  <2>1. AllCreated'
    BY <1>1 DEF W0Ready, W0Received, parents, AllCreated, ShootPhase
  <2> QED BY <1>1, <2>1, ShootUnchanged DEF W0Ready, W0Received, parents, local
<1>2. CASE ~UNCHANGED pc
  <2>1. /\ pc[p] \in {"w0_ready", "w0_received"} /\ p \in Living
        /\ pc' = [pc EXCEPT ![p] = "round"]
        /\ UNCHANGED <<ppc, process_count, status, all_shooted, all_received, alive_count,
                       in_game, local>>
    BY <1>2 DEF W0Ready, W0Received, At, Goto, Living, parents, local, ShootPhase
  <2>2. /\ \A q \in Players : q # p => pc'[q] = pc[q]
        /\ pc'[p] = "round" /\ AllCreated'
    BY <2>1, Shapes DEF AllCreated, ShootPhase
  <2>3. Living' = Living /\ \A q \in Players : Last(q)' = Last(q)
    BY <2>1 DEF Living, Last
  <2>4. Unshot' = Unshot /\ Raised' = Raised
    BY <2>1, <2>2, <2>3 DEF Unshot, Raised, ShootPcs, Living
  <2> QED BY <2>1, <2>2, <2>3, <2>4 DEF ShootPhase, ShootPcs, local, Living
<1> QED BY <1>1, <1>2

(* A player chooses the coordinator, raises the semaphore or shoots *)
LEMMA ShootStep ==
    ASSUME TypeInv, ShootPhase, NEW p \in Players,
           \/ StartRound(p) \/ IncShooted(p) \/ Aim(p) \/ Load(p) \/ Store(p) \/ Send(p)
           \/ WShooted(p)
    PROVE  ShootPhase' /\ Living' = Living
<1> USE Shapes DEF parents, At, Goto, Exit, local
<1>1. /\ p \in Living /\ AllCreated /\ AllCreated' /\ Living \in SUBSET Players
      /\ pc[p] \in {"round", "inc_shooted"} \cup ShootPcs
      /\ UNCHANGED <<alive_count, all_received, in_game>>
  BY DEF StartRound, IncShooted, Aim, Load, Store, Send, WShooted, ShootPhase, AllCreated,
         ShootPcs, Living
<1>2. Undead = Living /\ \A q \in Players : IsCoordinator(q) <=> Last(q)
  BY <1>1, Coordinators
<1>3. UNCHANGED status => Living' = Living
  BY DEF Living
<1>4. ASSUME StartRound(p)
      PROVE  ShootPhase' /\ Living' = Living
  <2>1. /\ pc[p] = "round"
        /\ UNCHANGED <<status, all_shooted, target, seen>>
        /\ im_coordinator'[p] <=> Last(p)
        /\ \A q \in Players : q # p => im_coordinator'[q] = im_coordinator[q]
        /\ \/ UNCHANGED <<pc, this_round>>
           \/ /\ pc' = [pc EXCEPT ![p] = "aim"] /\ UNCHANGED this_round /\ ~Last(p)
           \/ /\ pc' = [pc EXCEPT ![p] = "inc_shooted"] /\ Last(p)
              /\ this_round' = [this_round EXCEPT ![p] = alive_count]
    BY <1>1, <1>2, <1>4 DEF StartRound
  <2>2. Living' = Living /\ \A q \in Players : Last(q)' <=> Last(q)
    BY <2>1 DEF Living, Last
  <2>3. Raised' <=> Raised
    BY <2>1, <2>2 DEF Raised, ShootPcs
  <2>4. Unshot' = Unshot
    BY <2>1, <2>2 DEF Unshot, Living
  <2>5. alive_count = Cardinality(Living)
    BY DEF ShootPhase
  <2> QED BY <1>1, <2>1, <2>2, <2>3, <2>4, <2>5 DEF ShootPhase, ShootPcs
<1>5. ASSUME IncShooted(p)
      PROVE  ShootPhase' /\ Living' = Living
  <2>1. /\ pc[p] = "inc_shooted" /\ pc' = [pc EXCEPT ![p] = "aim"]
        /\ all_shooted' = all_shooted + this_round[p]
        /\ UNCHANGED <<status, im_coordinator, this_round, target, seen>>
    BY <1>5 DEF IncShooted
  <2>2. Living' = Living /\ \A q \in Players : Last(q)' <=> Last(q)
    BY <2>1 DEF Living, Last
  <2>3. /\ im_coordinator[p] /\ Last(p) /\ this_round[p] = Cardinality(Living)
        /\ ~Raised
    BY <1>1, <2>1, OneLast DEF ShootPhase, Raised, ShootPcs
  <2>4. Raised'
    BY <2>1, <2>2, <2>3 DEF Raised, ShootPcs
  <2>5. Unshot' = Living /\ all_shooted' = Cardinality(Living)
    BY <1>1, <2>1, <2>2, <2>3, Count DEF Unshot, ShootPhase
  <2> QED BY <1>1, <2>1, <2>2, <2>3, <2>4, <2>5 DEF ShootPhase, ShootPcs
<1>6. ASSUME Aim(p) \/ Load(p) \/ Store(p) \/ Send(p)
      PROVE  ShootPhase' /\ Living' = Living
  <2>1. /\ pc[p] \in ShootPcs \ {"w0_shooted"}
        /\ \/ UNCHANGED pc
           \/ \E l \in ShootPcs \ {"w0_shooted"} : pc' = [pc EXCEPT ![p] = l]
        /\ UNCHANGED <<all_shooted, im_coordinator, this_round>>
    BY <1>6 DEF Aim, Load, Store, Send, ShootPcs
  <2>2. Living' = Living
    <3>1. CASE Store(p)
      <4>1. /\ pc[p] = "store" /\ target[p] \in Living /\ "DEAD" \notin seen[p]
        BY <3>1 DEF Store, ShootPhase
      <4>2. status' = [status EXCEPT ![target[p]] = seen[p] \cup {"DEAD_THIS_ROUND"}]
        BY <3>1 DEF Store, Marked
      <4> QED BY <1>1, <4>1, <4>2 DEF Living
    <3>2. CASE ~Store(p)
      BY <1>3, <1>6, <3>2 DEF Aim, Load, Send, Living
    <3> QED BY <3>1, <3>2
  <2>3. \A q \in Players : Last(q)' <=> Last(q)
    BY <2>2 DEF Last
  <2>4. Raised' <=> Raised
    BY <2>1, <2>3 DEF Raised
  <2>5. Unshot' = Unshot
    BY <2>1, <2>2, <1>1 DEF Unshot
  <2>6. /\ \A q \in Players : pc'[q] \in {"load", "store"} => target'[q] \in Living
        /\ \A q \in Players : pc'[q] = "store" => "DEAD" \notin seen'[q]
    BY <1>1, <1>6 DEF Aim, Load, Store, Send, ShootPhase, Living
  <2> QED BY <1>1, <2>1, <2>2, <2>3, <2>4, <2>5, <2>6 DEF ShootPhase, ShootPcs
<1>7. ASSUME WShooted(p)
      PROVE  ShootPhase' /\ Living' = Living
  <2>1. /\ pc[p] = "w_shooted" /\ pc' = [pc EXCEPT ![p] = "w0_shooted"]
        /\ all_shooted > 0 /\ all_shooted' = all_shooted - 1
        /\ UNCHANGED <<status, im_coordinator, this_round, target, seen>>
    BY <1>7 DEF WShooted, MayWait
  <2>2. Living' = Living /\ \A q \in Players : Last(q)' <=> Last(q)
    BY <2>1 DEF Living, Last
  <2>3. Raised /\ Raised'
    BY <1>1, <2>1, <2>2 DEF ShootPhase, Raised, ShootPcs
  <2>4. Unshot \in SUBSET Players /\ p \in Unshot /\ Unshot' = Unshot \ {p}
    BY <1>1, <2>1, <2>2 DEF Unshot
  <2>5. all_shooted' = Cardinality(Unshot')
    BY <2>1, <2>3, <2>4, CountLess DEF ShootPhase
  <2> QED BY <1>1, <2>1, <2>2, <2>3, <2>5 DEF ShootPhase, ShootPcs
<1> QED BY <1>4, <1>5, <1>6, <1>7
-----------------------------------------------------------------------------
(* The count of the dead *)

(* Past the first barrier; the coordinator still has to raise the second *)
LEMMA CountEnter ==
    ASSUME TypeInv, CountPhase, NEW p \in Players, W0Shooted(p) \/ IncReceived(p)
    PROVE  CountPhase'
<1> USE Shapes DEF parents, At, Goto, local
<1>1. /\ AllCreated' /\ pc[p] \in {"w0_shooted", "inc_received"} /\ p \in Living
      /\ UNCHANGED <<status, alive_count, all_shooted, in_game, im_coordinator, this_round>>
  BY DEF W0Shooted, IncReceived, CountPhase, AllCreated
<1>2. \E l \in {"inc_received", "check"} : pc' = [pc EXCEPT ![p] = l]
  BY DEF W0Shooted, IncReceived
<1>3. Living' = Living /\ Unpassed' = Unpassed /\ Uncounting' = Uncounting
  BY <1>1, <1>2 DEF Living, Unpassed, Uncounting
<1>4. CASE W0Shooted(p)
  <2>1. /\ pc[p] = "w0_shooted" /\ UNCHANGED all_received
        /\ pc' = [pc EXCEPT ![p] = IF im_coordinator[p] THEN "inc_received" ELSE "check"]
    BY <1>4 DEF W0Shooted
  <2>2. ToRaise' = ToRaise
    BY <1>1, <2>1 DEF ToRaise
  <2>3. \A q \in Players : pc'[q] = "inc_received" => im_coordinator[q]
    BY <1>1, <2>1 DEF CountPhase
  <2> QED BY <1>1, <1>2, <1>3, <2>1, <2>2, <2>3 DEF CountPhase, CountPcs
<1>5. CASE IncReceived(p)
  <2>1. /\ pc[p] = "inc_received" /\ pc' = [pc EXCEPT ![p] = "check"]
        /\ all_received' = all_received + this_round[p]
    BY <1>5 DEF IncReceived
  <2>2. p \in ToRaise /\ ToRaise = {p}
    BY <2>1 DEF CountPhase, ToRaise
  <2>3. ToRaise' = {}
    BY <1>1, <2>1, <2>2 DEF ToRaise
  <2>4. Cardinality(Unpassed) \in Nat
    BY Count DEF Unpassed
  <2>5. all_received' = Cardinality(Unpassed)
    BY <2>1, <2>2, <2>4 DEF CountPhase
  <2> QED BY <1>1, <1>2, <1>3, <2>1, <2>3, <2>5 DEF CountPhase, CountPcs
<1> QED BY <1>4, <1>5

(* A player finds out that it was shot or not, dies, or arrives at the barrier *)
LEMMA CountStep ==
    ASSUME TypeInv, CountPhase, NEW p \in Players,
           Check(p) \/ Drain(p) \/ Die(p) \/ Uncount(p) \/ WReceived(p)
    PROVE  CountPhase'
<1> USE Shapes DEF parents, At, Goto, Exit, local
<1>1. /\ AllCreated' /\ pc[p] \in {"check", "drain", "die", "uncount", "w_received"}
      /\ UNCHANGED <<all_shooted, im_coordinator, this_round>>
  BY DEF Check, Drain, Die, Uncount, WReceived, WaitReceived, CountPhase, AllCreated
<1>2. \/ UNCHANGED pc
      \/ \E l \in CountPcs \ {"w0_shooted", "inc_received"} : pc' = [pc EXCEPT ![p] = l]
  BY DEF Check, Drain, Die, Uncount, WReceived, WaitReceived, CountPcs
<1>3. ToRaise' = ToRaise
  BY <1>1, <1>2 DEF ToRaise
<1>4. /\ \A q \in Players : pc'[q] \in CountPcs
      /\ \A q \in Players : pc'[q] = "inc_received" => im_coordinator'[q]
  BY <1>1, <1>2 DEF CountPhase
<1>5. Living \in SUBSET Players /\ Uncounting \in SUBSET Players /\ Unpassed \in SUBSET Players
  BY DEF Living, Uncounting, Unpassed
<1>6. /\ Cardinality(Living) \in Nat /\ Cardinality(Uncounting) \in Nat
      /\ Cardinality(Unpassed) \in Nat
  BY <1>5, Count
<1>7. CASE Check(p) \/ Drain(p)
  <2>1. /\ pc[p] \in {"check", "drain"} /\ p \in Living
        /\ UNCHANGED <<alive_count, all_received, in_game>>
        /\ UNCHANGED status \/ status' = [status EXCEPT ![p] = {"READY"}]
        /\ \/ UNCHANGED pc
           \/ \E l \in {"drain", "die", "w_received"} : pc' = [pc EXCEPT ![p] = l]
    BY <1>7 DEF Check, Drain, CountPhase
  <2>2. Living' = Living
    BY <2>1 DEF Living
  <2>3. Unpassed' = Unpassed /\ Uncounting' = Uncounting
    BY <2>1 DEF Unpassed, Uncounting
  <2>4. \A q \in Players \ Living : pc'[q] = pc[q]
    BY <2>1
  <2> QED BY <1>1, <1>3, <1>4, <2>1, <2>2, <2>3, <2>4 DEF CountPhase
<1>8. CASE Die(p)
  <2>1. /\ pc[p] = "die" /\ p \in Living /\ p \notin Uncounting
        /\ UNCHANGED <<alive_count, all_received, in_game>>
        /\ status' = [status EXCEPT ![p] = status[p] \cup {"DEAD"}]
        /\ pc' = [pc EXCEPT ![p] = "uncount"]
    BY <1>8 DEF Die, CountPhase, Uncounting
  <2>2. /\ Living' = Living \ {p} /\ Uncounting' = Uncounting \cup {p}
        /\ Unpassed' = Unpassed
    BY <2>1 DEF Living, Uncounting, Unpassed
  <2>3. /\ Cardinality(Living') = Cardinality(Living) - 1
        /\ Cardinality(Uncounting') = Cardinality(Uncounting) + 1
    BY <1>5, <2>1, <2>2, CountLess, CountMore
  <2>4. /\ alive_count = Cardinality(Living') + Cardinality(Uncounting')
        /\ in_game = Living' \cup Uncounting' /\ Uncounting' \cap Living' = {}
    BY <1>6, <2>1, <2>2, <2>3 DEF CountPhase
  <2>5. \A q \in Players \ Living' : pc'[q] \in {"uncount", "w_received", "w0_received"}
    BY <2>1, <2>2 DEF CountPhase
  <2> QED BY <1>1, <1>3, <1>4, <2>1, <2>2, <2>4, <2>5 DEF CountPhase
<1>9. CASE Uncount(p)
  <2>1. /\ pc[p] = "uncount" /\ p \in Uncounting /\ p \notin Living
        /\ UNCHANGED <<all_received, status>>
        /\ alive_count' = (alive_count + 65535) % 65536 /\ in_game' = in_game \ {p}
        /\ pc' = [pc EXCEPT ![p] = "w_received"]
    BY <1>9 DEF Uncount, CountPhase, Uncounting, Decrement
  <2>2. Living' = Living /\ Uncounting' = Uncounting \ {p} /\ Unpassed' = Unpassed
    BY <2>1 DEF Living, Uncounting, Unpassed
  <2>3. /\ Cardinality(Uncounting') = Cardinality(Uncounting) - 1
        /\ Cardinality(Uncounting') \in Nat
    BY <1>5, <2>1, <2>2, CountLess, Count
  <2>4. alive_count' = alive_count - 1
    <3>1. alive_count \in Nat /\ alive_count >= 1 /\ alive_count < 65536
      BY <1>6, <2>3 DEF CountPhase, UShort
    <3> QED BY <2>1, <3>1
  <2>5. /\ alive_count' = Cardinality(Living') + Cardinality(Uncounting')
        /\ in_game' = Living' \cup Uncounting' /\ Uncounting' \cap Living' = {}
    BY <1>6, <2>1, <2>2, <2>3, <2>4 DEF CountPhase
  <2>6. \A q \in Players \ Living' : pc'[q] \in {"uncount", "w_received", "w0_received"}
    BY <2>1, <2>2 DEF CountPhase
  <2> QED BY <1>1, <1>3, <1>4, <2>1, <2>2, <2>5, <2>6 DEF CountPhase
<1>10. CASE WReceived(p)
  <2>1. /\ pc[p] = "w_received" /\ p \in Unpassed /\ p \notin Uncounting
        /\ UNCHANGED <<alive_count, status, in_game>>
        /\ all_received > 0 /\ all_received' = all_received - 1
        /\ pc' = [pc EXCEPT ![p] = "w0_received"]
    BY <1>10 DEF WReceived, WaitReceived, MayWait, Unpassed, Uncounting
  <2>2. Living' = Living /\ Uncounting' = Uncounting /\ Unpassed' = Unpassed \ {p}
    BY <2>1 DEF Living, Uncounting, Unpassed
  <2>3. ToRaise = {} /\ all_received' = Cardinality(Unpassed')
    BY <1>5, <2>1, <2>2, CountLess DEF CountPhase
  <2>4. \A q \in Players \ Living' : pc'[q] \in {"uncount", "w_received", "w0_received"}
    BY <2>1, <2>2 DEF CountPhase
  <2> QED BY <1>1, <1>3, <1>4, <2>1, <2>2, <2>3, <2>4 DEF CountPhase
<1> QED BY <1>7, <1>8, <1>9, <1>10

(* Whoever leaves the second barrier before it is raised is dead and ends *)
LEMMA CountLeave ==
    ASSUME TypeInv, CountPhase, NEW p \in Players, W0Received(p)
    PROVE  CountPhase' \/ ShootPhase'
<1>1. all_received = 0 /\ pc[p] = "w0_received" /\ AllCreated'
  BY DEF W0Received, At, IsZero, CountPhase, AllCreated, parents
<1>2. CASE ToRaise = {}
  BY <1>1, <1>2, CountEnds, ShootEnter
<1>3. CASE ToRaise # {}
  <2>1. p \notin Living
    BY <1>1, <1>3 DEF CountPhase, Unpassed
  <2>2. UNCHANGED <<pc, status, all_shooted, all_received, alive_count, in_game, local>>
    BY <2>1 DEF W0Received, Living, parents, local
  <2> QED BY <1>1, <2>2, CountUnchanged
<1> QED BY <1>2, <1>3
-----------------------------------------------------------------------------
LEMMA PhaseChild ==
    ASSUME TypeInv, TypeInv', StartPhase \/ ShootPhase \/ CountPhase, NEW p \in Players,
           Child(p)
    PROVE  StartPhase' \/ ShootPhase' \/ CountPhase'
<1> DEFINE Ends == SemaphoreGone(p) \/ Killed(p)
           Starts == Start(p) \/ Register(p) \/ WReady(p)
           Shoots == \/ StartRound(p) \/ IncShooted(p) \/ Aim(p) \/ Load(p) \/ Store(p)
                     \/ Send(p) \/ WShooted(p)
           Counts == Check(p) \/ Drain(p) \/ Die(p) \/ Uncount(p) \/ WReceived(p)
<1>1. /\ Ends => UNCHANGED <<pc, status, all_shooted, all_received, alive_count, in_game, local>>
      /\ Ends /\ AllCreated => AllCreated'
  BY DEF SemaphoreGone, Killed, parents, AllCreated
<1>2. /\ Starts => pc[p] \in {"start", "register", "w_ready"}
      /\ W0Ready(p) => At(p, "w0_ready") /\ all_received = 0
      /\ Shoots => pc[p] \in {"round", "inc_shooted", "aim", "load", "store", "send",
                              "w_shooted"}
      /\ W0Shooted(p) => At(p, "w0_shooted") /\ all_shooted = 0
      /\ IncReceived(p) => pc[p] = "inc_received"
      /\ Counts => pc[p] \in {"check", "drain", "die", "uncount", "w_received"}
      /\ W0Received(p) => pc[p] = "w0_received"
  BY DEF Start, Register, WReady, W0Ready, StartRound, IncShooted, Aim, Load, Store, Send,
         WShooted, W0Shooted, IncReceived, Check, Drain, Die, Uncount, WReceived,
         WaitReceived, W0Received, At, IsZero
<1>3. \/ Ends \/ Starts \/ W0Ready(p) \/ Shoots \/ W0Shooted(p) \/ IncReceived(p) \/ Counts
      \/ W0Received(p)
  BY DEF Child
<1>4. CASE StartPhase
  <2>1. pc[p] \in {"start", "register", "w_ready", "w0_ready"}
    BY <1>4 DEF StartPhase
  <2>2. CASE Ends \/ Starts
    BY <1>4, <2>2, StartChild
  <2>3. CASE W0Ready(p)
    BY <1>2, <1>4, <2>3, StartEnds, ShootEnter
  <2> QED BY <1>2, <1>3, <2>1, <2>2, <2>3 DEF At
<1>5. CASE ShootPhase
  <2>1. /\ AllCreated
        /\ pc[p] \in {"w0_ready", "w0_received", "round", "inc_shooted"} \cup ShootPcs
    BY <1>5 DEF ShootPhase
  <2>2. CASE Ends
    BY <1>1, <1>5, <2>1, <2>2, ShootUnchanged
  <2>3. CASE W0Ready(p) \/ W0Received(p)
    BY <1>5, <2>3, ShootEnter
  <2>4. CASE Shoots
    BY <1>5, <2>4, ShootStep
  <2>5. CASE W0Shooted(p)
    BY <1>2, <1>5, <2>5, ShootEnds, CountEnter
  <2> HIDE DEF Ends, Starts, Shoots, Counts
  <2> QED BY <1>2, <1>3, <2>1, <2>2, <2>3, <2>4, <2>5 DEF At, ShootPcs
<1>6. CASE CountPhase
  <2>1. AllCreated /\ pc[p] \in CountPcs
    BY <1>6 DEF CountPhase
  <2>2. CASE Ends
    BY <1>1, <1>6, <2>1, <2>2, CountUnchanged
  <2>3. CASE W0Shooted(p) \/ IncReceived(p)
    BY <1>6, <2>3, CountEnter
  <2>4. CASE Counts
    BY <1>6, <2>4, CountStep
  <2>5. CASE W0Received(p)
    BY <1>6, <2>5, CountLeave
  <2> HIDE DEF Ends, Starts, Shoots, Counts
  <2> QED BY <1>2, <1>3, <2>1, <2>2, <2>3, <2>4, <2>5 DEF At, CountPcs
<1> QED BY <1>4, <1>5, <1>6

LEMMA PhaseNext == Phases /\ [Next]_vars => Phases'
<1> SUFFICES ASSUME Phases, [Next]_vars PROVE Phases'
  OBVIOUS
<1>1. TypeInv /\ TypeInv' /\ (StartPhase \/ ShootPhase \/ CountPhase)
  BY TypeNext DEF Phases
<1>2. CASE Parent \/ Interrupt
  <2>1. CASE StartPhase
    BY <1>1, <1>2, <2>1, StartParent DEF Phases
  <2>2. CASE ShootPhase \/ CountPhase
    BY <1>1, <1>2, <2>2, ParentLeaves, ShootUnchanged, CountUnchanged
       DEF Phases, ShootPhase, CountPhase
  <2> QED BY <1>1, <2>1, <2>2
<1>3. CASE \E p \in Players : Child(p)
  BY <1>1, <1>3, PhaseChild DEF Phases
<1>4. CASE UNCHANGED vars
  <2>1. UNCHANGED <<ppc, process_count, proc, pc, status, all_shooted, all_received,
                    alive_count, in_game, local>>
    BY <1>4 DEF vars, data, kernel, family
  <2>2. CASE StartPhase
    <3>1. Unready' = Unready /\ ParentOwes' = ParentOwes
      BY <2>1 DEF Unready, ParentOwes
    <3> QED BY <1>1, <2>1, <2>2, <3>1 DEF StartPhase, Phases
  <2>3. CASE ShootPhase \/ CountPhase
    <3>1. AllCreated' BY <2>1, <2>3 DEF ShootPhase, CountPhase, AllCreated
    <3> QED BY <1>1, <2>1, <2>3, <3>1, ShootUnchanged, CountUnchanged DEF Phases
  <2> QED BY <1>1, <2>2, <2>3
<1> QED BY <1>2, <1>3, <1>4 DEF Next

LEMMA PhasesHold == Spec => []Phases
<1>1. Init => Phases BY TypeInit, InitPhase DEF Phases
<1> QED BY <1>1, PhaseNext, PTL DEF Spec

(* While one process still counts the dead of a round nobody shoots in it, *)
(* chooses the coordinator of the next one or still has to pass the first  *)
(* barrier: semaphore_wait and semaphore_wait_zero do separate the phases. *)
THEOREM BarriersSeparate == Spec => []PhasesApart
<1>1. Phases => PhasesApart
  BY DEF Phases, PhasesApart, StartPhase, ShootPhase, CountPhase, ShootPcs, CountPcs,
         Resolving, ResolvePcs, RoundPcs
<1> QED BY <1>1, PhasesHold, PTL

(* No two players both conclude that they coordinate the round, whoever has *)
(* died before: is_current_proc_coordinator elects one at most.             *)
THEOREM OneCoordinator == Spec => []UniqueCoordinator
<1>1. Phases => UniqueCoordinator
  <2> SUFFICES ASSUME Phases, NEW p \in Players, NEW q \in Players,
                      {pc[p], pc[q]} \subseteq RoundPcs \cup {"w0_shooted", "inc_received"},
                      im_coordinator[p], im_coordinator[q]
               PROVE  p = q
    BY DEF UniqueCoordinator
  <2>1. CASE StartPhase
    BY <2>1 DEF StartPhase, RoundPcs
  <2>2. CASE ShootPhase
    <3>1. p \in Living /\ q \in Living
      BY <2>2 DEF ShootPhase, RoundPcs, Living
    <3>2. Last(p) /\ Last(q)
      BY <2>2, <3>1 DEF ShootPhase, RoundPcs, ShootPcs
    <3> QED BY <3>2, OneLast
  <2>3. CASE CountPhase
    BY <2>3 DEF CountPhase, CountPcs, RoundPcs, ToRaise
  <2> QED BY <2>1, <2>2, <2>3 DEF Phases
<1> QED BY <1>1, PhasesHold, PTL

(* Whoever is at "round" is in the shooting phase *)
LEMMA AtRound == Phases /\ (\E p \in Players : At(p, "round")) => ShootPhase
BY DEF Phases, StartPhase, CountPhase, CountPcs, At

(* alive_count, the status of the players and the library agree whenever a  *)
(* player is about to choose the coordinator.                               *)
THEOREM CountersAgree == Spec => []AliveCountAgrees
<1>1. Phases => AliveCountAgrees
  BY AtRound, Coordinators DEF AliveCountAgrees, ShootPhase
<1> QED BY <1>1, PhasesHold, PTL

(* The scan of is_current_proc_coordinator and the test of alive_count read *)
(* what nobody changes while any process is at them, shots included.        *)
THEOREM ScanIsStable == Spec => CoordinatorStable
<1>1. Phases /\ [Next]_vars
        => [(\E p \in Players : At(p, "round")) => UNCHANGED <<Undead, alive_count>>]_vars
  <2> SUFFICES ASSUME Phases, [Next]_vars, NEW r \in Players, At(r, "round")
               PROVE  Undead' = Undead /\ alive_count' = alive_count
    OBVIOUS
  <2>1. TypeInv /\ TypeInv' /\ ShootPhase /\ AllCreated
    BY AtRound, TypeNext DEF Phases, ShootPhase
  <2>2. CASE UNCHANGED <<status, alive_count, process_count>>
    BY <2>2 DEF Undead
  <2>3. CASE Parent \/ Interrupt
    BY <2>1, <2>2, <2>3, ParentLeaves DEF AllCreated
  <2>4. ASSUME NEW p \in Players, Child(p)
        PROVE  Undead' = Undead /\ alive_count' = alive_count
    <3>1. pc[p] \in {"w0_ready", "w0_received", "round", "inc_shooted"} \cup ShootPcs
      BY <2>1 DEF ShootPhase
    <3>2. CASE /\ UNCHANGED status
               /\ UNCHANGED <<alive_count, process_count>>
      BY <2>2, <3>2
    <3>3. CASE Store(p)
      <4>1. Living' = Living /\ AllCreated'
        BY <2>1, <3>3, ShootStep DEF ShootPhase
      <4>2. Undead = {q \in Players : q \in Living} /\ Undead' = {q \in Players : q \in Living'}
        BY <2>1, <4>1, NAssumption DEF Undead, Living, AllCreated, Players
      <4> QED BY <3>3, <4>1, <4>2 DEF Store, parents
    <3> QED BY <2>4, <3>1, <3>2, <3>3 DEF Child, ShootPcs, Start, Register, WReady,
               W0Ready, StartRound, IncShooted, Aim, Load, Send, WShooted, W0Shooted,
               IncReceived, Check, Drain, Die, Uncount, WReceived, WaitReceived, W0Received,
               SemaphoreGone, Killed, parents, At
  <2>5. CASE UNCHANGED vars
    BY <2>2, <2>5 DEF vars, data
  <2> QED BY <2>3, <2>4, <2>5 DEF Next
<1> QED BY <1>1, PhasesHold, PTL DEF Spec, CoordinatorStable
-----------------------------------------------------------------------------
(* A message is only sent to a player already marked, and the mark of who   *)
(* has a message stays until it has been read                               *)
Marks ==
    /\ \A p \in Players : pc[p] = "send" => Shot \in status[target[p]]
    /\ "queue" \in ipc => \A p \in Players : queue[p] > 0 => Shot \in status[p]
    /\ \A p \in Players : pc[p] = "drain" => Shot \in status[p]
    /\ (\E p \in Players : pc[p] = "start") => \A p \in Players : queue[p] = 0
    /\ \A p \in Players : proc[p] # "abort"

LEMMA QueueType ==
    ASSUME TypeInv
    PROVE  /\ queue \in [Players -> Nat]
           /\ \A p \in Players : pc[p] \in {"load", "store", "send"} => target[p] \in Players
BY DEF TypeInv, TypeOK

LEMMA MarksParent ==
    ASSUME Phases, Marks, Parent \/ Interrupt
    PROVE  Marks'
<1> USE Shapes, QueueType DEF Phases, data, kernel, family, local
<1>1. UNCHANGED <<pc, queue, target>>
  BY DEF Parent, Interrupt, CreateSemaphores, CreateQueue, StartLibrary, Fork, Record,
         ParentReady, Reap, Finish, KillNext, RemoveSemaphores, RemoveQueue
<1>2. CASE Fork
  <2>1. StartPhase
    BY <1>2 DEF Fork, ShootPhase, CountPhase, AllCreated
  <2>2. process_count \in Players /\ pc[process_count] = "start"
    BY <1>2, <2>1, NAssumption DEF Fork, StartPhase, TypeInv, Players
  <2>3. /\ \A p \in Players : pc[p] # "send" /\ pc[p] # "drain" /\ queue[p] = 0
        /\ UNCHANGED ipc
        /\ UNCHANGED proc \/ proc' = [proc EXCEPT ![process_count] = "live"]
    BY <1>2, <2>1, <2>2 DEF Fork, StartPhase, Marks
  <2> QED BY <1>1, <2>2, <2>3 DEF Marks
<1>3. CASE CreateQueue
  <2>1. \A p \in Players : pc[p] = "start"
    BY <1>3 DEF CreateQueue, TypeInv, StartPhase, ShootPhase, CountPhase, AllCreated, Players
  <2>2. 0 \in Players
    BY NAssumption DEF Players
  <2>3. UNCHANGED <<status, proc>>
    BY <1>3 DEF CreateQueue
  <2> QED BY <1>1, <2>1, <2>2, <2>3 DEF Marks
<1>4. CASE ~Fork /\ ~CreateQueue
  <2>1. UNCHANGED <<status, proc>> /\ ipc' \cap {"queue"} \subseteq ipc
    BY <1>4 DEF Parent, Interrupt, CreateSemaphores, StartLibrary, Record, ParentReady,
               Reap, Finish, KillNext, RemoveSemaphores, RemoveQueue, Removed, ParentFails
  <2> QED BY <1>1, <2>1 DEF Marks
<1> QED BY <1>2, <1>3, <1>4

LEMMA MarksChild ==
    ASSUME Phases, Marks, NEW p \in Players, Child(p)
    PROVE  Marks'
<1> USE Shapes, QueueType DEF Phases, At, Goto, Exit, parents, local
<1>1. CASE Start(p)
  <2>1. /\ pc[p] = "start" /\ pc' = [pc EXCEPT ![p] = "register"]
        /\ status' = [status EXCEPT ![p] = {"READY"}]
        /\ UNCHANGED <<ipc, queue, target, proc>>
    BY <1>1 DEF Start
  <2>2. \A q \in Players : pc[q] # "send" /\ pc[q] # "drain" /\ queue[q] = 0
    BY <2>1 DEF StartPhase, ShootPhase, ShootPcs, CountPhase, CountPcs, Marks
  <2> QED BY <2>1, <2>2 DEF Marks
<1>2. CASE Store(p)
  <2>1. /\ pc[p] = "store" /\ pc' = [pc EXCEPT ![p] = "send"]
        /\ target[p] \in Players
        /\ status' = [status EXCEPT ![target[p]] = seen[p] \cup {Shot}]
        /\ UNCHANGED <<ipc, queue, target, proc>>
    BY <1>2 DEF Store, Marked, Shot
  <2>2. \A q \in Players : Shot \in status[q] => Shot \in status'[q]
    BY <2>1
  <2> QED BY <2>1, <2>2 DEF Marks
<1>3. CASE Send(p)
  <2>1. /\ pc[p] = "send" /\ target[p] \in Players /\ Shot \in status[target[p]]
        /\ UNCHANGED <<ipc, status, target>>
        /\ \/ /\ pc' = [pc EXCEPT ![p] = "w_shooted"] /\ UNCHANGED proc
              /\ \/ UNCHANGED queue
                 \/ queue' = [queue EXCEPT ![target[p]] = queue[target[p]] + 1]
           \/ UNCHANGED <<pc, queue>> /\ proc' = [proc EXCEPT ![p] = "exit_100"]
    BY <1>3 DEF Send, Marks
  <2>2. \A q \in Players : pc[q] # "start"
    BY <2>1 DEF StartPhase, ShootPhase, ShootPcs, CountPhase, CountPcs
  <2> QED BY <2>1, <2>2 DEF Marks
<1>4. CASE Check(p)
  <2>1. /\ pc[p] = "check" /\ UNCHANGED <<ipc, target, proc>>
        /\ \/ /\ pc' = [pc EXCEPT ![p] = "die"] /\ UNCHANGED <<status, queue>>
           \/ /\ pc' = [pc EXCEPT ![p] = "drain"] /\ UNCHANGED status
              /\ "queue" \in ipc /\ queue[p] > 0
              /\ queue' = [queue EXCEPT ![p] = queue[p] - 1]
           \/ /\ pc' = [pc EXCEPT ![p] = "w_received"] /\ UNCHANGED queue
              /\ status' = [status EXCEPT ![p] = {"READY"}]
              /\ ("queue" \in ipc => queue[p] = 0) \/ Shot \notin status[p]
    BY <1>4 DEF Check, HasMessage, Shot
  <2>2. \A q \in Players : pc[q] # "start" /\ pc[q] # "send"
    BY <2>1 DEF StartPhase, ShootPhase, ShootPcs, CountPhase, CountPcs
  <2> QED BY <2>1, <2>2 DEF Marks
<1>5. CASE Drain(p)
  <2>1. /\ pc[p] = "drain" /\ Shot \in status[p]
        /\ UNCHANGED <<ipc, status, target, proc>>
        /\ \/ UNCHANGED pc /\ queue[p] > 0 /\ queue' = [queue EXCEPT ![p] = queue[p] - 1]
           \/ UNCHANGED queue /\ pc' = [pc EXCEPT ![p] = "die"]
    BY <1>5 DEF Drain, MoreMessages, HasMessage, Shot, Marks
  <2> QED BY <2>1 DEF Marks
<1>6. CASE Die(p)
  <2>1. /\ pc[p] = "die" /\ pc' = [pc EXCEPT ![p] = "uncount"]
        /\ status' = [status EXCEPT ![p] = status[p] \cup {"DEAD"}]
        /\ UNCHANGED <<ipc, queue, target, proc>>
    BY <1>6 DEF Die
  <2>2. \A q \in Players : Shot \in status[q] => Shot \in status'[q]
    BY <2>1
  <2>3. \A q \in Players : pc[q] # "send"
    BY <2>1 DEF StartPhase, ShootPhase, ShootPcs, CountPhase, CountPcs
  <2> QED BY <2>1, <2>2, <2>3 DEF Marks
<1>7. CASE StartRound(p)
  <2>1. pc[p] = "round" /\ ShootPhase
    BY <1>7, AtRound DEF StartRound
  <2>2. p \in Living /\ Undead = Living
    BY <2>1, Coordinators DEF ShootPhase
  <2>3. /\ UNCHANGED <<ipc, status, queue, target>>
        /\ UNCHANGED pc \/ \E l \in {"aim", "inc_shooted"} : pc' = [pc EXCEPT ![p] = l]
        /\ UNCHANGED proc \/ proc' = [proc EXCEPT ![p] = "exit_0"]
    BY <1>7, <2>2 DEF StartRound
  <2> QED BY <2>1, <2>3 DEF Marks
<1>8. CASE Aim(p)
  <2>1. /\ pc[p] = "aim" /\ UNCHANGED <<ipc, status, queue>>
        /\ UNCHANGED pc \/ pc' = [pc EXCEPT ![p] = "load"]
        /\ UNCHANGED proc \/ proc' = [proc EXCEPT ![p] = "exit_100"]
        /\ \A q \in Players : q # p => target'[q] = target[q]
    BY <1>8 DEF Aim
  <2> QED BY <2>1 DEF Marks
<1>9. CASE \/ Register(p) \/ WReady(p) \/ W0Ready(p) \/ IncShooted(p) \/ Load(p)
           \/ WShooted(p) \/ W0Shooted(p) \/ IncReceived(p) \/ Uncount(p) \/ WReceived(p)
           \/ W0Received(p) \/ SemaphoreGone(p) \/ Killed(p)
  <2>1. /\ UNCHANGED <<ipc, status, queue, target>>
        /\ UNCHANGED pc
           \/ \E l \in ChildPcs \ {"start", "send", "drain"} : pc' = [pc EXCEPT ![p] = l]
        /\ UNCHANGED proc
           \/ \E s \in ProcStates \ {"abort"} : proc' = [proc EXCEPT ![p] = s]
    BY <1>9 DEF Register, WReady, W0Ready, IncShooted, Load, WShooted, W0Shooted,
       IncReceived, Uncount, WReceived, WaitReceived, W0Received, SemaphoreGone, Killed,
       ChildPcs, ProcStates
  <2> QED BY <2>1 DEF Marks
<1> QED BY <1>1, <1>2, <1>3, <1>4, <1>5, <1>6, <1>7, <1>8, <1>9 DEF Child

LEMMA MarksHold == Spec => []Marks
<1>1. Init => Marks
  BY DEF Init, Marks
<1>2. Phases /\ Marks /\ [Next]_vars => Marks'
  <2> SUFFICES ASSUME Phases, Marks, [Next]_vars PROVE Marks'
    OBVIOUS
  <2>1. CASE UNCHANGED vars
    BY <2>1 DEF vars, data, kernel, family, local, Marks
  <2> QED BY <2>1, MarksParent, MarksChild DEF Next
<1> QED BY <1>1, <1>2, PhasesHold, PTL DEF Spec
-----------------------------------------------------------------------------
(***************************************************************************)
(* What the players of Pist2 exchange (marks, messages and targets) and    *)
(* why the family plays the game of ShootingGame, for every number of      *)
(* players, every choice of the library and every set of faults.           *)
(*                                                                         *)
(* With a message queue a signal while the parent reaps is excluded: then  *)
(* a player that has not received its SIGKILL yet can go on without the    *)
(* queue.  "Bypass" has none, so no signal matters to it.                  *)
(***************************************************************************)

StartPcs == {"start", "register", "w_ready", "w0_ready"}
AfterMark == {"send", "w_shooted", "w0_shooted"}
Hit == {p \in Players : Shot \in status[p]}

(* The parent does not close the game while a player is in a round: either *)
(* nobody runs, or some unit of READY will never be taken                  *)
Closing == ppc \in {"fin", "kill", "rm_sem", "rm_queue", "gone"}
NobodyRuns == \A p \in Players : proc[p] # "live"
NeverReady == StartPhase /\ all_received > Cardinality(Unready)

Undisturbed ==
    ~Bypass =>
        /\ ppc \in {"inicio", "fork", "record", "w_ready", "reap"} => "queue" \in ipc
        /\ \A p \in reaped : Ended(p)
        /\ Closing => NobodyRuns \/ NeverReady

(* The start: no message *)
StartRounds == StartPhase /\ \A t \in Players : queue[t] = 0

(* The shooting: a mark for each target of who has stored it, a message for *)
(* each shot of who has sent it, and at least two to shoot at each other   *)
Shooters(t) == {p \in Players : pc[p] \in {"w_shooted", "w0_shooted"} /\ target[p] = t}
ShootRounds ==
    /\ ShootPhase
    /\ \A p \in Living : pc[p] \in ShootPcs \cup {"inc_shooted"} => Cardinality(Living) > 1
    /\ \A p \in Players : pc[p] \in {"load", "store"} \cup AfterMark => target[p] \in Living \ {p}
    /\ \A t \in Living : t \in Hit <=> \E p \in Players : pc[p] \in AfterMark /\ target[p] = t
    /\ ~Bypass => \A t \in Players : queue[t] = Cardinality(Shooters(t))

(* The count: who has not looked yet finds a message if it is marked, who  *)
(* has looked and lives is not marked, and no message is left behind it    *)
Reckoned(t) ==
    /\ pc[t] = "w0_shooted" => target[t] \in Hit
    /\ pc[t] \in {"drain", "die"} => t \in Hit
    /\ t \in Living /\ pc[t] \in {"w_received", "w0_received"} => t \notin Hit
    /\ ~Bypass => IF pc[t] \in {"w0_shooted", "inc_received", "check"}
                  THEN queue[t] > 0 <=> t \in Hit
                  ELSE pc[t] # "drain" => queue[t] = 0
CountRounds == CountPhase /\ \A t \in Players : Reckoned(t)

Exchange == StartRounds \/ ShootRounds \/ (CountRounds /\ Resolving)
IInv == Phases /\ Undisturbed /\ Exchange
-----------------------------------------------------------------------------
LEMMA Two ==
    ASSUME NEW S \in SUBSET Players, NEW p \in S, NEW q \in S, p # q
    PROVE  Cardinality(S) > 1
<1>1. Cardinality(S \ {p}) = Cardinality(S) - 1 /\ Cardinality(S) \in Nat
  BY Count, CountLess
<1>2. Cardinality((S \ {p}) \ {q}) = Cardinality(S \ {p}) - 1
      /\ Cardinality((S \ {p}) \ {q}) \in Nat
  BY Count, CountLess
<1> QED BY <1>1, <1>2

(* A child that runs changes its own place and nothing of the parent's *)
LEMMA ChildFrame ==
    ASSUME TypeInv, NEW p \in Players, Child(p)
    PROVE  /\ proc[p] = "live" /\ UNCHANGED parents
           /\ \A q \in Players \ {p} : proc'[q] = proc[q] /\ pc'[q] = pc[q]
BY Shapes DEF Child, Start, Register, WReady, WReceived, WaitReceived, W0Ready, StartRound,
   IncShooted, Aim, Load, Store, Send, WShooted, W0Shooted, IncReceived, Check, Drain, Die,
   Uncount, W0Received, SemaphoreGone, Killed, At, Goto, Exit, parents
-----------------------------------------------------------------------------
(* Who closes the game *)

(* Before the first fork there is no child *)
LEMMA NoChildYet ==
    Phases /\ process_count = 0 /\ ppc # "record" /\ ~AllCreated => NobodyRuns
BY Shapes DEF Phases, StartPhase, ShootPhase, CountPhase, NobodyRuns, Players

LEMMA UndisturbedParent ==
    ASSUME Phases, Phases', Undisturbed, Parent \/ Interrupt,
           Bypass \/ "reap" \notin InterruptAt
    PROVE  Undisturbed'
<1> SUFFICES ASSUME ~Bypass PROVE Undisturbed'
  BY DEF Undisturbed
<1> USE DEF data, kernel, family
<1>1. TypeInv /\ TypeInv' BY DEF Phases
<1>2. CASE CreateSemaphores \/ CreateQueue \/ StartLibrary
  <2>1. process_count = 0 /\ ppc # "record" /\ ~AllCreated
    BY <1>1, <1>2 DEF CreateSemaphores, CreateQueue, StartLibrary, TypeInv, AllCreated
  <2>2. NobodyRuns BY <2>1, NoChildYet
  <2>3. /\ UNCHANGED <<proc, reaped>>
        /\ ppc' \in {"inicio", "fork"} => "queue" \in ipc'
        /\ ppc' \in {"msgget", "inicio", "fork", "fin"}
    BY <1>2 DEF CreateSemaphores, CreateQueue, StartLibrary, ParentFails, Undisturbed
  <2> QED BY <2>2, <2>3 DEF Undisturbed, NobodyRuns, Ended, Closing
<1>3. CASE (Fork \/ Interrupt) /\ ppc \in {"fork", "w_ready"}
  <2>1. StartPhase /\ StartPhase'
    <3>1. StartPhase BY <1>3 DEF Phases, ShootPhase, CountPhase, AllCreated
    <3> QED BY <1>1, <1>3, <3>1, StartParent DEF Parent
  <2>2. all_received >= Cardinality(Unready) + 1
    BY <1>3, <2>1 DEF StartPhase, ParentOwes
  <2>3. UNCHANGED <<pc, all_received, ipc, reaped>> /\ ppc' \in {"record", "fin"}
        /\ "queue" \in ipc
    BY <1>3 DEF Fork, Interrupt, ParentFails, Undisturbed
  <2>4. Unready' = Unready /\ Cardinality(Unready) \in Nat
    BY <2>3, Count DEF Unready
  <2>5. NeverReady' BY <1>1, <2>1, <2>2, <2>3, <2>4, Shapes DEF NeverReady
  <2>6. \A p \in reaped' : Ended(p)'
    <3>1. CASE UNCHANGED proc
      BY <2>3, <3>1 DEF Undisturbed, Ended
    <3>2. CASE ~UNCHANGED proc
      <4>1. /\ ppc = "fork" /\ process_count \in Players
            /\ proc' = [proc EXCEPT ![process_count] = "live"]
        BY <1>1, <1>3, <3>2, NAssumption
           DEF Fork, Interrupt, ParentFails, TypeInv, TypeOK, Players
      <4>2. proc[process_count] = "none" BY <2>1, <4>1 DEF StartPhase
      <4> QED BY <1>1, <2>3, <4>1, <4>2 DEF Undisturbed, Ended, TypeInv, TypeOK
    <3> QED BY <3>1, <3>2
  <2> QED BY <2>3, <2>5, <2>6 DEF Undisturbed
<1>4. CASE Record \/ ParentReady
  BY <1>4 DEF Record, ParentReady, Undisturbed, Closing, Ended
<1>5. CASE \E p \in Players : Reap(p)
  <2>1. PICK p \in Players : Reap(p) BY <1>5
  <2>2. /\ ppc = "reap" /\ Ended(p) /\ reaped' = reaped \cup {p}
        /\ ppc' = "reap" \/ (ppc' = "fin" /\ reaped' = Players)
        /\ UNCHANGED <<proc, ipc>>
    BY <2>1 DEF Reap
  <2>3. \A q \in reaped' : Ended(q)' BY <2>2 DEF Undisturbed, Ended
  <2>4. ppc' = "fin" => NobodyRuns' BY <2>2, <2>3 DEF NobodyRuns, Ended
  <2> QED BY <2>2, <2>3, <2>4 DEF Undisturbed, Closing
<1>6. CASE (Finish \/ KillNext \/ RemoveSemaphores \/ RemoveQueue \/ Interrupt) /\ Closing
  <2>1. Closing' /\ UNCHANGED <<proc, reaped, pc, all_received>>
    BY <1>6 DEF Finish, KillNext, RemoveSemaphores, RemoveQueue, Interrupt, Closing
  <2>2. NobodyRuns => NobodyRuns' BY <2>1 DEF NobodyRuns
  <2>3. NeverReady => NeverReady'
    <3>1. Unready' = Unready BY <2>1 DEF Unready
    <3>2. StartPhase => StartPhase' BY <1>1, <1>6, StartParent DEF Parent
    <3> QED BY <2>1, <3>1, <3>2 DEF NeverReady
  <2>4. ppc' \notin {"inicio", "fork", "record", "w_ready", "reap"}
    BY <2>1 DEF Closing
  <2> QED BY <1>6, <2>1, <2>2, <2>3, <2>4 DEF Undisturbed, Ended
<1>7. Interrupt => ppc = "w_ready" \/ Closing
  BY DEF Interrupt, Closing
<1>8. /\ Fork => ppc = "fork"
      /\ Finish \/ KillNext \/ RemoveSemaphores \/ RemoveQueue => Closing
  BY DEF Fork, Finish, KillNext, RemoveSemaphores, RemoveQueue, Closing
<1> QED BY <1>2, <1>3, <1>4, <1>5, <1>6, <1>7, <1>8 DEF Parent

LEMMA UndisturbedChild ==
    ASSUME Phases, Phases', Undisturbed, NEW p \in Players, Child(p)
    PROVE  Undisturbed'
<1> SUFFICES ASSUME ~Bypass PROVE Undisturbed'
  BY DEF Undisturbed
<1>1. TypeInv /\ TypeInv' /\ reaped \in SUBSET Players BY DEF Phases, TypeInv, TypeOK
<1>2. /\ proc[p] = "live" /\ UNCHANGED <<ppc, ipc, reaped>>
      /\ \A q \in Players \ {p} : proc'[q] = proc[q]
  BY <1>1, ChildFrame DEF parents
<1>3. \A q \in reaped' : Ended(q)' BY <1>1, <1>2 DEF Undisturbed, Ended
<1>4. CASE Closing
  <2>1. StartPhase /\ all_received > Cardinality(Unready)
    BY <1>2, <1>4 DEF Undisturbed, NobodyRuns, NeverReady
  <2>2. Unready \in SUBSET Players /\ Cardinality(Unready) \in Nat
    BY Count DEF Unready
  <2>3. pc[p] \in StartPcs /\ all_received # 0
    BY <1>1, <2>1, <2>2, Shapes DEF StartPhase, StartPcs
  <2>4. Start(p) \/ Register(p) \/ WReady(p) \/ SemaphoreGone(p) \/ Killed(p)
    BY <2>3 DEF StartPcs, Child, W0Ready, StartRound, IncShooted, Aim, Load, Store, Send,
       WShooted, W0Shooted, IncReceived, Check, Drain, Die, Uncount, WReceived, WaitReceived,
       W0Received, At, IsZero
  <2>5. StartPhase' BY <1>1, <2>1, <2>4, StartChild
  <2>6. CASE WReady(p)
    <3>1. /\ pc[p] = "w_ready" /\ pc' = [pc EXCEPT ![p] = "w0_ready"]
          /\ all_received' = all_received - 1
      BY <2>6 DEF WReady, WaitReceived, At, Goto
    <3>2. p \in Unready /\ Unready' = Unready \ {p}
      BY <1>1, <3>1, Shapes DEF Unready
    <3> QED BY <1>1, <1>2, <1>3, <1>4, <2>1, <2>2, <2>5, <3>1, <3>2, CountLess, Shapes
            DEF Undisturbed, NeverReady, Closing
  <2>7. CASE ~WReady(p)
    <3>1. /\ UNCHANGED all_received
          /\ UNCHANGED pc \/ (pc[p] = "start" /\ pc' = [pc EXCEPT ![p] = "register"])
                         \/ (pc[p] = "register" /\ pc' = [pc EXCEPT ![p] = "w_ready"])
      BY <2>4, <2>7 DEF Start, Register, SemaphoreGone, Killed, At, Goto
    <3>2. Unready' = Unready BY <1>1, <3>1, Shapes DEF Unready
    <3> QED BY <1>2, <1>3, <1>4, <2>1, <2>5, <3>1, <3>2 DEF Undisturbed, NeverReady, Closing
  <2> QED BY <2>6, <2>7
<1>5. CASE ~Closing
  BY <1>2, <1>3, <1>5 DEF Undisturbed, Closing
<1> QED BY <1>4, <1>5

(* So a player in a round finds the queue *)
LEMMA QueueThere ==
    ASSUME Phases, Undisturbed, ~Bypass, NEW p \in Players,
           proc[p] = "live", pc[p] \notin StartPcs
    PROVE  "queue" \in ipc
<1>1. ~NobodyRuns /\ ~StartPhase
  BY DEF NobodyRuns, StartPhase, StartPcs
<1> QED BY <1>1 DEF Phases, ShootPhase, CountPhase, AllCreated, Undisturbed, NeverReady, Closing
-----------------------------------------------------------------------------
(* What each phase shows of the game *)
LEMMA StartView == StartPhase => gameAlive = Players /\ gameShot = {} /\ gameHit = {}
BY DEF StartPhase, gameAlive, gameShot, gameHit, Starting, Resolving, ResolvePcs, Shot

LEMMA ShootView ==
    ShootPhase => /\ gameAlive = Living /\ gameHit = Living \cap Hit
                  /\ gameShot = {p \in Living : pc[p] \in AfterMark}
<1> SUFFICES ASSUME ShootPhase
             PROVE  /\ gameAlive = Living /\ gameHit = Living \cap Hit
                    /\ gameShot = {p \in Living : pc[p] \in AfterMark}
  OBVIOUS
<1>1. ~Resolving /\ ~Starting
  BY DEF ShootPhase, ShootPcs, Resolving, ResolvePcs, Starting
<1> QED BY <1>1 DEF gameAlive, gameShot, gameHit, Living, Hit, AfterMark, Shot

LEMMA CountView ==
    CountPhase /\ Resolving => gameAlive = Living \ Hit /\ gameShot = {} /\ gameHit = {}
<1> SUFFICES ASSUME CountPhase, Resolving
             PROVE  gameAlive = Living \ Hit /\ gameShot = {} /\ gameHit = {}
  OBVIOUS
<1>1. ~Starting BY DEF CountPhase, CountPcs, Starting
<1> QED BY <1>1 DEF gameAlive, gameShot, gameHit, Living, Hit

(* The count of the instance is that of this module *)
LEMMA SameCardinality == \A S : Game!Cardinality(S) = Cardinality(S)
BY DEF Cardinality, Game!Cardinality

Unseen == UNCHANGED <<gameAlive, gameShot, gameHit>>
-----------------------------------------------------------------------------
(* The start *)
LEMMA StartSteps ==
    ASSUME StartRounds, StartPhase', UNCHANGED queue
    PROVE  StartRounds' /\ Unseen
<1>1. StartView' BY StartView, PTL
<1> QED BY <1>1, StartView DEF StartRounds, Unseen

(* READY is zero: the first round begins without marks or messages *)
LEMMA RoundsBegin ==
    ASSUME TypeInv, StartRounds, all_received = 0, NEW p \in Players, At(p, "w0_ready")
    PROVE  ShootRounds
<1>1. ShootPhase BY StartEnds DEF StartRounds
<1>2. \A q \in Players : pc[q] = "w0_ready" /\ status[q] = {"READY"}
  BY <1>1 DEF StartRounds, StartPhase, ShootPhase, ShootPcs
<1>3. \A t \in Players : Shooters(t) = {} BY <1>2 DEF Shooters
<1>4. Hit = {} BY <1>2 DEF Hit, Shot
<1> QED BY <1>1, <1>2, <1>3, <1>4, FS_EmptySet
        DEF ShootRounds, StartRounds, ShootPcs, AfterMark, Living
-----------------------------------------------------------------------------
(* The shooting *)
LEMMA ShootMoves ==
    ASSUME TypeInv, ShootRounds, ShootPhase', UNCHANGED <<status, queue, target>>,
           \A q \in Players : \/ pc'[q] = pc[q]
                              \/ pc[q] \in {"w0_ready", "w0_received"} /\ pc'[q] = "round"
    PROVE  ShootRounds' /\ Unseen
<1>1. Living' = Living /\ Hit' = Hit BY DEF Living, Hit
<1>2. \A q \in Players, l \in ShootPcs \cup {"inc_shooted"} : pc'[q] = l <=> pc[q] = l
  BY DEF ShootPcs
<1>3. \A t \in Players : Shooters(t)' = Shooters(t)
  BY <1>2 DEF Shooters, ShootPcs
<1>4. {q \in Living' : pc'[q] \in AfterMark} = {q \in Living : pc[q] \in AfterMark}
  BY <1>1, <1>2 DEF AfterMark, ShootPcs, Living
<1>5. ShootRounds'
  BY <1>1, <1>2, <1>3 DEF ShootRounds, AfterMark, ShootPcs, Living
<1>6. ShootView' BY ShootView, PTL
<1> QED BY <1>1, <1>4, <1>5, <1>6, ShootView DEF Unseen, ShootRounds

(* Nobody goes on to shoot alone *)
LEMMA TwoPlay ==
    ASSUME TypeInv, ShootPhase, NEW p \in Players, StartRound(p), ~UNCHANGED pc
    PROVE  Cardinality(Living) > 1
<1>1. Living \in SUBSET Players /\ Cardinality(Living) \in Nat
      /\ (Cardinality(Living) = 0 <=> Living = {})
  BY Count DEF Living
<1>2. pc[p] = "round" /\ p \in Living /\ AllCreated /\ alive_count = Cardinality(Living)
  BY DEF StartRound, At, ShootPhase, Living
<1>3. CASE Last(p)
  <2>1. ~Alone BY <1>2, <1>3, Coordinators DEF StartRound
  <2> QED BY <1>1, <1>2, <2>1 DEF Alone
<1>4. CASE ~Last(p)
  <2>1. PICK q \in Living : q # p BY <1>2, <1>4, NAssumption DEF Last, Players
  <2> QED BY <1>1, <1>2, <2>1, Two
<1> QED BY <1>3, <1>4

LEMMA ShootQuiet ==
    ASSUME TypeInv, ShootRounds, NEW p \in Players,
           StartRound(p) \/ IncShooted(p) \/ Aim(p) \/ Load(p)
    PROVE  ShootRounds' /\ Unseen
<1> USE Shapes DEF At, Goto, Exit, parents, local
<1>1. ShootPhase /\ ShootPhase' /\ Living' = Living
  BY ShootStep DEF ShootRounds
<1>2. UNCHANGED <<status, queue>> /\ Hit' = Hit
  BY DEF StartRound, IncShooted, Aim, Load, Hit
<1>3. /\ pc[p] \in {"round", "inc_shooted", "aim", "load"} /\ p \in Living
      /\ \/ UNCHANGED pc
         \/ \E l \in {"inc_shooted", "aim", "load", "store"} : pc' = [pc EXCEPT ![p] = l]
  BY <1>1 DEF StartRound, IncShooted, Aim, Load, ShootPhase, Living
<1>4. \A q \in Players : pc'[q] \in AfterMark <=> pc[q] \in AfterMark
  BY <1>3 DEF AfterMark
<1>5. \A q \in Players \ {p} : target'[q] = target[q]
  BY DEF StartRound, IncShooted, Aim, Load
<1>6. pc'[p] \in {"load", "store"} => target'[p] \in Living \ {p}
  <2>1. CASE Aim(p)
    BY <1>1, <1>3, <2>1 DEF Aim, ShootPhase
  <2>2. CASE ~Aim(p)
    BY <1>1, <2>2 DEF StartRound, IncShooted, Load, ShootRounds
  <2> QED BY <2>1, <2>2
<1>7. \A t \in Players : Shooters(t)' = Shooters(t)
  BY <1>3, <1>5 DEF Shooters
<1>8. \A q \in Living : pc'[q] \in ShootPcs \cup {"inc_shooted"} => Cardinality(Living) > 1
  <2>1. CASE StartRound(p) /\ ~UNCHANGED pc BY <1>1, <2>1, TwoPlay
  <2>2. CASE UNCHANGED pc BY <2>2 DEF ShootRounds
  <2>3. CASE ~StartRound(p)
    BY <1>3, <2>3 DEF IncShooted, Aim, Load, ShootRounds, ShootPcs
  <2> QED BY <2>1, <2>2, <2>3
<1>9. ShootRounds'
  <2>1. \A q \in Players : pc'[q] \in {"load", "store"} \cup AfterMark
                            => target'[q] \in Living \ {q}
    BY <1>3, <1>4, <1>5, <1>6 DEF ShootRounds, AfterMark
  <2>2. \A t \in Living : (\E q \in Players : pc'[q] \in AfterMark /\ target'[q] = t)
                      <=> (\E q \in Players : pc[q] \in AfterMark /\ target[q] = t)
    BY <1>3, <1>4, <1>5 DEF AfterMark
  <2> QED BY <1>1, <1>2, <1>7, <1>8, <2>1, <2>2 DEF ShootRounds
<1>10. ShootView' BY ShootView, PTL
<1>11. {q \in Living' : pc'[q] \in AfterMark} = {q \in Living : pc[q] \in AfterMark}
  BY <1>1, <1>4 DEF Living
<1> QED BY <1>1, <1>2, <1>9, <1>10, <1>11, ShootView DEF Unseen

(* The mark is the shot *)
LEMMA StoreShoots ==
    ASSUME TypeInv, ShootRounds, NEW p \in Players, Store(p)
    PROVE  ShootRounds' /\ Game!Shoot(p, target[p])
<1> USE Shapes DEF At, Goto, parents, local
<1>1. ShootPhase /\ ShootPhase' /\ Living' = Living
  BY ShootStep DEF ShootRounds
<1>2. /\ pc[p] = "store" /\ p \in Living /\ target[p] \in Living \ {p}
      /\ pc' = [pc EXCEPT ![p] = "send"] /\ UNCHANGED <<queue, target>>
      /\ status' = [status EXCEPT ![target[p]] = seen[p] \cup {Shot}]
  BY DEF Store, Marked, Shot, ShootRounds, ShootPhase, Living
<1>3. Hit' = Hit \cup {target[p]} BY <1>2 DEF Hit, Living
<1>4. \A q \in Players : pc'[q] \in AfterMark <=> q = p \/ pc[q] \in AfterMark
  BY <1>2 DEF AfterMark
<1>5. \A t \in Players : Shooters(t)' = Shooters(t)
  BY <1>2 DEF Shooters
<1>6. ShootRounds'
  <2>1. \A q \in Living : pc'[q] \in ShootPcs \cup {"inc_shooted"} => Cardinality(Living) > 1
    BY <1>2 DEF ShootRounds, ShootPcs
  <2>2. \A q \in Players : pc'[q] \in {"load", "store"} \cup AfterMark
                            => target[q] \in Living \ {q}
    BY <1>2, <1>4 DEF ShootRounds, AfterMark
  <2>3. \A t \in Living : (\E q \in Players : pc'[q] \in AfterMark /\ target[q] = t)
                      <=> t = target[p] \/ t \in Hit
    BY <1>2, <1>4 DEF ShootRounds
  <2> QED BY <1>1, <1>2, <1>3, <1>5, <2>1, <2>2, <2>3 DEF ShootRounds
<1>7. ShootView' BY ShootView, PTL
<1>8. Cardinality(Living) > 1 BY <1>2 DEF ShootRounds, ShootPcs
<1>9. {q \in Living' : pc'[q] \in AfterMark} = {q \in Living : pc[q] \in AfterMark} \cup {p}
  BY <1>1, <1>2, <1>4 DEF Living
<1>10. /\ gameAlive = Living /\ gameAlive' = Living
       /\ gameShot' = gameShot \cup {p} /\ p \notin gameShot
  BY <1>1, <1>2, <1>7, <1>9, ShootView DEF AfterMark
<1>11. gameHit' = gameHit \cup {target[p]}
  BY <1>1, <1>2, <1>3, <1>7, ShootView
<1> QED BY <1>2, <1>6, <1>8, <1>10, <1>11, SameCardinality DEF Game!Shoot, Game!Playing

(* The message, and the arrival at the first barrier *)
LEMMA SendArrives ==
    ASSUME TypeInv, ShootRounds, NEW p \in Players, Send(p) \/ WShooted(p)
    PROVE  ShootRounds' /\ Unseen
<1> USE Shapes, QueueType DEF At, Goto, Exit, parents, local
<1>1. ShootPhase /\ ShootPhase' /\ Living' = Living
  BY ShootStep DEF ShootRounds
<1>2. /\ pc[p] \in {"send", "w_shooted"} /\ p \in Living
      /\ UNCHANGED <<status, target>> /\ Hit' = Hit
      /\ UNCHANGED pc \/ \E l \in {"w_shooted", "w0_shooted"} : pc' = [pc EXCEPT ![p] = l]
  BY DEF Send, WShooted, ShootRounds, ShootPhase, Living, Hit
<1>3. \A q \in Players : pc'[q] \in AfterMark <=> pc[q] \in AfterMark
  BY <1>2 DEF AfterMark
<1>4. \A q \in Players : \/ pc'[q] = pc[q]
                         \/ q = p /\ {pc[q], pc'[q]} \subseteq AfterMark
  BY <1>2 DEF AfterMark
<1>5. ~Bypass => \A t \in Players : queue'[t] = Cardinality(Shooters(t)')
  <2> SUFFICES ASSUME ~Bypass, NEW t \in Players
               PROVE  queue'[t] = Cardinality(Shooters(t)')
    OBVIOUS
  <2>1. queue[t] = Cardinality(Shooters(t)) /\ Shooters(t) \in SUBSET Players
    BY DEF ShootRounds, Shooters
  <2>2. CASE UNCHANGED queue
    <3>1. Shooters(t)' = Shooters(t)
      BY <1>2, <2>2, QueueType DEF Send, WShooted, Shooters
    <3> QED BY <2>1, <2>2, <3>1
  <2>3. CASE ~UNCHANGED queue
    <3>1. /\ pc[p] = "send" /\ pc' = [pc EXCEPT ![p] = "w_shooted"]
          /\ queue' = [queue EXCEPT ![target[p]] = queue[target[p]] + 1]
      BY <2>3 DEF Send, WShooted
    <3>2. CASE t = target[p]
      <4>1. p \notin Shooters(t) /\ Shooters(t)' = Shooters(t) \cup {p}
        BY <1>2, <3>1, <3>2 DEF Shooters
      <4> QED BY <2>1, <3>1, <3>2, <4>1, CountMore
    <3>3. CASE t # target[p]
      <4>1. Shooters(t)' = Shooters(t) BY <1>2, <3>1, <3>3 DEF Shooters
      <4> QED BY <2>1, <3>1, <3>3, <4>1
    <3> QED BY <3>2, <3>3
  <2> QED BY <2>2, <2>3
<1>6. ShootRounds'
  <2>1. \A q \in Living : pc'[q] \in ShootPcs \cup {"inc_shooted"} => Cardinality(Living) > 1
    BY <1>2 DEF ShootRounds, ShootPcs
  <2>2. \A q \in Players : pc'[q] \in {"load", "store"} \cup AfterMark
                            => target[q] \in Living \ {q}
    BY <1>4 DEF ShootRounds, AfterMark
  <2> QED BY <1>1, <1>2, <1>3, <1>5, <2>1, <2>2 DEF ShootRounds
<1>7. ShootView' BY ShootView, PTL
<1>8. {q \in Living' : pc'[q] \in AfterMark} = {q \in Living : pc[q] \in AfterMark}
  BY <1>1, <1>3 DEF Living
<1> QED BY <1>1, <1>2, <1>6, <1>7, <1>8, ShootView DEF Unseen
-----------------------------------------------------------------------------
(* The count of the dead *)

(* The first barrier is only zero when every shot has been marked and sent *)
LEMMA RoundCloses ==
    ASSUME TypeInv, ShootRounds, all_shooted = 0, NEW p \in Players, At(p, "w0_shooted")
    PROVE  /\ CountRounds /\ Cardinality(Living) > 1
           /\ \A q \in Living : pc[q] = "w0_shooted"
<1>1. ShootPhase /\ CountPhase BY ShootEnds DEF ShootRounds
<1>2. \A q \in Living : pc[q] = "w0_shooted"
  <2>1. Raised BY <1>1 DEF ShootPhase, At
  <2>2. Unshot \in SUBSET Players BY DEF Unshot, Living
  <2>3. Unshot = {} BY <1>1, <2>1, <2>2, Count DEF ShootPhase
  <2> QED BY <2>3 DEF Unshot
<1>3. \A q \in Players \ Living : pc[q] = "w0_received"
  BY <1>1 DEF ShootPhase
<1>4. Cardinality(Living) > 1
  <2>1. p \in Living BY <1>3 DEF At
  <2> QED BY <2>1 DEF ShootRounds, At, ShootPcs
<1>5. ASSUME NEW t \in Players PROVE Reckoned(t)
  <2>1. pc[t] = "w0_shooted" => target[t] \in Hit
    <3> SUFFICES ASSUME pc[t] = "w0_shooted" PROVE target[t] \in Hit
      OBVIOUS
    <3>1. target[t] \in Living BY DEF ShootRounds, AfterMark
    <3> QED BY <3>1 DEF ShootRounds, AfterMark
  <2>2. pc[t] \in {"w0_shooted", "w0_received"} /\ (t \in Living <=> pc[t] = "w0_shooted")
    BY <1>2, <1>3
  <2>3. Shooters(t) \in SUBSET Players /\ IsFiniteSet(Shooters(t))
        /\ Cardinality(Shooters(t)) \in Nat
        /\ (Cardinality(Shooters(t)) = 0 <=> Shooters(t) = {})
    BY Count DEF Shooters
  <2>4. t \in Living => (t \in Hit <=> Shooters(t) # {})
    BY <1>2, <1>3 DEF ShootRounds, Shooters, AfterMark
  <2>5. t \notin Living => Shooters(t) = {}
    BY DEF ShootRounds, Shooters, AfterMark
  <2>6. ~Bypass => queue[t] = Cardinality(Shooters(t))
    BY DEF ShootRounds
  <2> QED BY <2>1, <2>2, <2>3, <2>4, <2>5, <2>6 DEF Reckoned
<1> QED BY <1>1, <1>2, <1>4, <1>5 DEF CountRounds

(* Who leaves it finds out afterwards whether it was shot *)
LEMMA CountMoves ==
    ASSUME TypeInv, CountRounds, NEW p \in Players, W0Shooted(p) \/ IncReceived(p)
    PROVE  CountRounds' /\ Resolving' /\ Living' = Living /\ Hit' = Hit
<1> USE Shapes DEF At, Goto, parents, local
<1>1. CountPhase' BY CountEnter DEF CountRounds
<1>2. /\ pc[p] \in {"w0_shooted", "inc_received"}
      /\ \E l \in {"inc_received", "check"} : pc' = [pc EXCEPT ![p] = l]
      /\ UNCHANGED <<status, queue, target>>
  BY DEF W0Shooted, IncReceived
<1>3. Living' = Living /\ Hit' = Hit BY <1>2 DEF Living, Hit
<1>4. \A t \in Players : Reckoned(t)'
  BY <1>2, <1>3 DEF CountRounds, Reckoned
<1>5. Resolving' BY <1>2 DEF Resolving, ResolvePcs
<1> QED BY <1>1, <1>3, <1>4, <1>5 DEF CountRounds

LEMMA CountSeen ==
    ASSUME CountRounds, Resolving, CountRounds', Resolving', Living' \ Hit' = Living \ Hit
    PROVE  Unseen
<1>1. CountView' BY CountView, PTL
<1> QED BY <1>1, CountView DEF Unseen, CountRounds

LEMMA CountSame ==
    ASSUME CountRounds, Resolving, CountPhase',
           UNCHANGED <<pc, status, queue, target, all_received>>
    PROVE  CountRounds' /\ Resolving' /\ Unseen
<1>1. Living' = Living /\ Hit' = Hit BY DEF Living, Hit
<1>2. Resolving' BY DEF Resolving
<1>3. CountRounds' BY <1>1 DEF CountRounds, Reckoned
<1> QED BY <1>1, <1>2, <1>3, CountSeen

(* The first one that leaves it resolves the round *)
LEMMA FirstResolves ==
    ASSUME TypeInv, ShootRounds, NEW p \in Players, W0Shooted(p)
    PROVE  CountRounds' /\ Resolving' /\ Game!Resolve
<1>1. At(p, "w0_shooted") /\ all_shooted = 0 BY DEF W0Shooted, IsZero
<1>2. CountRounds /\ Cardinality(Living) > 1 /\ \A q \in Living : pc[q] = "w0_shooted"
  BY <1>1, RoundCloses
<1>3. CountRounds' /\ Resolving' /\ Living' = Living /\ Hit' = Hit
  BY <1>2, CountMoves
<1>4. CountView' BY CountView, PTL
<1>5. gameAlive = Living /\ gameHit = Living \cap Hit /\ gameShot = Living
  BY <1>2, ShootView DEF ShootRounds, AfterMark
<1>6. gameAlive' = Living \ Hit /\ gameShot' = {} /\ gameHit' = {}
  BY <1>3, <1>4 DEF CountRounds
<1> QED BY <1>2, <1>3, <1>5, <1>6, SameCardinality DEF Game!Resolve, Game!Playing

(* A player looks for its messages and dies if it was shot *)
LEMMA CountLooks ==
    ASSUME Phases, Undisturbed, CountRounds, Resolving, NEW p \in Players,
           Check(p) \/ Drain(p) \/ Die(p) \/ Uncount(p)
    PROVE  CountRounds' /\ Resolving' /\ Unseen
<1> USE Shapes, QueueType DEF Phases, At, Goto, Exit, parents, local
<1>1. TypeInv /\ CountPhase /\ CountPhase' BY CountStep DEF CountRounds
<1>2. /\ UNCHANGED target /\ proc[p] = "live"
      /\ pc[p] \in {"check", "drain", "die", "uncount"}
      /\ \A q \in Players \ {p} : /\ pc'[q] = pc[q] /\ queue'[q] = queue[q]
                                  /\ status'[q] = status[q]
  BY <1>1 DEF Check, Drain, Die, Uncount
<1>3. Reckoned(p) BY DEF CountRounds
<1>4. ~Bypass => "queue" \in ipc BY <1>2, QueueThere DEF StartPcs
<1>5. pc[p] \in {"check", "drain", "die"} => p \in Living
  BY <1>1 DEF CountPhase
<1>6. /\ Reckoned(p)' /\ pc'[p] \in ResolvePcs
      /\ p \in Hit' <=> p \in Hit
      /\ p \in Living' \ Hit' <=> p \in Living \ Hit
  <2>1. CASE Check(p)
    <3>1. pc[p] = "check" /\ p \in Living BY <1>5, <2>1 DEF Check
    <3>2. CASE p \in Hit
      <4>1. /\ UNCHANGED status
            /\ IF Bypass THEN pc' = [pc EXCEPT ![p] = "die"] /\ UNCHANGED queue
                         ELSE pc' = [pc EXCEPT ![p] = "drain"]
        BY <1>3, <1>4, <2>1, <3>1, <3>2 DEF Check, HasMessage, Reckoned, Hit, Shot
      <4> QED BY <1>1, <3>1, <3>2, <4>1 DEF Reckoned, Hit, Living, ResolvePcs
    <3>3. CASE p \notin Hit
      <4>1. /\ status' = [status EXCEPT ![p] = {"READY"}]
            /\ pc' = [pc EXCEPT ![p] = "w_received"] /\ UNCHANGED queue
        BY <1>3, <1>4, <2>1, <3>1, <3>3 DEF Check, HasMessage, Reckoned, Hit, Shot
      <4>2. ~Bypass => queue[p] = 0
        BY <1>1, <1>3, <3>1, <3>3 DEF Reckoned
      <4> QED BY <1>1, <3>1, <3>3, <4>1, <4>2 DEF Reckoned, Hit, Living, ResolvePcs, Shot
    <3> QED BY <3>2, <3>3
  <2>2. CASE Drain(p)
    <3>1. pc[p] = "drain" /\ p \in Living /\ p \in Hit /\ UNCHANGED status
      BY <1>3, <1>5, <2>2 DEF Drain, Reckoned
    <3>2. \/ UNCHANGED pc
          \/ pc' = [pc EXCEPT ![p] = "die"] /\ UNCHANGED queue
             /\ (~Bypass => queue[p] = 0)
      BY <1>1, <1>4, <2>2, <3>1 DEF Drain, MoreMessages, HasMessage, Hit, Shot
    <3> QED BY <1>1, <3>1, <3>2 DEF Reckoned, Hit, Living, ResolvePcs
  <2>3. CASE Die(p)
    <3>1. /\ pc[p] = "die" /\ p \in Hit /\ pc' = [pc EXCEPT ![p] = "uncount"]
          /\ status' = [status EXCEPT ![p] = status[p] \cup {"DEAD"}]
          /\ UNCHANGED queue /\ (~Bypass => queue[p] = 0)
      BY <1>3, <2>3 DEF Die, Reckoned
    <3> QED BY <1>1, <3>1 DEF Reckoned, Hit, Living, ResolvePcs
  <2>4. CASE Uncount(p)
    <3>1. /\ pc[p] = "uncount" /\ p \notin Living /\ UNCHANGED <<status, queue>>
          /\ pc' = [pc EXCEPT ![p] = "w_received"] /\ (~Bypass => queue[p] = 0)
      BY <1>1, <1>3, <2>4 DEF Uncount, Reckoned, CountPhase, Uncounting
    <3> QED BY <1>1, <3>1 DEF Reckoned, Hit, Living, ResolvePcs
  <2> QED BY <2>1, <2>2, <2>3, <2>4
<1>7. /\ \A q \in Players \ {p} : (q \in Hit' <=> q \in Hit) /\ (q \in Living' <=> q \in Living)
      /\ Hit' \subseteq Players /\ Hit \subseteq Players
      /\ Living' \subseteq Players /\ Living \subseteq Players
  BY <1>2 DEF Hit, Living
<1>8. Living' \ Hit' = Living \ Hit /\ Hit' = Hit
  <2>1. \A q \in Players : /\ q \in Hit' <=> q \in Hit
                           /\ q \in Living' \ Hit' <=> q \in Living \ Hit
    BY <1>6, <1>7
  <2>2. Hit' = Hit BY <1>7, <2>1
  <2>3. \A q : q \in Living' \ Hit' <=> q \in Living \ Hit BY <1>7, <2>1
  <2> QED BY <2>2, <2>3, Zenon
<1>9. \A q \in Players \ {p} : Reckoned(q)'
  BY <1>2, <1>7, <1>8 DEF CountRounds, Reckoned
<1>10. CountRounds' BY <1>1, <1>6, <1>9 DEF CountRounds
<1>11. Resolving' BY <1>6 DEF Resolving
<1> QED BY <1>8, <1>10, <1>11, CountSeen

(* The last one at the second barrier leaves no mark and no message *)
LEMMA RoundEnds ==
    TypeInv /\ CountRounds /\ ToRaise = {} /\ ~Resolving
        => ShootRounds /\ \A q \in Players : pc[q] = "w0_received" /\ q \notin Living \cap Hit
<1> SUFFICES ASSUME TypeInv, CountRounds, ToRaise = {}, ~Resolving
             PROVE  /\ ShootRounds
                    /\ \A q \in Players : pc[q] = "w0_received" /\ q \notin Living \cap Hit
  OBVIOUS
<1>1. CountPhase BY DEF CountRounds
<1>2. Unpassed \in SUBSET Players /\ Cardinality(Unpassed) \in Nat
      /\ (Cardinality(Unpassed) = 0 <=> Unpassed = {})
  BY Count DEF Unpassed
<1>3. \A q \in Players : pc[q] = "w0_received"
  <2> SUFFICES ASSUME NEW q \in Players, pc[q] # "w0_received" PROVE FALSE
    OBVIOUS
  <2>1. pc[q] = "w0_shooted" BY <1>1 DEF CountPhase, CountPcs, Resolving, ResolvePcs
  <2>2. all_received > 0
    BY <1>1, <1>2 DEF CountPhase, Unpassed
  <2> QED BY <2>1, <2>2 DEF Resolving
<1>4. ShootPhase
  <2>1. Unpassed = {} BY <1>3 DEF Unpassed
  <2> QED BY <1>1, <1>2, <2>1, CountEnds DEF CountPhase
<1>5. \A q \in Players : q \notin Living \cap Hit /\ (~Bypass => queue[q] = 0)
  BY <1>3 DEF CountRounds, Reckoned
<1>6. \A t \in Players : Shooters(t) = {} BY <1>3 DEF Shooters
<1> QED BY <1>3, <1>4, <1>5, <1>6, FS_EmptySet DEF ShootRounds, ShootPcs, AfterMark, Living

LEMMA CountArrives ==
    ASSUME TypeInv, TypeInv', CountRounds, Resolving, NEW p \in Players, WReceived(p)
    PROVE  ((CountRounds' /\ Resolving') \/ ShootRounds') /\ Unseen
<1> USE Shapes DEF At, Goto, parents, local
<1>1. CountPhase /\ CountPhase' BY CountStep DEF CountRounds
<1>2. /\ pc[p] = "w_received" /\ pc' = [pc EXCEPT ![p] = "w0_received"]
      /\ UNCHANGED <<status, queue, target, im_coordinator>> /\ all_received > 0
  BY DEF WReceived, WaitReceived, MayWait
<1>3. Living' = Living /\ Hit' = Hit BY <1>2 DEF Living, Hit
<1>4. CountRounds'
  <2>1. \A t \in Players : Reckoned(t)' BY <1>2, <1>3 DEF CountRounds, Reckoned
  <2> QED BY <1>1, <2>1 DEF CountRounds
<1>5. CASE Resolving' BY <1>3, <1>4, <1>5, CountSeen
<1>6. CASE ~Resolving'
  <2>1. ToRaise = {} BY <1>1, <1>2 DEF CountPhase
  <2>2. ToRaise' = {} BY <1>2, <2>1 DEF ToRaise
  <2>3. RoundEnds' BY RoundEnds, PTL
  <2>4. /\ ShootRounds'
        /\ \A q \in Players : pc'[q] = "w0_received" /\ q \notin Living' \cap Hit'
    BY <1>4, <1>6, <2>2, <2>3
  <2>5. ShootView' BY ShootView, PTL
  <2>6. Living \cap Hit = {} BY <1>3, <2>4 DEF Living
  <2>7. gameAlive' = Living /\ gameHit' = {} /\ gameShot' = {}
    BY <1>3, <2>4, <2>5, <2>6 DEF ShootRounds, AfterMark, Living
  <2>8. gameAlive = Living /\ gameHit = {} /\ gameShot = {}
    BY <1>1, <2>6, CountView
  <2> QED BY <2>4, <2>7, <2>8 DEF Unseen
<1> QED BY <1>5, <1>6

(* While the round is resolved only the dead leave the second barrier *)
LEMMA DeadLeave ==
    ASSUME TypeInv, CountRounds, Resolving, NEW p \in Players, W0Received(p)
    PROVE  CountRounds' /\ Resolving' /\ Unseen
<1>1. CountPhase /\ all_received = 0 /\ pc[p] = "w0_received"
  BY DEF CountRounds, W0Received, At, IsZero
<1>2. ToRaise # {}
  <2> SUFFICES ASSUME ToRaise = {} PROVE FALSE
    OBVIOUS
  <2>1. Unpassed \in SUBSET Players BY DEF Unpassed
  <2>2. Unpassed = {} BY <1>1, <2>1, Count DEF CountPhase
  <2> QED BY <2>2, <1>1 DEF Unpassed, Resolving, ResolvePcs
<1>3. p \notin Living BY <1>1, <1>2 DEF CountPhase, Unpassed
<1>4. /\ UNCHANGED <<pc, status, queue, all_shooted, all_received, alive_count, in_game, local>>
      /\ AllCreated'
  BY <1>1, <1>3 DEF W0Received, Living, parents, local, CountPhase, AllCreated
<1>5. CountPhase' BY <1>1, <1>4, CountUnchanged
<1> QED BY <1>4, <1>5, CountSame DEF local
-----------------------------------------------------------------------------
(* Every step, in every phase *)
Advances == Exchange' /\ (Unseen \/ Game!Resolve \/ \E p, t \in Players : Game!Shoot(p, t))

LEMMA ParentAdvances ==
    ASSUME IInv, Phases', Parent \/ Interrupt
    PROVE  Advances
<1>1. TypeInv /\ TypeInv' BY DEF IInv, Phases
<1>2. UNCHANGED queue
  BY DEF Parent, Interrupt, CreateSemaphores, CreateQueue, StartLibrary, Fork, Record,
         ParentReady, Reap, Finish, KillNext, RemoveSemaphores, RemoveQueue, kernel
<1>3. CASE StartRounds
  <2>1. StartPhase' BY <1>1, <1>3, StartParent DEF StartRounds
  <2> QED BY <1>2, <1>3, <2>1, StartSteps DEF Advances, Exchange
<1>4. CASE ShootRounds
  <2>1. /\ AllCreated'
        /\ UNCHANGED <<pc, status, all_shooted, all_received, alive_count, in_game, local>>
    BY <1>1, <1>4, ParentLeaves DEF ShootRounds, ShootPhase
  <2>2. ShootPhase' BY <1>4, <2>1, ShootUnchanged DEF ShootRounds
  <2> QED BY <1>1, <1>2, <1>4, <2>1, <2>2, ShootMoves DEF Advances, Exchange, local
<1>5. CASE CountRounds /\ Resolving
  <2>1. /\ AllCreated'
        /\ UNCHANGED <<pc, status, all_shooted, all_received, alive_count, in_game, local>>
    BY <1>1, <1>5, ParentLeaves DEF CountRounds, CountPhase
  <2>2. CountPhase' BY <1>5, <2>1, CountUnchanged DEF CountRounds
  <2> QED BY <1>2, <1>5, <2>1, <2>2, CountSame DEF Advances, Exchange, local
<1> QED BY <1>3, <1>4, <1>5 DEF IInv, Exchange

LEMMA ChildAdvances ==
    ASSUME IInv, Phases', NEW p \in Players, Child(p)
    PROVE  Advances
<1> DEFINE Ends == SemaphoreGone(p) \/ Killed(p)
           Starts == Start(p) \/ Register(p) \/ WReady(p)
           Aims == StartRound(p) \/ IncShooted(p) \/ Aim(p) \/ Load(p)
           Looks == Check(p) \/ Drain(p) \/ Die(p) \/ Uncount(p)
<1>1. TypeInv /\ TypeInv' BY DEF IInv, Phases
<1>2. /\ Ends => UNCHANGED <<pc, status, queue, all_shooted, all_received, alive_count,
                             in_game, local>>
      /\ Ends /\ AllCreated => AllCreated'
  BY DEF SemaphoreGone, Killed, parents, AllCreated
<1>3. /\ Starts => pc[p] \in {"start", "register", "w_ready"}
      /\ W0Ready(p) => At(p, "w0_ready") /\ all_received = 0
      /\ Aims => pc[p] \in {"round", "inc_shooted", "aim", "load"}
      /\ Store(p) => pc[p] = "store"
      /\ Send(p) \/ WShooted(p) => pc[p] \in {"send", "w_shooted"}
      /\ W0Shooted(p) => At(p, "w0_shooted") /\ all_shooted = 0
      /\ IncReceived(p) => pc[p] = "inc_received"
      /\ Looks => pc[p] \in {"check", "drain", "die", "uncount"}
      /\ WReceived(p) => pc[p] = "w_received"
      /\ W0Received(p) => pc[p] = "w0_received"
  BY DEF Start, Register, WReady, W0Ready, StartRound, IncShooted, Aim, Load, Store, Send,
         WShooted, W0Shooted, IncReceived, Check, Drain, Die, Uncount, WReceived,
         WaitReceived, W0Received, At, IsZero
<1>4. \/ Ends \/ Starts \/ W0Ready(p) \/ Aims \/ Store(p) \/ Send(p) \/ WShooted(p)
      \/ W0Shooted(p) \/ IncReceived(p) \/ Looks \/ WReceived(p) \/ W0Received(p)
  BY DEF Child
<1>5. ASSUME ShootRounds, W0Ready(p) \/ W0Received(p)
      PROVE  Advances
  <2>1. ShootPhase' BY <1>1, <1>5, ShootEnter DEF ShootRounds
  <2>2. /\ UNCHANGED <<status, queue, target>> /\ pc[p] \in {"w0_ready", "w0_received"}
        /\ UNCHANGED pc \/ pc' = [pc EXCEPT ![p] = "round"]
    BY <1>5 DEF W0Ready, W0Received, At, Goto, local
  <2>3. \A q \in Players : \/ pc'[q] = pc[q]
                           \/ pc[q] \in {"w0_ready", "w0_received"} /\ pc'[q] = "round"
    BY <1>1, <2>2, Shapes
  <2> QED BY <1>1, <1>5, <2>1, <2>2, <2>3, ShootMoves DEF Advances, Exchange
<1>6. CASE StartRounds
  <2>1. pc[p] \in {"start", "register", "w_ready", "w0_ready"}
    BY <1>6 DEF StartRounds, StartPhase
  <2>2. CASE Ends \/ Starts
    <3>1. StartPhase' BY <1>1, <1>6, <2>2, StartChild DEF StartRounds
    <3>2. UNCHANGED queue
      BY <2>2 DEF SemaphoreGone, Killed, Start, Register, WReady, WaitReceived
    <3> QED BY <1>6, <3>1, <3>2, StartSteps DEF Advances, Exchange
  <2>3. CASE W0Ready(p)
    BY <1>1, <1>3, <1>5, <1>6, <2>3, RoundsBegin
  <2> HIDE DEF Ends, Starts, Aims, Looks
  <2> QED BY <1>3, <1>4, <2>1, <2>2, <2>3 DEF At
<1>7. CASE ShootRounds
  <2>1. pc[p] \in {"w0_ready", "w0_received", "round", "inc_shooted"} \cup ShootPcs
    BY <1>7 DEF ShootRounds, ShootPhase
  <2>2. CASE Ends
    <3>1. ShootPhase' BY <1>2, <1>7, <2>2, ShootUnchanged DEF ShootRounds, ShootPhase
    <3> QED BY <1>1, <1>2, <1>7, <2>2, <3>1, ShootMoves DEF Advances, Exchange, local
  <2>3. CASE W0Ready(p) \/ W0Received(p) BY <1>5, <1>7, <2>3
  <2>4. CASE Aims BY <1>1, <1>7, <2>4, ShootQuiet DEF Advances, Exchange
  <2>5. CASE Store(p)
    <3>1. target[p] \in Players BY <1>1, <1>3, <2>5, QueueType
    <3> QED BY <1>1, <1>7, <2>5, <3>1, StoreShoots DEF Advances, Exchange
  <2>6. CASE Send(p) \/ WShooted(p)
    BY <1>1, <1>7, <2>6, SendArrives DEF Advances, Exchange
  <2>7. CASE W0Shooted(p)
    BY <1>1, <1>7, <2>7, FirstResolves DEF Advances, Exchange
  <2> HIDE DEF Ends, Starts, Aims, Looks
  <2> QED BY <1>3, <1>4, <2>1, <2>2, <2>3, <2>4, <2>5, <2>6, <2>7 DEF At, ShootPcs
<1>8. CASE CountRounds /\ Resolving
  <2>1. pc[p] \in CountPcs
    BY <1>8 DEF CountRounds, CountPhase
  <2>2. CASE Ends
    <3>1. CountPhase' BY <1>2, <1>8, <2>2, CountUnchanged DEF CountRounds, CountPhase
    <3> QED BY <1>2, <1>8, <2>2, <3>1, CountSame DEF Advances, Exchange, local
  <2>3. CASE W0Shooted(p) \/ IncReceived(p)
    <3>1. CountRounds' /\ Resolving' /\ Living' = Living /\ Hit' = Hit
      BY <1>1, <1>8, <2>3, CountMoves
    <3> QED BY <1>8, <3>1, CountSeen DEF Advances, Exchange
  <2>4. CASE Looks
    BY <1>8, <2>4, CountLooks DEF Advances, Exchange, IInv
  <2>5. CASE WReceived(p)
    BY <1>1, <1>8, <2>5, CountArrives DEF Advances, Exchange
  <2>6. CASE W0Received(p)
    BY <1>1, <1>8, <2>6, DeadLeave DEF Advances, Exchange
  <2> HIDE DEF Ends, Starts, Aims, Looks
  <2> QED BY <1>3, <1>4, <2>1, <2>2, <2>3, <2>4, <2>5, <2>6 DEF At, CountPcs
<1> QED BY <1>6, <1>7, <1>8 DEF IInv, Exchange

LEMMA StutterAdvances ==
    ASSUME IInv, Phases', UNCHANGED vars
    PROVE  Undisturbed' /\ Advances
<1>0. UNCHANGED <<ppc, process_count, alive_count, in_game, status, pc, proc, reaped, target,
                  ipc, queue, all_shooted, all_received, local>>
  BY DEF vars, data, kernel, family, local
<1>1. TypeInv /\ AllCreated' = AllCreated BY <1>0 DEF IInv, Phases, AllCreated
<1>2. StartPhase => StartPhase'
  <2>1. Unready' = Unready /\ ParentOwes' = ParentOwes BY <1>0 DEF Unready, ParentOwes
  <2> QED BY <1>0, <2>1 DEF StartPhase
<1>3. Undisturbed'
  <2>1. (NobodyRuns => NobodyRuns') /\ (NeverReady => NeverReady')
    BY <1>0, <1>2 DEF NobodyRuns, NeverReady, Unready
  <2> QED BY <1>0, <2>1 DEF IInv, Undisturbed, Ended, Closing
<1>4. Advances
  <2>1. CASE StartRounds
    BY <1>0, <1>2, <2>1, StartSteps DEF StartRounds, Advances, Exchange
  <2>2. CASE ShootRounds
    <3>1. ShootPhase' BY <1>0, <1>1, <2>2, ShootUnchanged DEF ShootRounds, ShootPhase
    <3> QED BY <1>0, <1>1, <2>2, <3>1, ShootMoves DEF Advances, Exchange
  <2>3. CASE CountRounds /\ Resolving
    <3>1. CountPhase' BY <1>0, <1>1, <2>3, CountUnchanged DEF CountRounds, CountPhase
    <3> QED BY <1>0, <2>3, <3>1, CountSame DEF Advances, Exchange
  <2> QED BY <2>1, <2>2, <2>3 DEF IInv, Exchange
<1> QED BY <1>3, <1>4

LEMMA StepAdvances ==
    ASSUME Bypass \/ "reap" \notin InterruptAt
    PROVE  IInv /\ [Next]_vars => IInv' /\ Advances
<1> SUFFICES ASSUME IInv, [Next]_vars PROVE IInv' /\ Advances
  OBVIOUS
<1>1. Phases' BY PhaseNext DEF IInv
<1>2. CASE Parent \/ Interrupt
  BY <1>1, <1>2, ParentAdvances, UndisturbedParent DEF IInv, Advances
<1>3. ASSUME NEW p \in Players, Child(p) PROVE IInv' /\ Advances
  BY <1>1, <1>3, ChildAdvances, UndisturbedChild DEF IInv, Advances
<1>4. CASE UNCHANGED vars
  BY <1>1, <1>4, StutterAdvances DEF IInv, Advances
<1> QED BY <1>2, <1>3, <1>4 DEF Next

LEMMA Inductive ==
    ASSUME Bypass \/ "reap" \notin InterruptAt
    PROVE  Spec => []IInv
<1>1. Init => IInv
  <2>1. Init => Phases BY TypeInit, InitPhase DEF Phases
  <2>2. Init => Undisturbed BY DEF Init, Undisturbed, Closing
  <2>3. Init => Exchange BY InitPhase DEF Init, Exchange, StartRounds
  <2> QED BY <2>1, <2>2, <2>3 DEF IInv
<1>2. IInv /\ [Next]_vars => IInv' BY StepAdvances
<1> QED BY <1>1, <1>2, PTL DEF Spec
-----------------------------------------------------------------------------
(* The read and the write of "status |= DEAD_THIS_ROUND" are not atomic and *)
(* several players may mark the same one: no mark is lost, because all of   *)
(* them write it and nobody who died in an earlier round is aimed at.       *)
THEOREM MarksAreKept ==
    ASSUME Bypass \/ "reap" \notin InterruptAt
    PROVE  Spec => []NoLostShot
<1>1. IInv => NoLostShot
  <2> SUFFICES ASSUME IInv PROVE NoLostShot
    OBVIOUS
  <2>1. CASE StartRounds BY <2>1 DEF StartRounds, StartPhase, NoLostShot
  <2>2. CASE ShootRounds
    BY <2>2 DEF ShootRounds, NoLostShot, AfterMark, Living, Hit, Shot
  <2>3. CASE CountRounds
    BY <2>3 DEF CountRounds, CountPhase, CountPcs, Reckoned, NoLostShot, Hit, Shot
  <2> QED BY <2>1, <2>2, <2>3 DEF IInv, Exchange
<1> QED BY <1>1, Inductive, PTL

(* The victims of a round take all of its messages: none is left in the     *)
(* queue to kill somebody in a later one.                                   *)
THEOREM MessagesAreTaken ==
    ASSUME Bypass \/ "reap" \notin InterruptAt
    PROVE  Spec => []MessagesOfThisRound
<1>1. IInv => MessagesOfThisRound
  <2> SUFFICES ASSUME IInv, ~Bypass, ~Resolving, NEW t \in Players
               PROVE  queue[t] = Cardinality(Shooters(t))
    BY DEF MessagesOfThisRound, Shooters
  <2>1. CASE StartRounds
    <3>1. Shooters(t) = {} BY <2>1 DEF StartRounds, StartPhase, Shooters
    <3> QED BY <2>1, <3>1, FS_EmptySet DEF StartRounds
  <2>2. CASE ShootRounds BY <2>2 DEF ShootRounds
  <2> QED BY <2>1, <2>2 DEF IInv, Exchange
<1> QED BY <1>1, Inductive, PTL

(* The family plays the game: whoever marks shoots, once a round and at     *)
(* another player alive; the first process to leave the first barrier finds *)
(* that all of them have shot, and those that were hit, and no others, die. *)
THEOREM Refinement ==
    ASSUME Bypass \/ "reap" \notin InterruptAt
    PROVE  Spec => ImplementsGame
<1>1. Init => Game!Init
  BY InitPhase, StartView DEF Game!Init
<1>2. IInv /\ [Next]_vars => [Game!Next]_Game!vars
  BY StepAdvances DEF Advances, Unseen, Game!Next, Game!vars
<1> QED BY <1>1, <1>2, Inductive, PTL DEF Spec, ImplementsGame, Game!Spec
-----------------------------------------------------------------------------
(***************************************************************************)
(* Who fails.  Whoever goes on to aim has company, and keeps it as long as *)
(* it is there; a call that finds the semaphores or the queue gone needs a  *)
(* parent that has closed a game in which somebody still runs.               *)
(***************************************************************************)
Company ==
    /\ \A p \in Players : pc[p] \in {"inc_shooted", "aim"} => Cardinality(Living) > 1
    /\ \A p \in Players : pc[p] = "aim" => proc[p] # "exit_100"

(* Whoever aims is alive, and so is another *)
LEMMA FindsVictim ==
    ASSUME Phases, Company, NEW p \in Players, pc[p] = "aim"
    PROVE  in_game \ {p} # {}
<1>1. ShootPhase BY DEF Phases, StartPhase, CountPhase, CountPcs
<1>2. p \in Living /\ in_game = Living /\ Living \in SUBSET Players
  BY <1>1 DEF ShootPhase, Living
<1>3. Cardinality(Living) > 1 /\ Cardinality(Living \ {p}) = Cardinality(Living) - 1
  BY <1>2, CountLess DEF Company
<1>4. Cardinality(Living) \in Nat /\ Living \ {p} \in SUBSET Players BY <1>2, Count
<1> QED BY <1>2, <1>3, <1>4, Count

LEMMA CompanyParent ==
    ASSUME Phases, Company, Parent \/ Interrupt
    PROVE  Company'
<1>1. UNCHANGED pc
  BY DEF Parent, Interrupt, CreateSemaphores, CreateQueue, StartLibrary, Fork, Record,
         ParentReady, Reap, Finish, KillNext, RemoveSemaphores, RemoveQueue
<1>2. CASE StartPhase
  BY <1>1, <1>2 DEF StartPhase, Company
<1>3. CASE ~StartPhase
  <2>1. TypeInv /\ AllCreated BY <1>3 DEF Phases, ShootPhase, CountPhase
  <2>2. Living' = Living BY <2>1, ParentLeaves DEF Living
  <2>3. UNCHANGED proc
    BY <2>1 DEF AllCreated, Parent, Interrupt, CreateSemaphores, CreateQueue, StartLibrary,
       Fork, Record, ParentReady, Reap, Finish, KillNext, RemoveSemaphores, RemoveQueue,
       family
  <2> QED BY <1>1, <2>2, <2>3 DEF Company
<1> QED BY <1>2, <1>3

LEMMA CompanyChild ==
    ASSUME Phases, Company, NEW p \in Players, Child(p)
    PROVE  Company'
<1> USE Shapes DEF At, Goto, Exit
<1>1. TypeInv BY DEF Phases
<1>2. \A q \in Players \ {p} : proc'[q] = proc[q] /\ pc'[q] = pc[q]
  BY <1>1, ChildFrame
<1>3. pc'[p] \in {"inc_shooted", "aim"} =>
         \/ StartRound(p) /\ ~UNCHANGED pc
         \/ pc[p] \in {"inc_shooted", "aim"}
  BY <1>1 DEF Child, Start, Register, WReady, W0Ready, StartRound, IncShooted, Aim, Load,
     Store, Send, WShooted, W0Shooted, IncReceived, Check, Drain, Die, Uncount, WReceived,
     WaitReceived, W0Received, SemaphoreGone, Killed
<1>4. ASSUME NEW q \in Players, pc[q] \in {"inc_shooted", "aim"}
      PROVE  ShootPhase /\ Living' = Living
  <2>1. ShootPhase BY <1>4 DEF Phases, StartPhase, CountPhase, CountPcs
  <2>2. pc[p] \in {"w0_ready", "w0_received", "round", "inc_shooted"} \cup ShootPcs
    BY <2>1 DEF ShootPhase
  <2>3. CASE Store(p) BY <1>1, <2>1, <2>3, ShootStep
  <2>4. CASE ~Store(p)
    <3>1. UNCHANGED status
      BY <2>2, <2>4 DEF Child, ShootPcs, Start, Register, WReady, W0Ready, StartRound,
         IncShooted, Aim, Load, Send, WShooted, W0Shooted, IncReceived, Check, Drain, Die,
         Uncount, WReceived, WaitReceived, W0Received, SemaphoreGone, Killed
    <3> QED BY <2>1, <3>1 DEF Living
  <2> QED BY <2>1, <2>3, <2>4
<1>5. ASSUME StartRound(p), ~UNCHANGED pc PROVE Cardinality(Living') > 1
  <2>1. ShootPhase BY <1>5 DEF StartRound, Phases, StartPhase, CountPhase, CountPcs
  <2>2. Living' = Living BY <1>1, <1>5, <2>1, ShootStep
  <2> QED BY <1>1, <1>5, <2>1, <2>2, TwoPlay
<1>6. ASSUME NEW q \in Players, pc'[q] \in {"inc_shooted", "aim"}
      PROVE  Cardinality(Living') > 1
  <2>1. CASE pc[q] \in {"inc_shooted", "aim"} BY <1>4, <2>1 DEF Company
  <2>2. CASE pc[q] \notin {"inc_shooted", "aim"} BY <1>2, <1>3, <1>5, <1>6, <2>2
  <2> QED BY <2>1, <2>2
<1>7. ASSUME pc'[p] = "aim" PROVE proc'[p] # "exit_100"
  <2>1. CASE pc[p] = "aim"
    <3>1. in_game \ {p} # {} BY <2>1, FindsVictim
    <3> QED BY <1>1, <2>1, <3>1 DEF Company, Child, Start, Register, WReady, W0Ready,
            StartRound, IncShooted, Aim, Load, Store, Send, WShooted, W0Shooted, IncReceived,
            Check, Drain, Die, Uncount, WReceived, WaitReceived, W0Received, SemaphoreGone,
            Killed
  <2>2. CASE pc[p] # "aim"
    <3>1. StartRound(p) \/ IncShooted(p)
      BY <1>1, <1>7, <2>2 DEF Child, Start, Register, WReady, W0Ready, StartRound,
         IncShooted, Aim, Load, Store, Send, WShooted, W0Shooted, IncReceived, Check, Drain,
         Die, Uncount, WReceived, WaitReceived, W0Received, SemaphoreGone, Killed
    <3> QED BY <1>1, <3>1 DEF StartRound, IncShooted
  <2> QED BY <2>1, <2>2
<1> QED BY <1>2, <1>6, <1>7 DEF Company

LEMMA CompanyHolds == Spec => []Company
<1>1. Init => Company
  BY DEF Init, Company
<1>2. Phases /\ Company /\ [Next]_vars => Company'
  <2> SUFFICES ASSUME Phases, Company, [Next]_vars PROVE Company'
    OBVIOUS
  <2>1. CASE UNCHANGED vars
    BY <2>1 DEF vars, data, family, Company, Living
  <2> QED BY <2>1, CompanyParent, CompanyChild DEF Next
<1> QED BY <1>1, <1>2, PhasesHold, PTL DEF Spec

(* With no call that fails and no signal, the parent creates everything     *)
(* before the first child and removes it after the last one                  *)
Unfailing ==
    /\ ppc \in {"msgget", "inicio", "fork", "record", "w_ready", "reap"} => "sem" \in ipc
    /\ ~Bypass /\ ppc \in {"inicio", "fork", "record", "w_ready", "reap"} => "queue" \in ipc
    /\ \A p \in reaped : Ended(p)
    /\ Closing => NobodyRuns
    /\ ~ChildFailed

LEMMA UnfailingParent ==
    ASSUME Faults = {}, InterruptAt = {}, Phases, Unfailing, Parent \/ Interrupt
    PROVE  Unfailing'
<1> USE DEF data, kernel, family
<1>1. TypeInv /\ ~Interrupt BY DEF Phases, Interrupt
<1>2. CASE CreateSemaphores \/ CreateQueue \/ StartLibrary
  BY <1>2 DEF CreateSemaphores, CreateQueue, StartLibrary, ParentFails, Unfailing, Ended,
     Closing, ChildFailed
<1>3. CASE Fork
  <2>1. /\ ppc = "fork" /\ ppc' = "record" /\ UNCHANGED <<ipc, reaped>>
        /\ process_count \in Players /\ proc' = [proc EXCEPT ![process_count] = "live"]
    BY <1>1, <1>3, NAssumption DEF Fork, ParentFails, TypeInv, TypeOK, Players
  <2>2. proc[process_count] = "none" /\ proc \in [Players -> ProcStates]
    BY <1>1, <2>1, Shapes DEF Phases, StartPhase, ShootPhase, CountPhase, AllCreated
  <2>3. ~ChildFailed' BY <2>1, <2>2 DEF Unfailing, ChildFailed
  <2>4. \A p \in reaped' : Ended(p)' BY <2>1, <2>2 DEF Unfailing, Ended
  <2> QED BY <2>1, <2>3, <2>4 DEF Unfailing, Closing
<1>4. CASE Record \/ ParentReady
  BY <1>4 DEF Record, ParentReady, Unfailing, Closing, Ended, ChildFailed
<1>5. CASE \E p \in Players : Reap(p)
  <2>1. PICK p \in Players : Reap(p) BY <1>5
  <2>2. /\ ppc = "reap" /\ Ended(p) /\ reaped' = reaped \cup {p}
        /\ ppc' = "reap" \/ (ppc' = "fin" /\ reaped' = Players)
        /\ UNCHANGED <<proc, ipc>>
    BY <2>1 DEF Reap
  <2>3. \A q \in reaped' : Ended(q)' BY <2>2 DEF Unfailing, Ended
  <2>4. ppc' = "fin" => NobodyRuns' BY <2>2, <2>3 DEF NobodyRuns, Ended
  <2> QED BY <2>2, <2>3, <2>4 DEF Unfailing, Closing, ChildFailed
<1>6. CASE Finish \/ KillNext \/ RemoveSemaphores \/ RemoveQueue
  BY <1>6 DEF Finish, KillNext, RemoveSemaphores, RemoveQueue, Unfailing, Closing, Ended,
     NobodyRuns, ChildFailed
<1> QED BY <1>1, <1>2, <1>3, <1>4, <1>5, <1>6 DEF Parent

LEMMA UnfailingChild ==
    ASSUME Faults = {}, InterruptAt = {}, Phases, Marks', Company, Unfailing,
           NEW p \in Players, Child(p)
    PROVE  Unfailing'
<1>1. TypeInv /\ reaped \in SUBSET Players BY DEF Phases, TypeInv, TypeOK
<1>2. /\ proc[p] = "live" /\ UNCHANGED <<ppc, ipc, reaped>>
      /\ \A q \in Players \ {p} : proc'[q] = proc[q]
  BY <1>1, ChildFrame DEF parents
<1>3. "sem" \in ipc /\ (~Bypass => "queue" \in ipc) /\ ~Closing
  <2>1. ~NobodyRuns BY <1>2 DEF NobodyRuns
  <2>2. ppc \notin {"semget", "msgget"}
    BY <1>1, <2>1, NoChildYet DEF TypeInv, AllCreated
  <2> QED BY <1>1, <2>1, <2>2, Shapes DEF Unfailing, Closing, ParentPcs
<1>4. proc'[p] # "exit_100"
  <2>1. CASE Aim(p)
    <3>1. in_game \ {p} # {} BY <2>1, FindsVictim DEF Aim, At
    <3> QED BY <1>2, <2>1, <3>1 DEF Aim
  <2>2. CASE ~Aim(p)
    BY <1>1, <1>2, <1>3, <2>2, Shapes DEF Child, Start, Register, WReady, W0Ready,
       StartRound, IncShooted, Load, Store, Send, WShooted, W0Shooted, IncReceived, Check,
       Drain, Die, Uncount, WReceived, WaitReceived, W0Received, SemaphoreGone, Killed, Exit
  <2> QED BY <2>1, <2>2
<1>5. proc'[p] # "abort" BY DEF Marks
<1>6. ~ChildFailed' BY <1>2, <1>4, <1>5 DEF Unfailing, ChildFailed
<1>7. \A q \in reaped' : Ended(q)' BY <1>1, <1>2 DEF Unfailing, Ended
<1> QED BY <1>2, <1>3, <1>6, <1>7 DEF Unfailing, Closing

LEMMA UnfailingHolds ==
    ASSUME Faults = {}, InterruptAt = {} PROVE Spec => []Unfailing
<1>1. Init => Unfailing
  BY DEF Init, Unfailing, Closing, ChildFailed
<1>2. Phases /\ Marks' /\ Company /\ Unfailing /\ [Next]_vars => Unfailing'
  <2> SUFFICES ASSUME Phases, Marks', Company, Unfailing, [Next]_vars PROVE Unfailing'
    OBVIOUS
  <2>1. CASE UNCHANGED vars
    BY <2>1 DEF vars, data, kernel, family, Unfailing, Closing, NobodyRuns, Ended,
                ChildFailed
  <2> QED BY <2>1, UnfailingParent, UnfailingChild DEF Next
<1> QED BY <1>1, <1>2, PhasesHold, MarksHold, CompanyHolds, PTL DEF Spec

(* The assertions of child_proc never fail (somebody coordinates, and who   *)
(* has received a message finds itself marked, even if the parent is        *)
(* removing the queue meanwhile); nobody asks the library for a victim when *)
(* it is the last one, whatever has failed or been interrupted; and if      *)
(* nothing is, no child ends but by dying or surviving.                      *)
THEOREM NobodyFails == Spec => []NoChildFails
<1>1. Marks /\ Company
        => \A p \in Players : /\ proc[p] # "abort"
                              /\ pc[p] = "aim" => proc[p] # "exit_100"
  BY DEF Marks, Company
<1>2. CASE Faults = {} /\ InterruptAt = {}
  <2>1. Spec => []Unfailing BY <1>2, UnfailingHolds
  <2>2. Marks /\ Company /\ Unfailing => NoChildFails
    BY <1>1 DEF Unfailing, NoChildFails
  <2> QED BY <2>1, <2>2, MarksHold, CompanyHolds, PTL
<1>3. CASE ~(Faults = {} /\ InterruptAt = {})
  <2>1. Marks /\ Company => NoChildFails BY <1>1, <1>3 DEF NoChildFails
  <2> QED BY <2>1, MarksHold, CompanyHolds, PTL
<1> QED BY <1>2, <1>3
=============================================================================
