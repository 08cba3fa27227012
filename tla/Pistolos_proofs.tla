--------------------------- MODULE Pistolos_proofs ---------------------------
(***************************************************************************)
(* Theorems about Pistolos and PistolosDeferred, for every number of       *)
(* children, every choice of the targets, every fork that fails and every   *)
(* place of an interruption.  Only the second has a place "print" between    *)
(* the end of a round and "resolve"; the phases are the same for both.       *)
(***************************************************************************)
EXTENDS PistolosDeferred, FiniteSetTheorems, TLAPS

StartingPcs == {"create", "check_ready", "wait_ready"}
ClosingPcs == {"dump", "kill_all", "release", "gone"}
Closing == ppc \in ClosingPcs

(* Nothing goes wrong before everybody is ready *)
SafeStart == ForkFailsAt = {} /\ InterruptAt \cap StartingPcs = {}

(* What any phase but the start knows of the dead, of who is dying and of   *)
(* who has been killed                                                      *)
DyingPcs == {"dead", "notify_dead", "exit"}
GonePcs == {"notify_dead", "exit", "zombie", "reaped"}
Fate(p) ==
    /\ pc[p] \notin {"none", "start", "ready"}
    /\ Has(p, "DEAD") => Has(p, "DEAD_THIS_ROUND")
    /\ Has(p, "DEAD_THIS_ROUND") => Has(p, "SHOT") /\ pc[p] \in GonePcs
    /\ pc[p] \in {"notify_dead", "exit"} => Has(p, "DEAD_THIS_ROUND")
    /\ pc[p] = "reaped" => Has(p, "DEAD")
    /\ pc[p] \in DyingPcs => p \in dying
    /\ pc[p] \in {"zombie", "reaped"} => p \notin dying
    /\ ~Closing => "KILL" \notin pending[p] /\ (pc[p] = "zombie" => Has(p, "DEAD_THIS_ROUND"))

(* Until everybody is ready no child is ordered anything *)
Prepared(p) ==
    /\ pc[p] \in {"none", "start", "ready", "notify_ready", "suspend", "zombie"}
    /\ p \notin dying /\ pending[p] \subseteq {"KILL"}
    /\ ~Closing => pending[p] = {} /\ pc[p] # "zombie"
    /\ Has(p, "READY") => pc[p] \notin {"none", "start", "ready"}
    /\ ppc = "create" /\ p < next => pc[p] = "none"
PrepPhase ==
    /\ ppc \in StartingPcs \/ (Closing /\ ~SafeStart)
    /\ rounds = 0
    /\ \A p \in Children : Prepared(p)

(* Between rounds: who has not been shot waits, or has only a wake-up of    *)
(* the parent left to send                                                  *)
Settled(p) ==
    /\ Fate(p)
    /\ ~Has(p, "DEAD_THIS_ROUND") =>
          /\ pc[p] \in {"notify_ready", "suspend", "notify_shot", "zombie"}
          /\ p \notin dying /\ pending[p] \subseteq {"KILL"}
    /\ \/ ppc = "decide"
       \/ ppc = "resolve" /\ p < next
       \/ Closing /\ "resolve" \notin InterruptAt
       => Has(p, "DEAD") \/ status[p] = {"READY"}
QuietPhase ==
    /\ ppc \in {"resolve", "decide"} \cup ClosingPcs
    /\ rounds = 0 => \A p \in Children : status[p] = {"READY"}
    /\ \A p \in Children : Settled(p)

(* A round: whoever shoots has somebody to shoot, an order that was not     *)
(* needed is of one that is dying, and only who has been shot dies          *)
Fires(q) == ~Has(q, "DEAD") /\ (Has(q, "SHOT") \/ pc[q] = "shot")
Unordered(p) == "USR1" \in pending[p] \/ (ppc = "signal" /\ p >= next)
Wounded(p) == "TERM" \in pending[p] \/ p \in dying \/ Has(p, "DEAD_THIS_ROUND")
Fighting(p) ==
    /\ Fate(p)
    /\ pc[p] \in {"aim", "shot"} => ~Has(p, "SHOT")
    /\ p \in dying => pc[p] \in DyingPcs \cup {"aim", "shot", "notify_shot"}
    /\ p \in dying /\ pc[p] \in {"notify_shot", "dead"} => Has(p, "SHOT")
    /\ Exists(p) /\ Unordered(p) /\ (Has(p, "SHOT") \/ pc[p] \in {"aim", "shot"}) => p \in dying
    /\ ppc = "signal" /\ p >= next /\ "USR1" \in pending[p] => Has(p, "DEAD_THIS_ROUND")
    /\ Fires(p) => target[p] \in Children \ {p} /\ ~Has(target[p], "DEAD")
Struck(p) ==
    ~Closing /\ Wounded(p) /\ ~Has(p, "DEAD")
       => \E q \in Children : Fires(q) /\ target[q] = p
(* round_over, of the targets of those who play *)
Over ==
    \A p \in Children :
        Has(p, "SHOT") /\ (~Has(p, "DEAD") => Has(target[p], "DEAD_THIS_ROUND"))
RoundPhase ==
    /\ ppc \in {"signal", "check_round", "wait_round", "print"} \cup ClosingPcs
    /\ ppc = "print" => Over
    /\ rounds > 0 /\ alive_count = Cardinality(Children \ Dead) /\ alive_count > 1
    /\ \A p \in Children : Fighting(p) /\ Struck(p)

TypeInv ==
    /\ ppc \in ParentPcs \cup {"print"}
    /\ next \in 0 .. N /\ (next = N => ppc = "create")
    /\ failed \in BOOLEAN /\ usr2 \in BOOLEAN /\ released \in BOOLEAN
    /\ rounds \in Nat
    /\ alive_count \in 0 .. N
    /\ known \subseteq Children
    /\ status \in [Children -> SUBSET Bits]
    /\ target \in [Children -> 0 .. N]
    /\ pc \in [Children -> ChildPcs]
    /\ dying \subseteq Children
    /\ pending \in [Children -> SUBSET {"USR1", "TERM", "KILL"}]
    /\ ppc \in {"check_ready", "wait_ready", "decide", "check_round", "wait_round"} => next = 0

Phases == TypeInv /\ (PrepPhase \/ QuietPhase \/ RoundPhase)
-----------------------------------------------------------------------------
(* Types *)
LEMMA CountAlive ==
    /\ IsFiniteSet(Children) /\ Cardinality(Children) = N
    /\ Cardinality(Dead) \in 0 .. N
    /\ Cardinality(Children \ Dead) = N - Cardinality(Dead)
<1>1. IsFiniteSet(Children) /\ Cardinality(Children) = N
  <2>1. IsFiniteSet(0 .. N - 1) /\ Cardinality(0 .. N - 1) = N - 1 - 0 + 1
    BY NAssumption, FS_Interval
  <2> QED BY <2>1, NAssumption DEF Children
<1>2. Dead \in SUBSET Children /\ Children \cap Dead = Dead
  BY DEF Dead
<1>3. /\ Cardinality(Dead) \in Nat /\ Cardinality(Dead) <= N
      /\ Cardinality(Children \ Dead) = Cardinality(Children) - Cardinality(Children \cap Dead)
  BY <1>1, <1>2, FS_Subset, FS_CardinalityType, FS_Difference
<1> QED BY <1>1, <1>2, <1>3

LEMMA Shapes ==
    ASSUME TypeInv
    PROVE  /\ ppc \in ParentPcs \cup {"print"} /\ next \in 0 .. N /\ (next = N => ppc = "create")
           /\ status \in [Children -> SUBSET Bits] /\ target \in [Children -> 0 .. N]
           /\ pc \in [Children -> ChildPcs] /\ dying \subseteq Children
           /\ pending \in [Children -> SUBSET {"USR1", "TERM", "KILL"}]
           /\ alive_count \in 0 .. N /\ rounds \in Nat /\ known \subseteq Children
           /\ ppc # "create" => next \in Children
           /\ ppc = "create" /\ next > 0 => next - 1 \in Children
BY NAssumption DEF TypeInv, Children

LEMMA SentType ==
    ASSUME TypeInv, NEW q \in Children, NEW signal \in {"USR1", "TERM", "KILL"}
    PROVE  Sent(q, signal) \in SUBSET {"USR1", "TERM", "KILL"}
BY Shapes DEF Sent

LEMMA TypeInit == Init => TypeInv
<1> SUFFICES ASSUME Init PROVE TypeInv
  OBVIOUS
<1>1. /\ next \in 0 .. N /\ alive_count \in 0 .. N /\ rounds \in Nat /\ ppc = "create"
      /\ N \in 0 .. N
  BY NAssumption DEF Init
<1> QED BY <1>1 DEF Init, TypeInv, ParentPcs, Bits, ChildPcs

LEMMA TypeParent == TypeInv /\ (Parent \/ Interrupt) => TypeInv'
<1> SUFFICES ASSUME TypeInv, Parent \/ Interrupt PROVE TypeInv'
  OBVIOUS
<1> USE NAssumption, Shapes DEF ParentPcs, parent, game, process
<1>0. ASSUME NEW here, NEW there, ppc # "create", Loop(here, there)
      PROVE  next' \in 0 .. N - 1 /\ (ppc' = here \/ (ppc' = there /\ next' = 0))
  <2>1. next \in 0 .. N - 1 /\ N \in Nat BY <1>0 DEF Children
  <2>2. next' = (IF next = N - 1 THEN 0 ELSE next + 1) BY <1>0 DEF Loop
  <2>3. ppc' = IF next = N - 1 THEN there ELSE here BY <1>0 DEF Loop
  <2> HIDE Shapes
  <2> QED BY <2>1, <2>2, <2>3
<1>1. CASE Fork BY <1>1 DEF Fork, TypeInv, Bits, ChildPcs
<1>2. CASE ForkFails BY <1>2 DEF ForkFails, TypeInv, Bits
<1>3. CASE AllCreated BY <1>3 DEF AllCreated, TypeInv
<1>4. CASE CheckReady \/ WaitReady \/ CheckRound \/ WaitRound
  BY <1>4 DEF CheckReady, WaitReady, CheckRound, WaitRound, CheckUntil, Suspend, TypeInv
<1>5. CASE Resolve
  <2>1. /\ status' \in [Children -> SUBSET Bits] /\ pc' \in [Children -> ChildPcs]
    BY <1>5 DEF Resolve, Bits, ChildPcs
  <2>2. /\ UNCHANGED <<failed, released, usr2, game, known, target, dying, pending>>
        /\ next' \in 0 .. N - 1 /\ ppc' \in {"resolve", "decide"}
        /\ ppc' = "decide" => next' = 0
    BY <1>0, <1>5 DEF Resolve
  <2> QED BY <2>1, <2>2 DEF TypeInv
<1>6. CASE Decide
  BY <1>6, CountAlive DEF Decide, AliveNow, TypeInv
<1>7. CASE Signal
  <2>1. pending' \in [Children -> SUBSET {"USR1", "TERM", "KILL"}]
    BY <1>7, SentType DEF Signal
  <2>2. /\ UNCHANGED <<failed, released, usr2, game, process, pc, dying>>
        /\ next' \in 0 .. N - 1 /\ ppc' \in {"signal", "check_round"}
        /\ ppc' = "check_round" => next' = 0
    BY <1>0, <1>7 DEF Signal
  <2> QED BY <2>1, <2>2 DEF TypeInv
<1>8. CASE Dump \/ ReleaseData \/ Interrupt
  <2>1. CASE Dump BY <2>1 DEF Dump, TypeInv
  <2>2. CASE ReleaseData BY <2>2 DEF ReleaseData, TypeInv
  <2>3. CASE Interrupt BY <2>3 DEF Interrupt, TypeInv
  <2> QED BY <1>8, <2>1, <2>2, <2>3
<1>9. CASE KillAll
  <2>1. pending' \in [Children -> SUBSET {"USR1", "TERM", "KILL"}]
    BY <1>9, SentType DEF KillAll
  <2>2. /\ UNCHANGED <<failed, released, usr2, game, process, pc, dying>>
        /\ next' \in 0 .. N - 1 /\ ppc' \in {"kill_all", "release", "gone"}
    <3>1. next \in 0 .. N - 1 /\ ppc # "create" BY <1>9 DEF KillAll, Children
    <3> QED BY <1>0, <1>9, <3>1 DEF KillAll, AfterKills
  <2> QED BY <2>1, <2>2 DEF TypeInv
<1> QED BY <1>1, <1>2, <1>3, <1>4, <1>5, <1>6, <1>7, <1>8, <1>9 DEF Parent

LEMMA TypeChild == \A p \in Children : TypeInv /\ Child(p) => TypeInv'
<1> SUFFICES ASSUME NEW p \in Children, TypeInv, Child(p) PROVE TypeInv'
  OBVIOUS
<1> USE NAssumption, Shapes DEF parent, game, process, Goto, ChildPcs, TypeInv
<1>1. CASE SetId(p) BY <1>1 DEF SetId
<1>2. CASE BecomeReady(p) BY <1>2 DEF BecomeReady, Bits
<1>3. CASE NotifyReady(p) \/ NotifyShot(p) \/ NotifyDead(p)
  BY <1>3 DEF NotifyReady, NotifyShot, NotifyDead, Notify, Notified
<1>4. CASE CatchOrder(p) \/ CatchShot(p)
  BY <1>4 DEF CatchOrder, CatchShot, Catch
<1>5. CASE Shoot(p)
  <2>1. PICK t \in Allowed(p, Choices(p)) :
              /\ target' = [target EXCEPT ![p] = t]
              /\ pending' = [pending EXCEPT ![t] = Sent(t, "TERM")]
    BY <1>5 DEF Shoot
  <2>2. t \in Children /\ t \in 0 .. N
    BY <2>1 DEF Allowed, Choices, Children
  <2>3. Sent(t, "TERM") \in SUBSET {"USR1", "TERM", "KILL"}
    BY <2>2, SentType
  <2>4. pending' \in [Children -> SUBSET {"USR1", "TERM", "KILL"}]
    BY <2>1, <2>2, <2>3
  <2>5. target' \in [Children -> 0 .. N] BY <2>1, <2>2
  <2> QED BY <1>5, <2>4, <2>5 DEF Shoot
<1>6. CASE SetShot(p) BY <1>6 DEF SetShot, Bits
<1>7. CASE SetDead(p) BY <1>7 DEF SetDead, Bits
<1>8. CASE Exit(p) \/ Killed(p) BY <1>8 DEF Exit, Killed, End
<1> QED BY <1>1, <1>2, <1>3, <1>4, <1>5, <1>6, <1>7, <1>8 DEF Child

LEMMA TypeNext == TypeInv /\ [Next]_vars => TypeInv'
<1> SUFFICES ASSUME TypeInv, [Next]_vars PROVE TypeInv'
  OBVIOUS
<1>1. CASE UNCHANGED vars
  BY <1>1 DEF vars, parent, game, process, TypeInv
<1> QED BY <1>1, TypeParent, TypeChild DEF Next, Done

LEMMA TypesHold == Spec => []TypeInv
BY TypeInit, TypeNext, PTL DEF Spec

(* Every variable keeps its type: the loops of the parent stay inside the   *)
(* array and only wrap where they end.                                      *)
THEOREM TypeCorrect == Spec => []TypeOK
<1>1. Init => ppc \in ParentPcs BY DEF Init, ParentPcs
<1>2. ppc \in ParentPcs /\ [Next]_vars => (ppc \in ParentPcs)'
  BY DEF Next, Done, vars, parent, Parent, Interrupt, Fork, ForkFails, AllCreated, CheckReady,
     WaitReady, CheckRound, WaitRound, CheckUntil, Suspend, Resolve, Decide, Signal, Loop, Dump,
     KillAll, AfterKills, ReleaseData, Child, SetId, BecomeReady, NotifyReady, NotifyShot,
     NotifyDead, Notify, CatchOrder, CatchShot, Catch, Shoot, SetShot, SetDead, Exit, Killed, End,
     ParentPcs
<1>3. TypeInv /\ ppc \in ParentPcs => TypeOK BY DEF TypeInv, TypeOK
<1> QED BY <1>1, <1>2, <1>3, TypesHold, PTL DEF Spec
-----------------------------------------------------------------------------
(* What each step of a child leaves alone *)
LEMMA ChildFrame ==
    ASSUME TypeInv, NEW p \in Children, Child(p)
    PROVE  /\ UNCHANGED <<parent, game>>
           /\ \A q \in Children \ {p} : pc'[q] = pc[q] /\ status'[q] = status[q]
                                        /\ target'[q] = target[q]
BY Shapes DEF Child, SetId, BecomeReady, NotifyReady, NotifyShot, NotifyDead, Notify,
   CatchOrder, CatchShot, Catch, Shoot, SetShot, SetDead, Exit, Killed, End, Goto, process

(* A target is there before SHOT says so *)
TargetsInv ==
    /\ \A p \in Children : Has(p, "SHOT") \/ pc[p] = "shot" => target[p] # N
    /\ ppc \in StartingPcs => rounds = 0
    /\ rounds > 1 \/ (rounds = 1 /\ ppc \in {"resolve", "decide"})
          => \A p \in Children : target[p] # N

LEMMA TargetsParent ==
    ASSUME TypeInv, TargetsInv, Parent \/ Interrupt PROVE TargetsInv'
<1> USE Shapes DEF parent, game, process
<1>1. UNCHANGED target /\ (rounds' # rounds => Decide)
  BY DEF Parent, Interrupt, Fork, ForkFails, AllCreated, CheckReady, WaitReady, CheckRound,
         WaitRound, CheckUntil, Suspend, Resolve, Decide, Signal, Dump, KillAll, ReleaseData
<1>2. \A p \in Children : /\ Has(p, "SHOT")' => Has(p, "SHOT")
                          /\ pc'[p] = "shot" => pc[p] = "shot"
  BY DEF Parent, Interrupt, Fork, ForkFails, AllCreated, CheckReady, WaitReady, CheckRound,
         WaitRound, CheckUntil, Suspend, Resolve, Decide, Signal, Dump, KillAll, ReleaseData,
         Has
<1>3. CASE Decide
  BY <1>1, <1>2, <1>3 DEF Decide, TargetsInv, StartingPcs
<1>4. CASE CheckRound /\ round_over
  BY <1>1, <1>2, <1>4 DEF CheckRound, CheckUntil, round_over, TargetsInv, StartingPcs
<1>5. CASE CheckReady
  <2>1. rounds' = rounds BY <1>5 DEF CheckReady, CheckUntil
  <2> QED BY <1>1, <1>2, <1>5, <2>1 DEF CheckReady, CheckUntil, TargetsInv, StartingPcs
<1>6. CASE ~Decide /\ ~(CheckRound /\ round_over) /\ ~CheckReady
  <2>1. /\ ppc' \in {"resolve", "decide"} => ppc \in {"resolve", "decide"}
        /\ ppc' \in StartingPcs => ppc \in StartingPcs
    BY <1>6 DEF Parent, Interrupt, Fork, ForkFails, AllCreated, CheckReady, WaitReady,
       CheckRound, WaitRound, CheckUntil, Suspend, Resolve, Loop, Signal, Dump, KillAll,
       AfterKills, ReleaseData, StartingPcs
  <2> QED BY <1>1, <1>2, <1>6, <2>1 DEF TargetsInv
<1> QED BY <1>3, <1>4, <1>5, <1>6

LEMMA TargetsChild ==
    ASSUME TypeInv, TargetsInv, NEW p \in Children, Child(p) PROVE TargetsInv'
<1> USE Shapes DEF process, Goto
<1>1. /\ UNCHANGED <<ppc, rounds>>
      /\ \A q \in Children \ {p} : pc'[q] = pc[q] /\ status'[q] = status[q]
                                   /\ target'[q] = target[q]
  BY ChildFrame DEF parent, game
<1>2. CASE Shoot(p)
  <2>1. target'[p] \in Children /\ Has(p, "SHOT")' = Has(p, "SHOT")
    BY <1>2 DEF Shoot, Allowed, Choices, Has
  <2>2. target'[p] # N BY <2>1, NAssumption DEF Children
  <2> QED BY <1>1, <2>1, <2>2 DEF TargetsInv, Has
<1>3. CASE ~Shoot(p)
  <2>1. /\ UNCHANGED target
        /\ (Has(p, "SHOT") \/ pc[p] = "shot")' => Has(p, "SHOT") \/ pc[p] = "shot"
    BY <1>3 DEF Child, SetId, BecomeReady, NotifyReady, NotifyShot, NotifyDead, Notify,
       CatchOrder, CatchShot, Catch, SetShot, SetDead, Exit, Killed, End, Has
  <2> QED BY <1>1, <2>1 DEF TargetsInv, Has
<1> QED BY <1>2, <1>3

(* __dump follows the pointer to the target of every process, dead or not,  *)
(* once there have been two rounds: whenever the parent is interrupted, none *)
(* of them is NULL.                                                          *)
THEOREM DumpIsSafe == Spec => []DumpFindsTargets
<1>1. Init => TargetsInv
  BY DEF Init, TargetsInv, StartingPcs, Has
<1>2. TypeInv /\ TargetsInv /\ [Next]_vars => TargetsInv'
  <2>1. UNCHANGED vars /\ TargetsInv => TargetsInv'
    BY DEF vars, parent, game, process, TargetsInv, Has
  <2> QED BY <2>1, TargetsParent, TargetsChild DEF Next, Done
<1>3. TargetsInv => DumpFindsTargets
  BY DEF TargetsInv, DumpFindsTargets, DumpsTargets
<1> QED BY <1>1, <1>2, <1>3, TypesHold, PTL DEF Spec
-----------------------------------------------------------------------------
(* Who has not stored its id has done nothing else *)
ReleaseInv ==
    /\ \A p \in Children : p \notin known => pc[p] \in {"none", "start", "zombie"}
                                             /\ ~Has(p, "READY")
    /\ ppc \notin StartingPcs => known = Children
    /\ ppc = "gone" => released

LEMMA ReleaseParent ==
    ASSUME SafeStart, TypeInv, ReleaseInv, Parent \/ Interrupt PROVE ReleaseInv'
<1> USE Shapes DEF parent, game, process
<1>1. CASE Fork
  <2>1. /\ UNCHANGED <<ppc, known, released>> /\ next - 1 \in Children
        /\ pc' = [pc EXCEPT ![next - 1] = "start"]
        /\ status' = [status EXCEPT ![next - 1] = {"DEAD"}]
    BY <1>1 DEF Fork
  <2> QED BY <2>1 DEF ReleaseInv, Has
<1>2. CASE CheckReady
  <2>1. all_ready => known = Children
    BY DEF all_ready, ReleaseInv, Has
  <2> QED BY <1>2, <2>1 DEF CheckReady, CheckUntil, ReleaseInv, StartingPcs, Has
<1>3. CASE Resolve
  <2>1. /\ known' = Children /\ ppc \notin StartingPcs /\ ppc' # "gone"
    BY <1>3 DEF Resolve, Loop, ReleaseInv, StartingPcs
  <2> QED BY <2>1 DEF ReleaseInv, Has
<1>4. CASE AllCreated \/ WaitReady \/ CheckRound \/ WaitRound \/ Decide \/ Signal
  <2>1. /\ UNCHANGED <<known, pc, status, released>> /\ ppc' # "gone"
        /\ ppc \in StartingPcs => ppc' \in StartingPcs
    BY <1>4 DEF AllCreated, WaitReady, CheckRound, WaitRound, CheckUntil, Suspend, Decide,
                Signal, Loop, StartingPcs
  <2> QED BY <2>1 DEF ReleaseInv, Has
<1>5. CASE Dump \/ KillAll \/ ReleaseData \/ Interrupt
  <2>1. /\ UNCHANGED <<known, pc, status>> /\ known = Children
        /\ ppc' = "gone" => released'
    BY <1>5 DEF Dump, KillAll, Loop, AfterKills, ReleaseData, Interrupt, ReleaseInv,
                SafeStart, StartingPcs
  <2> QED BY <2>1 DEF ReleaseInv, Has
<1>6. ~ForkFails BY DEF ForkFails, SafeStart
<1> QED BY <1>1, <1>2, <1>3, <1>4, <1>5, <1>6 DEF Parent

LEMMA ReleaseChild ==
    ASSUME TypeInv, ReleaseInv, NEW p \in Children, Child(p) PROVE ReleaseInv'
<1> USE Shapes DEF Goto
<1>1. /\ UNCHANGED <<ppc, released>>
      /\ \A q \in Children \ {p} : pc'[q] = pc[q] /\ status'[q] = status[q]
                                   /\ target'[q] = target[q]
  BY ChildFrame DEF parent
<1>2. /\ known' \in SUBSET Children /\ known \subseteq known'
      /\ p \notin known' => pc'[p] \in {"none", "start", "zombie"} /\ ~Has(p, "READY")'
  BY DEF Child, SetId, BecomeReady, NotifyReady, NotifyShot, NotifyDead, Notify, CatchOrder,
     CatchShot, Catch, Shoot, SetShot, SetDead, Exit, Killed, End, process, Has, ReleaseInv
<1> QED BY <1>1, <1>2 DEF ReleaseInv, Has

(* When every fork succeeds and the parent is not interrupted before all    *)
(* the children are ready, whatever happens later it does not end before it *)
(* has released the shared memory: no kill(0, SIGKILL) kills it.            *)
THEOREM ReleasedByDesign ==
    ASSUME SafeStart
    PROVE  Spec => []ReleasedAtExit
<1>1. Init => ReleaseInv
  BY DEF Init, ReleaseInv, StartingPcs, Has
<1>2. TypeInv /\ ReleaseInv /\ [Next]_vars => ReleaseInv'
  <2>1. UNCHANGED vars /\ ReleaseInv => ReleaseInv'
    BY DEF vars, parent, game, process, ReleaseInv, Has
  <2> QED BY <2>1, ReleaseParent, ReleaseChild DEF Next, Done
<1>3. ReleaseInv => ReleasedAtExit
  BY DEF ReleaseInv, ReleasedAtExit
<1> QED BY <1>1, <1>2, <1>3, TypesHold, PTL DEF Spec
-----------------------------------------------------------------------------
(* The parent ends the game, in whatever phase it is *)
Closes ==
    /\ Closing' /\ UNCHANGED <<status, target, pc, dying, alive_count, rounds>>
    /\ \A p \in Children : pending'[p] \in {pending[p], pending[p] \cup {"KILL"}}

LEMMA ParentCloses ==
    ASSUME TypeInv, Dump \/ KillAll \/ ReleaseData \/ Interrupt
    PROVE  Closes
<1>1. CASE Dump \/ ReleaseData \/ Interrupt
  BY <1>1 DEF Dump, ReleaseData, Interrupt, Closes, Closing, ClosingPcs, game, process
<1>2. CASE KillAll
  <2>1. /\ UNCHANGED <<status, target, pc, dying, alive_count, rounds>>
        /\ ppc' \in {"kill_all", "release", "gone"}
    BY <1>2 DEF KillAll, Loop, AfterKills, game, process
  <2>2. \A p \in Children : pending'[p] \in {pending[p], pending[p] \cup {"KILL"}}
    BY <1>2, Shapes DEF KillAll, Sent
  <2> QED BY <2>1, <2>2 DEF Closes, Closing, ClosingPcs
<1> QED BY <1>1, <1>2

LEMMA PrepCloses ==
    ASSUME PrepPhase, Closes, Closing \/ ~SafeStart
    PROVE  PrepPhase'
<1>1. ppc' # "create" BY DEF Closes, Closing, ClosingPcs
<1>2. \A p \in Children : Prepared(p)'
  BY <1>1 DEF PrepPhase, Prepared, Closes, Has
<1>3. ~SafeStart BY DEF PrepPhase, Closing, StartingPcs, ClosingPcs
<1> QED BY <1>2, <1>3 DEF PrepPhase, Closes

LEMMA FateCloses ==
    ASSUME Closes, NEW p \in Children, Fate(p) PROVE Fate(p)'
BY DEF Fate, Closes, Has

LEMMA QuietCloses ==
    ASSUME QuietPhase, Closes, ppc = "resolve" => "resolve" \in InterruptAt
    PROVE  QuietPhase'
<1>1. ppc' \notin {"resolve", "decide"} BY DEF Closes, Closing, ClosingPcs
<1>2. ASSUME NEW p \in Children PROVE Settled(p)'
  <2>1. Fate(p)' BY FateCloses DEF QuietPhase, Settled
  <2>2. "resolve" \notin InterruptAt => Has(p, "DEAD") \/ status[p] = {"READY"}
    BY DEF QuietPhase, Settled, Closing
  <2> QED BY <1>1, <2>1, <2>2 DEF QuietPhase, Settled, Closes, Has
<1> QED BY <1>2 DEF QuietPhase, Closes, Closing

LEMMA RoundCloses ==
    ASSUME RoundPhase, Closes
    PROVE  RoundPhase'
<1>1. ppc' # "signal" BY DEF Closes, Closing, ClosingPcs
<1>2. Dead' = Dead BY DEF Closes, Dead, Has
<1>3. ASSUME NEW p \in Children PROVE Fighting(p)'
  <2>1. Fate(p)' BY FateCloses DEF RoundPhase, Fighting
  <2>2. (Unordered(p)' => Unordered(p)) /\ (Exists(p)' => Exists(p)) /\ (Fires(p)' => Fires(p))
    BY <1>1 DEF Closes, Unordered, Exists, Fires, Has
  <2> QED BY <1>1, <2>1, <2>2 DEF RoundPhase, Fighting, Closes, Has
<1>4. \A p \in Children : Struck(p)' BY DEF Closes, Struck
<1>5. ppc' # "print" BY DEF Closes, Closing, ClosingPcs
<1> QED BY <1>2, <1>3, <1>4, <1>5 DEF RoundPhase, Closes, Closing
-----------------------------------------------------------------------------
(* The start *)
LEMMA InitPhase == Init => PrepPhase
BY DEF Init, PrepPhase, Prepared, StartingPcs, Has

LEMMA PrepParent ==
    ASSUME TypeInv, PrepPhase, Parent \/ Interrupt
    PROVE  PrepPhase' \/ QuietPhase'
<1> USE Shapes
<1>1. CASE Fork
  <2>1. /\ UNCHANGED <<ppc, dying, pending, rounds>> /\ next - 1 \in Children /\ ppc = "create"
        /\ next' = next - 1 /\ pc' = [pc EXCEPT ![next - 1] = "start"]
        /\ status' = [status EXCEPT ![next - 1] = {"DEAD"}]
    BY <1>1 DEF Fork, game
  <2>2. ASSUME NEW p \in Children PROVE Prepared(p)'
    <3>1. Prepared(p) BY DEF PrepPhase
    <3>2. p < next' => p < next /\ p # next - 1 BY <2>1 DEF Children
    <3> QED BY <2>1, <3>1, <3>2 DEF Prepared, Has, Closing, ClosingPcs
  <2> QED BY <2>1, <2>2 DEF PrepPhase, Closing
<1>2. CASE ForkFails
  <2>1. /\ UNCHANGED <<pc, dying, pending, rounds>> /\ next - 1 \in Children /\ ppc' = "dump"
        /\ status' = [status EXCEPT ![next - 1] = {"DEAD"}] /\ ForkFailsAt # {}
    BY <1>2 DEF ForkFails, game
  <2>2. \A p \in Children : Prepared(p)'
    BY <2>1 DEF PrepPhase, Prepared, Has, Closing, ClosingPcs
  <2> QED BY <2>1, <2>2 DEF PrepPhase, Closing, ClosingPcs, SafeStart
<1>3. CASE AllCreated \/ WaitReady
  <2>1. /\ UNCHANGED <<pc, status, dying, pending, rounds>>
        /\ ppc \in StartingPcs /\ ppc' = "check_ready"
    BY <1>3 DEF AllCreated, WaitReady, Suspend, process, game, StartingPcs
  <2> QED BY <2>1 DEF PrepPhase, Prepared, Has, Closing, ClosingPcs, StartingPcs
<1>4. CASE CheckReady
  <2>1. /\ UNCHANGED <<next, pc, status, dying, pending, rounds>>
        /\ ppc = "check_ready" /\ next = 0
        /\ ppc' = IF all_ready THEN "resolve" ELSE "wait_ready"
    BY <1>4 DEF CheckReady, CheckUntil, process, game, TypeInv
  <2>2. CASE all_ready
    <3>1. ASSUME NEW p \in Children PROVE Settled(p)'
      <4>1. status[p] = {"READY"} /\ Prepared(p) BY <2>2 DEF all_ready, PrepPhase
      <4>2. ~(p < 0) BY DEF Children
      <4> QED BY <2>1, <2>2, <4>1, <4>2
              DEF Settled, Fate, Prepared, Has, Closing, ClosingPcs, GonePcs, DyingPcs
    <3> QED BY <2>1, <2>2, <3>1 DEF QuietPhase, all_ready
  <2>3. CASE ~all_ready
    BY <2>1, <2>3 DEF PrepPhase, Prepared, Has, Closing, ClosingPcs, StartingPcs
  <2> QED BY <2>2, <2>3
<1>5. CASE Dump \/ KillAll \/ ReleaseData \/ Interrupt
  <2>1. Closes BY <1>5, ParentCloses
  <2>2. Closing \/ ~SafeStart
    BY <1>5 DEF Dump, KillAll, ReleaseData, Interrupt, PrepPhase, Closing, ClosingPcs,
                StartingPcs, SafeStart
  <2> QED BY <2>1, <2>2, PrepCloses
<1>6. ~Resolve /\ ~Decide /\ ~Signal /\ ~CheckRound /\ ~WaitRound
  BY DEF Resolve, Decide, Signal, CheckRound, WaitRound, CheckUntil, Suspend, PrepPhase,
         Closing, ClosingPcs, StartingPcs
<1> QED BY <1>1, <1>2, <1>3, <1>4, <1>5, <1>6 DEF Parent

LEMMA PrepChild ==
    ASSUME TypeInv, PrepPhase, NEW p \in Children, Child(p)
    PROVE  PrepPhase'
<1> USE Shapes DEF Goto
<1>1. /\ UNCHANGED <<ppc, next, rounds>> /\ Prepared(p)
      /\ \A q \in Children \ {p} : pc'[q] = pc[q] /\ status'[q] = status[q]
                                   /\ target'[q] = target[q]
  BY ChildFrame DEF parent, game, PrepPhase
<1>2. SetId(p) \/ BecomeReady(p) \/ NotifyReady(p) \/ Killed(p)
  BY <1>1 DEF Child, NotifyShot, NotifyDead, Notify, CatchOrder, CatchShot, Catch, Shoot,
             SetShot, SetDead, Exit, Prepared
<1>3. \A q \in Children \ {p} : pending'[q] = pending[q] /\ (q \in dying' <=> q \in dying)
  BY <1>2 DEF SetId, BecomeReady, NotifyReady, Notify, Killed, End
<1>4. Prepared(p)'
  <2> USE <1>1 DEF Prepared, Has, Closing, process
  <2>1. CASE SetId(p) BY <2>1 DEF SetId
  <2>2. CASE BecomeReady(p) BY <2>2 DEF BecomeReady
  <2>3. CASE NotifyReady(p) BY <2>3 DEF NotifyReady, Notify
  <2>4. CASE Killed(p)
    <3>1. pc'[p] = "zombie" /\ pending'[p] = {} /\ p \notin dying' /\ Closing /\ Closing'
      BY <2>4 DEF Killed, End
    <3> HIDE Shapes
    <3>2. ~(ppc' = "create") BY <3>1 DEF ClosingPcs
    <3> QED BY <3>1, <3>2
  <2> QED BY <1>2, <2>1, <2>2, <2>3, <2>4
<1>5. \A q \in Children \ {p} : Prepared(q)'
  BY <1>1, <1>3 DEF PrepPhase, Prepared, Has, Closing
<1> QED BY <1>1, <1>4, <1>5 DEF PrepPhase, Closing
-----------------------------------------------------------------------------
(* Between rounds *)
LEMMA QuietResolve ==
    ASSUME TypeInv, QuietPhase, Resolve
    PROVE  QuietPhase'
<1> DEFINE dead == Has(next, "DEAD") \/ Has(next, "DEAD_THIS_ROUND")
<1>1. /\ next \in Children /\ ppc = "resolve" /\ ~Closing
      /\ status' = [status EXCEPT ![next] = IF dead THEN @ \cup {"DEAD"} ELSE {"READY"}]
      /\ pc' = [pc EXCEPT ![next] = IF dead /\ @ = "zombie" THEN "reaped" ELSE @]
      /\ UNCHANGED <<dying, pending, rounds>>
  BY Shapes DEF Resolve, game, Closing, ClosingPcs
<1>2. ppc' \in {"resolve", "decide"} /\ ~Closing'
  BY DEF Resolve, Loop, Closing, ClosingPcs
<1>3. ASSUME NEW p \in Children, p # next, ppc' = "decide" \/ p < next' PROVE p < next
  BY <1>1, <1>3 DEF Resolve, Loop, Children
<1>4. ASSUME NEW p \in Children \ {next} PROVE Settled(p)'
  <2>1. Settled(p) /\ pc'[p] = pc[p] /\ status'[p] = status[p]
    BY <1>1, Shapes DEF QuietPhase
  <2>2. Fate(p)' BY <1>1, <1>2, <2>1 DEF Settled, Fate, Has
  <2> QED BY <1>1, <1>2, <1>3, <2>1, <2>2 DEF Settled, Has
<1>5. Settled(next)
  BY <1>1 DEF QuietPhase
<1>6. ASSUME NEW n, n = next PROVE Settled(n)'
  <2>1. n \in Children /\ Settled(n) /\ (dead => Has(n, "DEAD_THIS_ROUND"))
    BY <1>1, <1>5, <1>6 DEF Settled, Fate
  <2>2. CASE dead
    <3>1. /\ status'[n] = status[n] \cup {"DEAD"}
          /\ pc'[n] = IF pc[n] = "zombie" THEN "reaped" ELSE pc[n]
      BY <1>1, <1>6, <2>2, Shapes
    <3>2. Fate(n)'
      BY <1>1, <1>2, <2>1, <2>2, <3>1 DEF Settled, Fate, Has, GonePcs, DyingPcs
    <3> QED BY <1>1, <1>2, <2>1, <2>2, <3>1, <3>2 DEF Settled, Has
  <2>3. CASE ~dead
    <3>1. status'[n] = {"READY"} /\ pc'[n] = pc[n] /\ ~Has(n, "DEAD_THIS_ROUND")
      BY <1>1, <1>6, <2>3, Shapes
    <3>2. Fate(n)'
      BY <1>1, <1>2, <2>1, <2>3, <3>1 DEF Settled, Fate, Has, GonePcs, DyingPcs
    <3> QED BY <1>1, <1>2, <2>1, <3>1, <3>2 DEF Settled, Has
  <2> QED BY <2>2, <2>3
<1>7. \A p \in Children : Settled(p)' BY <1>4, <1>6
<1>8. rounds' = 0 => \A p \in Children : status'[p] = {"READY"}
  BY <1>1, Shapes DEF QuietPhase, Has
<1> QED BY <1>2, <1>7, <1>8 DEF QuietPhase

LEMMA QuietDecide ==
    ASSUME TypeInv, QuietPhase, Decide
    PROVE  QuietPhase' \/ RoundPhase'
<1>1. /\ ppc = "decide" /\ next = 0 /\ ~Closing
      /\ UNCHANGED <<next, status, target, pc, dying, pending>>
  BY DEF Decide, process, TypeInv, Closing, ClosingPcs
<1>2. CASE GameOver
  <2>1. Closes BY <1>1, <1>2 DEF Decide, Closes, Closing, ClosingPcs, game
  <2> QED BY <1>1, <2>1, QuietCloses
<1>3. CASE ~GameOver
  <2>1. /\ ppc' = "signal" /\ ~Closing' /\ alive_count' = N - Cardinality(Dead)
        /\ ~(Cardinality(Dead) >= N - 1) /\ rounds' > 0
    BY <1>3, Shapes DEF Decide, AliveNow, GameOver, Closing, ClosingPcs
  <2>2. Dead' = Dead BY <1>1 DEF Dead, Has
  <2>3. alive_count' = Cardinality(Children \ Dead') /\ alive_count' > 1
    BY <2>1, <2>2, CountAlive, NAssumption
  <2>4. ASSUME NEW p \in Children PROVE Fighting(p)' /\ Struck(p)'
    <3>1. /\ Settled(p) /\ Fate(p) /\ (Has(p, "DEAD") \/ status[p] = {"READY"})
          /\ (pc[p] = "zombie" => Has(p, "DEAD_THIS_ROUND"))
      BY <1>1 DEF QuietPhase, Settled, Fate
    <3>2. Fate(p)' BY <1>1, <2>1, <3>1 DEF Fate, Has
    <3>3. CASE Has(p, "DEAD")
      <4>1. Has(p, "DEAD_THIS_ROUND") /\ pc[p] \in GonePcs
        BY <3>1, <3>3 DEF Fate
      <4>2. ~Fires(p)' BY <1>1, <3>3 DEF Fires, Has
      <4>3. p \in dying <=> pc[p] \in {"notify_dead", "exit"}
        BY <3>1, <4>1 DEF Fate, DyingPcs, GonePcs
      <4>4. Exists(p)' => p \in dying' BY <1>1, <4>1, <4>3 DEF Exists, GonePcs
      <4> QED BY <1>1, <3>2, <3>3, <4>1, <4>2, <4>3, <4>4
              DEF Fighting, Struck, Has, DyingPcs, GonePcs
    <3>4. CASE ~Has(p, "DEAD")
      <4>1. /\ status[p] = {"READY"} /\ pc[p] \in {"notify_ready", "suspend", "notify_shot"}
            /\ p \notin dying /\ pending[p] \subseteq {"KILL"}
        BY <3>1, <3>4 DEF Settled, Has
      <4>2. ~Fires(p)' /\ ~Wounded(p)' /\ ~Has(p, "SHOT")'
        BY <1>1, <4>1 DEF Fires, Wounded, Has
      <4> QED BY <1>1, <3>2, <4>1, <4>2 DEF Fighting, Struck, Has
    <3> QED BY <3>3, <3>4
  <2> QED BY <2>1, <2>3, <2>4 DEF RoundPhase
<1> QED BY <1>2, <1>3

LEMMA QuietParent ==
    ASSUME TypeInv, QuietPhase, Parent \/ Interrupt
    PROVE  QuietPhase' \/ RoundPhase'
<1>1. CASE Dump \/ KillAll \/ ReleaseData \/ Interrupt
  <2>1. Closes BY <1>1, ParentCloses
  <2>2. ppc = "resolve" => "resolve" \in InterruptAt
    BY <1>1 DEF Dump, KillAll, ReleaseData, Interrupt
  <2> QED BY <2>1, <2>2, QuietCloses
<1>2. /\ ~Fork /\ ~ForkFails /\ ~AllCreated /\ ~CheckReady /\ ~WaitReady /\ ~Signal
      /\ ~CheckRound /\ ~WaitRound
  BY DEF Fork, ForkFails, AllCreated, CheckReady, WaitReady, Signal, CheckRound, WaitRound,
         CheckUntil, Suspend, QuietPhase, ClosingPcs
<1> QED BY <1>1, <1>2, QuietResolve, QuietDecide DEF Parent

LEMMA QuietChild ==
    ASSUME TypeInv, QuietPhase, NEW p \in Children, Child(p)
    PROVE  QuietPhase'
<1> USE Shapes DEF Goto
<1>1. /\ UNCHANGED <<ppc, next, rounds>> /\ Settled(p) /\ Fate(p) /\ (Closing' <=> Closing)
      /\ \A q \in Children \ {p} : pc'[q] = pc[q] /\ status'[q] = status[q]
                                   /\ target'[q] = target[q]
  BY ChildFrame DEF parent, game, QuietPhase, Settled, Closing
<1>2. /\ pc[p] \in GonePcs \cup {"notify_ready", "suspend", "notify_shot"}
      /\ pc[p] = "suspend" => pending[p] \subseteq {"KILL"}
  BY <1>1 DEF Settled, Fate, GonePcs
<1>3. NotifyReady(p) \/ NotifyShot(p) \/ NotifyDead(p) \/ Exit(p) \/ Killed(p)
  BY <1>2 DEF Child, SetId, BecomeReady, CatchOrder, CatchShot, Catch, Shoot, SetShot, SetDead,
             GonePcs
<1>4. /\ UNCHANGED status
      /\ \A q \in Children \ {p} : pending'[q] = pending[q] /\ (q \in dying' <=> q \in dying)
  BY <1>3 DEF NotifyReady, NotifyShot, NotifyDead, Notify, Exit, Killed, End, process
<1>5. Settled(p)'
  <2>1. CASE NotifyReady(p) \/ NotifyShot(p) \/ NotifyDead(p)
    <3>1. /\ UNCHANGED <<dying, pending>>
          /\ \/ pc[p] = "notify_ready" /\ pc'[p] = "suspend"
             \/ pc[p] = "notify_shot" /\ pc'[p] = IF p \in dying THEN "dead" ELSE "suspend"
             \/ pc[p] = "notify_dead" /\ pc'[p] = "exit"
      BY <2>1 DEF NotifyReady, NotifyShot, NotifyDead, Notify
    <3> HIDE Shapes
    <3>2. pc[p] = "notify_shot" => pc'[p] = "suspend"
      BY <1>1, <3>1 DEF Settled, Fate, GonePcs
    <3>3. Fate(p)' BY <1>1, <1>4, <3>1, <3>2 DEF Fate, Has, GonePcs, DyingPcs
    <3> QED BY <1>1, <1>4, <3>1, <3>2, <3>3 DEF Settled, Fate, Has, GonePcs
  <2>2. CASE Exit(p) \/ Killed(p)
    <3>1. /\ pc'[p] = "zombie" /\ pending'[p] = {} /\ p \notin dying'
          /\ pc[p] = "exit" \/ "KILL" \in pending[p]
      BY <2>2 DEF Exit, Killed, End
    <3> HIDE Shapes
    <3>2. ~Closing => Has(p, "DEAD_THIS_ROUND") BY <1>1, <3>1 DEF Fate
    <3>3. Fate(p)' BY <1>1, <1>4, <3>1, <3>2 DEF Fate, Has, GonePcs, DyingPcs
    <3> QED BY <1>1, <1>4, <3>1, <3>3 DEF Settled, Has
  <2> QED BY <1>3, <2>1, <2>2
<1>6. ASSUME NEW q \in Children \ {p} PROVE Settled(q)'
  <2>1. Settled(q) BY DEF QuietPhase
  <2> HIDE Shapes
  <2>2. Fate(q)' BY <1>1, <1>4, <2>1 DEF Settled, Fate, Has
  <2> QED BY <1>1, <1>4, <2>1, <2>2 DEF Settled, Has
<1> QED BY <1>1, <1>4, <1>5, <1>6 DEF QuietPhase
-----------------------------------------------------------------------------
(* A round *)
LEMMA RoundSignal ==
    ASSUME TypeInv, RoundPhase, Signal
    PROVE  RoundPhase'
<1>1. /\ ppc = "signal" /\ next \in 0 .. N - 1 /\ N \in Nat /\ ~Closing
      /\ UNCHANGED <<status, target, pc, dying, alive_count, rounds>>
      /\ ppc' = IF next = N - 1 THEN "check_round" ELSE "signal"
      /\ next' = IF next = N - 1 THEN 0 ELSE next + 1
  BY Shapes, NAssumption DEF Signal, Loop, process, game, Closing, ClosingPcs, Children
<1>2. ppc' \in {"signal", "check_round"} /\ ~Closing'
  BY <1>1 DEF Closing, ClosingPcs
<1>3. \A p \in Children : ppc' = "signal" /\ p >= next' => p >= next /\ p # next
  BY <1>1 DEF Children
<1>4. /\ \A p \in Children \ {next} : pending'[p] = pending[p]
      /\ pending'[next] \in {pending[next], pending[next] \cup {"USR1"}}
  BY Shapes DEF Signal, Sent
<1>5. ASSUME NEW p \in Children
      PROVE  /\ "KILL" \in pending'[p] => "KILL" \in pending[p]
             /\ "TERM" \in pending'[p] => "TERM" \in pending[p]
             /\ Unordered(p)' => Unordered(p)
  BY <1>1, <1>3, <1>4 DEF Unordered, Children
<1>6. Dead' = Dead BY <1>1 DEF Dead, Has
<1>7. ASSUME NEW p \in Children PROVE Fighting(p)' /\ Struck(p)'
  <2>1. Fighting(p) /\ Struck(p) BY DEF RoundPhase
  <2>2. (Fires(p)' <=> Fires(p)) /\ (Exists(p)' <=> Exists(p)) /\ (Wounded(p)' => Wounded(p))
    BY <1>1, <1>5 DEF Fires, Exists, Wounded, Has
  <2>3. \A q \in Children : Fires(q) /\ target[q] = p => Fires(q)' /\ target'[q] = p
    BY <1>1 DEF Fires, Has
  <2>4. Fate(p)' BY <1>1, <1>2, <1>5, <2>1 DEF Fighting, Fate, Has
  <2>5. ppc' = "signal" /\ p >= next' /\ "USR1" \in pending'[p] => Has(p, "DEAD_THIS_ROUND")'
    BY <1>1, <1>3, <1>4, <2>1 DEF Fighting, Has
  <2>6. Fighting(p)'
    BY <1>1, <1>5, <2>1, <2>2, <2>4, <2>5 DEF Fighting, Has
  <2>7. Struck(p)'
    BY <1>1, <2>1, <2>2, <2>3 DEF Struck, Has
  <2> QED BY <2>6, <2>7
<1> QED BY <1>1, <1>2, <1>6, <1>7 DEF RoundPhase

LEMMA OverWhenFound == round_over => Over
BY DEF round_over, Over

Ends ==
    /\ ppc \in {"check_round", "print"} /\ ppc' = "resolve" /\ next' = 0
    /\ UNCHANGED <<status, target, pc, dying, pending, rounds>>

LEMMA CheckEnds ==
    ASSUME TypeInv, CheckRound, round_over
    PROVE  Over /\ Ends
BY OverWhenFound DEF CheckRound, CheckUntil, process, game, TypeInv, Ends

LEMMA RoundEnds ==
    ASSUME TypeInv, RoundPhase, Over, Ends
    PROVE  QuietPhase'
<1>1. /\ ppc' = "resolve" /\ next' = 0 /\ ~Closing /\ ~Closing'
      /\ ppc = "signal" => FALSE
      /\ UNCHANGED <<status, target, pc, dying, pending, rounds>> /\ rounds > 0
  BY DEF Ends, TypeInv, RoundPhase, Closing, ClosingPcs
<1>2. ASSUME NEW p \in Children PROVE Settled(p)'
  <2>1. Fighting(p) /\ Struck(p) /\ Fate(p) /\ Has(p, "SHOT")
    BY DEF RoundPhase, Fighting, Over
  <2>2. Fate(p)' BY <1>1, <2>1 DEF Fate, Has
  <2>3. ASSUME ~Has(p, "DEAD_THIS_ROUND")
        PROVE  /\ pc[p] \in {"notify_ready", "suspend", "notify_shot", "zombie"}
               /\ p \notin dying /\ pending[p] \subseteq {"KILL"}
    <3>1. ~Wounded(p)
      <4>1. ~Has(p, "DEAD") BY <2>1, <2>3 DEF Fate
      <4>2. \A q \in Children : Fires(q) => target[q] # p BY <2>3 DEF Fires, Over
      <4> QED BY <1>1, <2>1, <4>1, <4>2 DEF Struck
    <3>2. Exists(p) BY <1>1, <2>1, <2>3 DEF Fate, Exists
    <3>3. p \notin dying /\ "TERM" \notin pending[p] /\ "USR1" \notin pending[p]
      BY <2>1, <3>1, <3>2 DEF Wounded, Unordered, Fighting
    <3>4. pc[p] \in {"notify_ready", "suspend", "notify_shot"}
      BY <2>1, <3>2, <3>3, Shapes DEF Fighting, Fate, Exists, DyingPcs, ChildPcs
    <3>5. pending[p] \in SUBSET {"USR1", "TERM", "KILL"} BY Shapes
    <3> QED BY <3>3, <3>4, <3>5
  <2>4. ~(p < 0) BY DEF Children
  <2> QED BY <1>1, <2>2, <2>3, <2>4 DEF Settled, Has
<1> QED BY <1>1, <1>2, Shapes DEF QuietPhase

LEMMA RoundParent ==
    ASSUME TypeInv, RoundPhase, Parent \/ Interrupt
    PROVE  QuietPhase' \/ RoundPhase'
<1>1. CASE Dump \/ KillAll \/ ReleaseData \/ Interrupt
  BY <1>1, ParentCloses, RoundCloses
<1>2. CASE (CheckRound /\ ~round_over) \/ WaitRound
  <2>1. /\ ppc \in {"check_round", "wait_round"} /\ ppc' \in {"check_round", "wait_round"}
        /\ UNCHANGED <<status, target, pc, dying, pending, alive_count, rounds>>
    BY <1>2 DEF CheckRound, WaitRound, CheckUntil, Suspend, process, game
  <2>2. Dead' = Dead /\ ~Closing /\ ~Closing'
    BY <2>1 DEF Dead, Has, Closing, ClosingPcs
  <2>3. ASSUME NEW p \in Children PROVE Fighting(p)' /\ Struck(p)'
    <3>1. Fighting(p) /\ Struck(p) BY DEF RoundPhase
    <3>2. Fate(p)' BY <2>1, <2>2, <3>1 DEF Fighting, Fate, Has
    <3>3. Fighting(p)'
      BY <2>1, <2>2, <3>1, <3>2 DEF Fighting, Has, Exists, Unordered, Fires
    <3>4. Struck(p)' BY <2>1, <2>2, <3>1 DEF Struck, Wounded, Fires, Has
    <3> QED BY <3>3, <3>4
  <2> QED BY <2>1, <2>2, <2>3 DEF RoundPhase
<1>3. /\ ~Fork /\ ~ForkFails /\ ~AllCreated /\ ~CheckReady /\ ~WaitReady /\ ~Resolve
      /\ ~Decide
  BY DEF Fork, ForkFails, AllCreated, CheckReady, WaitReady, Resolve, Decide, CheckUntil,
         Suspend, RoundPhase, ClosingPcs
<1> QED BY <1>1, <1>2, <1>3, RoundSignal, CheckEnds, RoundEnds DEF Parent

(* When everybody has shot and who was shot has said so, nobody takes aim   *)
(* any more, and nothing of that is taken back                               *)
LEMMA OverKept ==
    ASSUME TypeInv, RoundPhase, ~Closing, Over, NEW p \in Children, Child(p)
    PROVE  Over' /\ UNCHANGED target
<1>1. /\ Fighting(p) /\ Fate(p) /\ Has(p, "SHOT")
      /\ \A q \in Children \ {p} : status'[q] = status[q]
  BY ChildFrame DEF RoundPhase, Fighting, Over
<1>2. pc[p] \notin {"start", "ready", "aim", "shot"} BY <1>1 DEF Fighting, Fate
<1>3. UNCHANGED target /\ status[p] \subseteq status'[p]
  BY <1>2, Shapes DEF Child, SetId, BecomeReady, NotifyReady, NotifyShot, NotifyDead, Notify,
     CatchOrder, CatchShot, Catch, Shoot, SetShot, SetDead, Exit, Killed, End, process
<1>4. \A q \in Children : status[q] \subseteq status'[q] BY <1>1, <1>3
<1>5. ASSUME NEW q \in Children, ~Has(q, "DEAD")
      PROVE  target[q] \in Children /\ Has(target[q], "DEAD_THIS_ROUND")
  <2>1. Fighting(q) /\ Fires(q) BY <1>5 DEF RoundPhase, Over, Fires
  <2> QED BY <1>5, <2>1 DEF Fighting, Over
<1> QED BY <1>3, <1>4, <1>5 DEF Over, Has

(* What the step of one player is to the others *)
LEMMA RoundOthers ==
    ASSUME TypeInv, RoundPhase, NEW p \in Children, Child(p), Dead' = Dead,
           \A q \in Children \ {p} : pending'[q] = pending[q] /\ (q \in dying' <=> q \in dying),
           ~Closing /\ Fires(p) => Fires(p)' /\ target'[p] = target[p],
           ~Closing /\ Wounded(p)' => Wounded(p),
           Fighting(p)'
    PROVE  RoundPhase'
<1>1. /\ UNCHANGED <<ppc, next, alive_count, rounds>>
      /\ \A q \in Children \ {p} : pc'[q] = pc[q] /\ status'[q] = status[q]
                                   /\ target'[q] = target[q]
  BY ChildFrame DEF parent, game
<1>2. Closing' <=> Closing BY <1>1 DEF Closing
<1>3. \A q \in Children : Has(q, "DEAD")' <=> Has(q, "DEAD")
  <2>1. \A q \in Children : Has(q, "DEAD")' <=> q \in Dead' BY DEF Dead
  <2>2. \A q \in Children : Has(q, "DEAD") <=> q \in Dead BY DEF Dead
  <2> QED BY <2>1, <2>2
<1>4. \A q \in Children \ {p} : (Fires(q)' <=> Fires(q)) /\ (Wounded(q)' <=> Wounded(q))
  BY <1>1 DEF Fires, Wounded, Has
<1>5. ASSUME NEW q \in Children \ {p} PROVE Fighting(q)'
  <2>1. Fighting(q) BY DEF RoundPhase
  <2>2. Fate(q)' BY <1>1, <1>2, <2>1 DEF Fighting, Fate, Has
  <2>3. Fires(q)' => target'[q] \in Children \ {q} /\ "DEAD" \notin status'[target'[q]]
    BY <1>1, <1>3, <1>4, <2>1 DEF Fighting, Has
  <2>4. (Exists(q)' <=> Exists(q)) /\ (Unordered(q)' <=> Unordered(q))
    BY <1>1 DEF Exists, Unordered
  <2> QED BY <1>1, <2>1, <2>2, <2>3, <2>4 DEF Fighting, Has
<1>6. ASSUME NEW r \in Children, ~Closing, Wounded(r)', ~Has(r, "DEAD")'
      PROVE  \E q \in Children : Fires(q)' /\ target'[q] = r
  <2>1. Wounded(r) /\ ~Has(r, "DEAD") BY <1>3, <1>4, <1>6
  <2>2. PICK q \in Children : Fires(q) /\ target[q] = r
    BY <1>6, <2>1 DEF RoundPhase, Struck
  <2> QED BY <1>1, <1>4, <1>6, <2>2
<1>7. \A q \in Children : Struck(q)' BY <1>2, <1>6 DEF Struck
<1>8. ppc' = "print" => Over'
  BY <1>1, OverKept DEF RoundPhase, Closing, ClosingPcs
<1> QED BY <1>1, <1>2, <1>5, <1>7, <1>8 DEF RoundPhase, Closing

LEMMA RoundShoot ==
    ASSUME TypeInv, RoundPhase, NEW p \in Children, Shoot(p)
    PROVE  RoundPhase'
<1> DEFINE t == target'[p]
<1>1. /\ pc[p] = "aim" /\ pc' = [pc EXCEPT ![p] = "shot"]
      /\ UNCHANGED <<ppc, next, alive_count, rounds, status, dying>>
      /\ t \in Children \ {p} /\ ~Has(t, "DEAD")
      /\ \A q \in Children \ {p} : target'[q] = target[q]
      /\ \A q \in Children : pending'[q] \in {pending[q], pending[q] \cup {"TERM"}}
      /\ \A q \in Children \ {t} : pending'[q] = pending[q]
  <2>1. PICK u \in Allowed(p, Choices(p)) :
              /\ target' = [target EXCEPT ![p] = u]
              /\ pending' = [pending EXCEPT ![u] = Sent(u, "TERM")]
    BY DEF Shoot
  <2>2. u \in Children \ {p} /\ ~Has(u, "DEAD") BY <2>1 DEF Allowed, Choices, Dead
  <2>3. t = u BY <2>1, Shapes
  <2> HIDE DEF t
  <2> QED BY <2>1, <2>2, <2>3, Shapes DEF Shoot, Goto, parent, game, Sent
<1> HIDE DEF t
<1>2. /\ Fighting(p) /\ ~Has(p, "SHOT") /\ ~Has(p, "DEAD") /\ (Closing' <=> Closing)
      /\ pc'[p] = "shot" /\ \A q \in Children \ {p} : pc'[q] = pc[q]
  BY <1>1, Shapes DEF RoundPhase, Fighting, Fate, Closing, GonePcs
<1>3. Dead' = Dead BY <1>1 DEF Dead, Has
<1>4. Fires(p)' /\ ~Fires(p) BY <1>1, <1>2 DEF Fires, Has
<1>5. \A q \in Children \ {p} : Fires(q)' <=> Fires(q) BY <1>1, <1>2 DEF Fires, Has
<1>6. ASSUME NEW q \in Children PROVE Fighting(q)'
  <2>1. /\ Fighting(q) /\ ("USR1" \in pending'[q] <=> "USR1" \in pending[q])
        /\ "KILL" \in pending'[q] <=> "KILL" \in pending[q]
    BY <1>1 DEF RoundPhase
  <2>2. (Exists(q)' <=> Exists(q)) /\ (Unordered(q)' <=> Unordered(q))
        /\ (pc'[q] \in {"aim", "shot"} <=> pc[q] \in {"aim", "shot"})
    BY <1>1, <1>2, <2>1 DEF Exists, Unordered
  <2>3. CASE q = p
    <3>1. Fate(q)' BY <1>1, <1>2, <2>1, <2>3 DEF Fighting, Fate, Has, GonePcs, DyingPcs
    <3>2. target'[q] \in Children \ {q} /\ ~("DEAD" \in status'[target'[q]])
      BY <1>1, <2>3 DEF t, Has
    <3> QED BY <1>1, <1>2, <2>1, <2>2, <2>3, <3>1, <3>2 DEF Fighting, Has, DyingPcs
  <2>4. CASE q # p
    <3>1. pc'[q] = pc[q] /\ target'[q] = target[q] /\ (Fires(q)' <=> Fires(q))
      BY <1>1, <1>2, <1>5, <2>4
    <3>2. Fate(q)' BY <1>1, <1>2, <2>1, <3>1 DEF Fighting, Fate, Has
    <3> QED BY <1>1, <2>1, <2>2, <3>1, <3>2 DEF Fighting, Has
  <2> QED BY <2>3, <2>4
<1>7. ASSUME NEW r \in Children, ~Closing, Wounded(r)', ~Has(r, "DEAD")'
      PROVE  \E q \in Children : Fires(q)' /\ target'[q] = r
  <2>1. CASE r = t BY <1>4, <2>1 DEF t
  <2>2. CASE r # t
    <3>1. Wounded(r) /\ ~Has(r, "DEAD") BY <1>1, <1>7, <2>2 DEF Wounded, Has
    <3>2. PICK q \in Children : Fires(q) /\ target[q] = r
      BY <1>7, <3>1 DEF RoundPhase, Struck
    <3> QED BY <1>1, <1>4, <1>5, <3>2
  <2> QED BY <2>1, <2>2
<1>8. \A q \in Children : Struck(q)' BY <1>2, <1>7 DEF Struck
<1>9. ppc' # "print" BY <1>1, <1>2 DEF RoundPhase, Over
<1> QED BY <1>1, <1>3, <1>6, <1>8, <1>9 DEF RoundPhase, Closing

LEMMA RoundChild ==
    ASSUME TypeInv, RoundPhase, NEW p \in Children, Child(p)
    PROVE  RoundPhase'
<1> USE Shapes DEF Goto
<1>1. /\ UNCHANGED <<ppc, next>> /\ (Closing' <=> Closing) /\ Fighting(p) /\ Fate(p)
      /\ \A q \in Children \ {p} : pc'[q] = pc[q] /\ status'[q] = status[q]
                                   /\ target'[q] = target[q]
  BY ChildFrame DEF parent, RoundPhase, Fighting, Closing
<1>2. CASE Shoot(p) BY <1>2, RoundShoot
<1>3. CASE ~Shoot(p)
  <2>1. /\ \A q \in Children \ {p} : pending'[q] = pending[q] /\ (q \in dying' <=> q \in dying)
        /\ UNCHANGED target
    BY <1>3 DEF Child, SetId, BecomeReady, NotifyReady, NotifyShot, NotifyDead, Notify,
       CatchOrder, CatchShot, Catch, SetShot, SetDead, Exit, Killed, End, process
  <2>2. ~SetId(p) /\ ~BecomeReady(p)
    BY <1>1 DEF SetId, BecomeReady, Fate
  <2>3. ASSUME status'[p] \in {status[p], status[p] \cup {"SHOT"},
                                status[p] \cup {"DEAD_THIS_ROUND"}},
               ~Closing /\ Fires(p) => Fires(p)',
               ~Closing /\ Wounded(p)' => Wounded(p),
               Fate(p)',
               pc'[p] \in {"aim", "shot"} => "SHOT" \notin status'[p],
               p \in dying' => pc'[p] \in DyingPcs \cup {"aim", "shot", "notify_shot"},
               p \in dying' /\ pc'[p] \in {"notify_shot", "dead"} => "SHOT" \in status'[p],
               Exists(p)' /\ Unordered(p)' /\ ("SHOT" \in status'[p] \/ pc'[p] \in {"aim", "shot"})
                  => p \in dying',
               ppc = "signal" /\ p >= next /\ "USR1" \in pending'[p]
                  => "DEAD_THIS_ROUND" \in status'[p],
               Fires(p)' => Fires(p)
        PROVE  RoundPhase'
    <3>1. \A q \in Children : "DEAD" \in status'[q] <=> "DEAD" \in status[q]
      BY <1>1, <2>3
    <3>2. Dead' = Dead BY <3>1 DEF Dead, Has
    <3>3. Fires(p)' => target'[p] \in Children \ {p} /\ "DEAD" \notin status'[target'[p]]
      BY <1>1, <2>1, <2>3, <3>1 DEF Fighting, Has
    <3>4. Fighting(p)' BY <1>1, <2>3, <3>3 DEF Fighting, Has
    <3> QED BY <2>1, <2>3, <3>2, <3>4, RoundOthers
  <2>4. CASE NotifyReady(p)
    <3>1. /\ UNCHANGED <<status, dying, pending>>
          /\ pc[p] = "notify_ready" /\ pc'[p] = "suspend"
      BY <2>4 DEF NotifyReady, Notify, process
    <3> HIDE Shapes
    <3>2. Fate(p)' BY <1>1, <3>1 DEF Fate, Has, GonePcs, DyingPcs
    <3>3. /\ Fires(p)' <=> Fires(p)
          /\ Wounded(p)' => Wounded(p)
          /\ Unordered(p)' => Unordered(p)
          /\ Exists(p)
      BY <1>1, <3>1 DEF Fires, Wounded, Unordered, Exists, Has
    <3> QED BY <1>1, <2>3, <3>1, <3>2, <3>3 DEF Fighting, Has, DyingPcs
  <2>5. CASE CatchOrder(p)
    <3>1. /\ UNCHANGED <<status, dying>> /\ "USR1" \in pending[p]
          /\ pending'[p] = pending[p] \ {"USR1"}
          /\ pc[p] = "suspend" /\ pc'[p] = "aim"
      BY <2>5 DEF CatchOrder, Catch, process
    <3> HIDE Shapes
    <3>2. Fate(p)' BY <1>1, <3>1 DEF Fate, Has, GonePcs, DyingPcs
    <3>3. p \notin dying /\ ~Has(p, "SHOT") /\ ~(ppc = "signal" /\ p >= next)
      BY <1>1, <3>1 DEF Fighting, Fate, Unordered, Exists, DyingPcs, GonePcs
    <3>4. /\ Fires(p)' <=> Fires(p)
          /\ Wounded(p)' => Wounded(p)
          /\ ~Unordered(p)'
      BY <1>1, <3>1, <3>3 DEF Fires, Wounded, Unordered, Has
    <3> QED BY <1>1, <2>3, <3>1, <3>2, <3>3, <3>4 DEF Has
  <2>6. CASE CatchShot(p)
    <3>1. /\ UNCHANGED status /\ "TERM" \in pending[p] /\ p \in dying'
          /\ pending'[p] = pending[p] \ {"TERM"}
          /\ pc[p] = "suspend" /\ pc'[p] = IF Has(p, "SHOT") THEN "dead" ELSE "aim"
      BY <2>6 DEF CatchShot, Catch, Fakes, process
    <3> HIDE Shapes
    <3>2. Fate(p)' BY <1>1, <3>1 DEF Fate, Has, GonePcs, DyingPcs
    <3>3. /\ Fires(p)' <=> Fires(p)
          /\ Wounded(p)
      BY <1>1, <3>1 DEF Fires, Wounded, Has
    <3> QED BY <1>1, <2>3, <3>1, <3>2, <3>3 DEF Fighting, Has, DyingPcs
  <2>7. CASE SetShot(p)
    <3>1. /\ UNCHANGED <<dying, pending>> /\ status'[p] = status[p] \cup {"SHOT"}
          /\ pc[p] = "shot" /\ pc'[p] = "notify_shot"
      BY <2>7 DEF SetShot
    <3> HIDE Shapes
    <3>2. Fate(p)' BY <1>1, <3>1 DEF Fate, Has, GonePcs, DyingPcs
    <3>3. /\ Fires(p)' <=> Fires(p)
          /\ Wounded(p)' => Wounded(p)
          /\ Unordered(p)' => Unordered(p)
          /\ Exists(p)
      BY <1>1, <3>1 DEF Fires, Wounded, Unordered, Exists, Has
    <3> QED BY <1>1, <2>3, <3>1, <3>2, <3>3 DEF Fighting, Has, DyingPcs
  <2>8. CASE NotifyShot(p)
    <3>1. /\ UNCHANGED <<status, dying, pending>>
          /\ pc[p] = "notify_shot" /\ pc'[p] = IF p \in dying THEN "dead" ELSE "suspend"
      BY <2>8 DEF NotifyShot, Notify, process
    <3> HIDE Shapes
    <3>2. Fate(p)' BY <1>1, <3>1 DEF Fate, Has, GonePcs, DyingPcs
    <3>3. /\ Fires(p)' <=> Fires(p)
          /\ Wounded(p)' => Wounded(p)
          /\ Unordered(p)' => Unordered(p)
          /\ Exists(p)
      BY <1>1, <3>1 DEF Fires, Wounded, Unordered, Exists, Has
    <3> QED BY <1>1, <2>3, <3>1, <3>2, <3>3 DEF Fighting, Has, DyingPcs
  <2>9. CASE SetDead(p)
    <3>1. /\ UNCHANGED <<dying, pending>>
          /\ status'[p] = status[p] \cup {"DEAD_THIS_ROUND"}
          /\ pc[p] = "dead" /\ pc'[p] = "notify_dead"
      BY <2>9 DEF SetDead
    <3> HIDE Shapes
    <3>2. p \in dying /\ Has(p, "SHOT") BY <1>1, <3>1 DEF Fate, Fighting, DyingPcs
    <3>3. Fate(p)' BY <1>1, <3>1, <3>2 DEF Fate, Has, GonePcs, DyingPcs
    <3>4. (Fires(p)' <=> Fires(p)) /\ Wounded(p)
      BY <1>1, <3>1, <3>2 DEF Fires, Wounded, Has
    <3> QED BY <1>1, <2>3, <3>1, <3>2, <3>3, <3>4 DEF Has, DyingPcs
  <2>10. CASE NotifyDead(p)
    <3>1. /\ UNCHANGED <<status, dying, pending>>
          /\ pc[p] = "notify_dead" /\ pc'[p] = "exit"
      BY <2>10 DEF NotifyDead, Notify, process
    <3> HIDE Shapes
    <3>2. Fate(p)' /\ p \in dying /\ Has(p, "DEAD_THIS_ROUND")
      BY <1>1, <3>1 DEF Fate, Has, GonePcs, DyingPcs
    <3>3. (Fires(p)' <=> Fires(p)) /\ (Wounded(p)' => Wounded(p))
      BY <1>1, <3>1 DEF Fires, Wounded, Has
    <3> QED BY <1>1, <2>3, <3>1, <3>2, <3>3 DEF Has, DyingPcs
  <2>11. CASE Exit(p) \/ Killed(p)
    <3>1. /\ UNCHANGED status /\ pc'[p] = "zombie" /\ pending'[p] = {} /\ p \notin dying'
          /\ pc[p] = "exit" \/ "KILL" \in pending[p]
      BY <2>11 DEF Exit, Killed, End, process
    <3> HIDE Shapes
    <3>2. ~Closing => pc[p] = "exit" /\ Has(p, "DEAD_THIS_ROUND") BY <1>1, <3>1 DEF Fate
    <3>3. Fate(p)' BY <1>1, <3>1, <3>2 DEF Fate, Has, GonePcs, DyingPcs
    <3>4. /\ Fires(p)' => Fires(p)
          /\ ~Closing => Wounded(p) /\ (Fires(p) => Fires(p)')
          /\ ~Exists(p)'
      BY <1>1, <3>1, <3>2 DEF Fires, Wounded, Exists, Has
    <3> QED BY <1>1, <2>3, <3>1, <3>3, <3>4
  <2> QED BY <1>3, <2>2, <2>4, <2>5, <2>6, <2>7, <2>8, <2>9, <2>10, <2>11 DEF Child
<1> QED BY <1>2, <1>3
-----------------------------------------------------------------------------
(* The phases follow one another: the start, then rounds and what is        *)
(* between them, until the parent closes the game in any of them            *)
LEMMA PhaseNext == Phases /\ [Next]_vars => Phases'
<1> SUFFICES ASSUME Phases, [Next]_vars PROVE Phases'
  OBVIOUS
<1>1. TypeInv /\ TypeInv' BY TypeNext DEF Phases
<1>2. CASE UNCHANGED vars
  <2>1. (PrepPhase' <=> PrepPhase) /\ (QuietPhase' <=> QuietPhase)
    BY <1>2 DEF vars, parent, game, process, PrepPhase, Prepared, QuietPhase, Settled, Fate,
                Closing, Has
  <2>2. RoundPhase' <=> RoundPhase
    BY <1>2 DEF vars, parent, game, process, RoundPhase, Fighting, Struck, Fate, Fires, Wounded,
                Unordered, Exists, Dead, Closing, Over, Has
  <2> QED BY <1>1, <2>1, <2>2 DEF Phases
<1>3. CASE Parent \/ Interrupt
  BY <1>1, <1>3, PrepParent, QuietParent, RoundParent DEF Phases
<1>4. CASE \E p \in Children : Child(p)
  BY <1>1, <1>4, PrepChild, QuietChild, RoundChild DEF Phases
<1> QED BY <1>2, <1>3, <1>4 DEF Next, Done

LEMMA PhasesHold == Spec => []Phases
<1>1. Init => Phases BY TypeInit, InitPhase DEF Phases
<1> QED BY <1>1, PhaseNext, PTL DEF Spec

LEMMA PhasesApart == Phases => RoundsApart
<1> SUFFICES ASSUME Phases, ppc \in {"resolve", "decide"}, NEW p \in Children
             PROVE  /\ pc[p] \notin InHandler
                    /\ Exists(p) /\ ~Has(p, "DEAD_THIS_ROUND") => pending[p] \subseteq {"KILL"}
  BY DEF RoundsApart
<1>1. Settled(p) BY DEF Phases, PrepPhase, QuietPhase, RoundPhase, Closing, ClosingPcs,
                        StartingPcs
<1> QED BY <1>1 DEF Settled, Fate, InHandler, GonePcs

(* While the parent rewrites the statuses no player is inside a handler    *)
(* with something to write, and no order and no shot is left for a survivor: *)
(* whatever is interrupted and whenever, for any number of players.          *)
THEOREM RoundsStayApart == Spec => []RoundsApart
BY PhasesApart, PhasesHold, PTL

LEMMA PhasesFind == Phases => FindsTarget
<1> SUFFICES ASSUME Phases, NEW p \in Children, pc[p] = "aim"
             PROVE  /\ alive_count > 1
                    /\ Cardinality(Choices(p)) = alive_count - 1
                    /\ \A t \in Choices(p) : pc[t] # "reaped"
  BY DEF FindsTarget
<1>1. RoundPhase
  BY DEF Phases, PrepPhase, Prepared, QuietPhase, Settled, Fate, GonePcs
<1>2. p \in Children \ Dead
  BY <1>1 DEF RoundPhase, Fighting, Fate, GonePcs, Dead
<1>3. Choices(p) = (Children \ Dead) \ {p} BY DEF Choices
<1>4. IsFiniteSet(Children \ Dead)
  BY CountAlive, FS_Difference
<1>5. Cardinality(Choices(p)) = alive_count - 1
  BY <1>1, <1>2, <1>3, <1>4, FS_RemoveElement DEF RoundPhase
<1>6. \A t \in Choices(p) : pc[t] # "reaped"
  BY <1>1 DEF Choices, Dead, RoundPhase, Fighting, Fate
<1> QED BY <1>1, <1>5, <1>6 DEF RoundPhase

(* Whoever takes aim has somebody else alive to count off, exactly as many *)
(* as child_rand_proc divides by, and none of them has been reaped.         *)
THEOREM TargetsAreFound == Spec => []FindsTarget
BY PhasesFind, PhasesHold, PTL
-----------------------------------------------------------------------------
(* What the players of ShootingGame see in each phase.  An interruption in  *)
(* the middle of the rewriting of the statuses leaves those of no round,    *)
(* with which nobody plays on: Refinement leaves that one out.              *)
Undisturbed == "resolve" \notin InterruptAt

Living == {p \in Children : ~Has(p, "DEAD")}
Survivors == {p \in Living : ~Has(p, "DEAD_THIS_ROUND")}
Shooters == {p \in Living : Has(p, "SHOT")}
Targets == {target[p] : p \in Shooters}

PrepView == gameAlive = Children /\ gameShot = {} /\ gameHit = {}
QuietView == gameAlive = Survivors /\ gameShot = {} /\ gameHit = {}
RoundView == gameAlive = Living /\ gameShot = Shooters /\ gameHit = Targets

Unseen == UNCHANGED <<gameAlive, gameShot, gameHit>>

LEMMA SameCardinality == \A S : Game!Cardinality(S) = Cardinality(S)
BY DEF Cardinality, Game!Cardinality

LEMMA PrepSeen ==
    ASSUME PrepPhase PROVE PrepView
BY DEF PrepPhase, PrepView, gameAlive, gameShot, gameHit, Preparing

LEMMA QuietSeen ==
    ASSUME Undisturbed, QuietPhase PROVE QuietView
<1>1. CASE Preparing
  BY <1>1 DEF QuietPhase, Preparing, QuietView, Survivors, Living, gameAlive, gameShot, gameHit,
              Has
<1>2. CASE ~Preparing /\ Resolving
  BY <1>2 DEF QuietView, Survivors, Living, gameAlive, gameShot, gameHit
<1>3. CASE ~Preparing /\ ~Resolving
  <2>1. Closing BY <1>3 DEF QuietPhase, Resolving, Closing
  <2>2. \A p \in Living : status[p] = {"READY"}
    BY <2>1 DEF Living, QuietPhase, Settled, Undisturbed
  <2>3. gameAlive = Living BY <1>3 DEF gameAlive, Living
  <2>4. Survivors = Living BY <2>2 DEF Survivors, Has
  <2>5. gameShot = {} BY <2>2, <2>3 DEF gameShot, Has
  <2> QED BY <2>3, <2>4, <2>5 DEF QuietView, gameHit
<1> QED BY <1>1, <1>2, <1>3

LEMMA RoundSeen ==
    ASSUME RoundPhase PROVE RoundView
<1>1. ~Preparing /\ ~Resolving BY DEF RoundPhase, Preparing, Resolving, ClosingPcs
<1> QED BY <1>1 DEF RoundView, Living, Shooters, Targets, gameAlive, gameShot, gameHit

LEMMA RoundsGrow ==
    ASSUME TypeInv, [Next]_vars, ~Decide PROVE rounds' = rounds
BY ChildFrame DEF Next, Done, vars, game, Parent, Interrupt, Fork, ForkFails, AllCreated,
   CheckReady, WaitReady, CheckRound, WaitRound, CheckUntil, Suspend, Resolve, Signal, Dump,
   KillAll, ReleaseData

(* The children get ready and the first round is about to begin *)
LEMMA PrepGame ==
    ASSUME Undisturbed, TypeInv, PrepPhase, [Next]_vars, PrepPhase' \/ QuietPhase'
    PROVE  Unseen
<1>1. PrepView BY PrepSeen
<1>2. CASE PrepPhase'
  <2>1. PrepView' BY <1>2, PrepSeen, PTL
  <2> QED BY <1>1, <2>1 DEF PrepView, Unseen
<1>3. CASE QuietPhase'
  <2>1. QuietView' BY <1>3, QuietSeen, PTL DEF Undisturbed
  <2>2. rounds' = 0
    <3>1. ~Decide BY DEF Decide, PrepPhase, StartingPcs, Closing, ClosingPcs
    <3> QED BY <3>1, RoundsGrow DEF PrepPhase
  <2>3. Survivors' = Children BY <1>3, <2>2 DEF QuietPhase, Survivors, Living, Has
  <2> QED BY <1>1, <2>1, <2>3 DEF PrepView, QuietView, Unseen
<1> QED BY <1>2, <1>3

(* Those that were hit die and are reaped, and the next round begins *)
LEMMA QuietGame ==
    ASSUME Undisturbed, TypeInv, QuietPhase, [Next]_vars, QuietPhase' \/ RoundPhase'
    PROVE  Unseen
<1>1. QuietView BY QuietSeen
<1>2. \A p \in Children : (p \in Survivors)' <=> p \in Survivors
  <2>1. CASE Resolve
    <3>1. ASSUME NEW p \in Children, p # next PROVE (p \in Survivors)' <=> p \in Survivors
      <4>1. status'[p] = status[p] BY <2>1, <3>1, Shapes DEF Resolve
      <4> QED BY <4>1 DEF Survivors, Living, Has
    <3>2. ASSUME NEW n \in Children, n = next PROVE (n \in Survivors)' <=> n \in Survivors
      <4>1. status'[n] = IF Has(n, "DEAD") \/ Has(n, "DEAD_THIS_ROUND")
                         THEN status[n] \cup {"DEAD"} ELSE {"READY"}
        BY <2>1, <3>2, Shapes DEF Resolve
      <4> QED BY <4>1 DEF Survivors, Living, Has
    <3> QED BY <3>1, <3>2
  <2>2. CASE ~Resolve
    <3>1. \A p \in Children : status'[p] = status[p]
      <4>1. CASE Parent \/ Interrupt
        BY <2>2, <4>1 DEF Parent, Interrupt, Fork, ForkFails, AllCreated, CheckReady, WaitReady,
           Decide, Signal, CheckRound, WaitRound, Dump, KillAll, ReleaseData, CheckUntil,
           Suspend, process, QuietPhase, ClosingPcs
      <4>2. ASSUME NEW q \in Children, Child(q) PROVE UNCHANGED status
        <5>1. Settled(q) /\ Fate(q) BY DEF QuietPhase, Settled
        <5>2. pc[q] \in GonePcs \cup {"notify_ready", "suspend", "notify_shot"}
          BY <5>1 DEF Settled, Fate, GonePcs
        <5> QED BY <4>2, <5>2 DEF Child, SetId, BecomeReady, NotifyReady, NotifyShot, NotifyDead,
                   Notify, CatchOrder, CatchShot, Catch, Shoot, SetShot, SetDead, Exit, Killed,
                   End, process, GonePcs
      <4>3. CASE UNCHANGED vars BY <4>3 DEF vars, process
      <4> QED BY <4>1, <4>2, <4>3 DEF Next, Done
    <3> QED BY <3>1 DEF Survivors, Living, Has
  <2> QED BY <2>1, <2>2
<1>3. Survivors' = Survivors BY <1>2 DEF Survivors, Living
<1>4. CASE QuietPhase'
  <2>1. QuietView' BY <1>4, QuietSeen, PTL DEF Undisturbed
  <2> QED BY <1>1, <1>3, <2>1 DEF QuietView, Unseen
<1>5. CASE RoundPhase' /\ ~QuietPhase'
  <2>1. RoundView' BY <1>5, RoundSeen, PTL
  <2>2. ppc \in {"resolve", "decide"} \cup ClosingPcs /\ ppc' \notin {"resolve", "decide"}
    BY <1>5 DEF QuietPhase, RoundPhase, ClosingPcs
  <2>3. Decide
    <3>1. ~\E p \in Children : Child(p) BY <1>5, QuietChild
    <3>2. ~UNCHANGED vars
      BY <1>5 DEF vars, parent, game, process, QuietPhase, Settled, Fate, Closing, Has
    <3>3. Parent \/ Interrupt BY <3>1, <3>2 DEF Next, Done
    <3>4. ~(Dump \/ KillAll \/ ReleaseData \/ Interrupt)
      <4>1. SUFFICES ASSUME Dump \/ KillAll \/ ReleaseData \/ Interrupt PROVE FALSE
        OBVIOUS
      <4>2. ppc # "resolve"
        BY <4>1 DEF Dump, KillAll, ReleaseData, Interrupt, Undisturbed
      <4> QED BY <1>5, <4>1, <4>2, ParentCloses, QuietCloses
    <3>5. ~Resolve BY <1>5, QuietResolve
    <3> QED BY <2>2, <3>3, <3>4, <3>5 DEF Parent, Fork, ForkFails, AllCreated, CheckReady, WaitReady,
              Signal, CheckRound, WaitRound, CheckUntil, Suspend, ClosingPcs
  <2>4. \A p \in Children : status'[p] = status[p] /\ (p \in Living => status[p] = {"READY"})
    BY <2>3 DEF Decide, process, QuietPhase, Settled, Living
  <2>5. Living' = Survivors /\ Shooters' = {}
    BY <2>4 DEF Survivors, Living, Shooters, Has
  <2> QED BY <1>1, <2>1, <2>5 DEF QuietView, RoundView, Targets, Unseen
<1> QED BY <1>4, <1>5

(* A player writes its SHOT *)
LEMMA RoundShot ==
    ASSUME TypeInv, RoundPhase, NEW p \in Children, SetShot(p)
    PROVE  Game!Shoot(p, target[p])
<1>1. /\ pc[p] = "shot" /\ UNCHANGED target
      /\ status' = [status EXCEPT ![p] = @ \cup {"SHOT"}]
  BY DEF SetShot
<1>2. RoundPhase' BY RoundChild DEF Child
<1>3. RoundView /\ RoundView'
  BY <1>2, RoundSeen, PTL
<1>4. /\ p \in Living /\ p \notin Shooters /\ target[p] \in Living \ {p}
  BY <1>1 DEF RoundPhase, Fighting, Fate, Fires, GonePcs, Living, Shooters
<1>5. \A q \in Children : /\ (q \in Living)' <=> q \in Living
                          /\ (q \in Shooters)' <=> q \in Shooters \/ q = p
  BY <1>1, <1>4, Shapes DEF Living, Shooters, Has
<1>6. Living' = Living BY <1>5 DEF Living
<1>7. Shooters' = Shooters \cup {p} BY <1>4, <1>5 DEF Shooters, Living
<1>8. Targets' = Targets \cup {target[p]} BY <1>1, <1>7 DEF Targets
<1>9. Cardinality(Living) > 1
  <2>1. Living = Children \ Dead BY DEF Living, Dead
  <2> QED BY <2>1 DEF RoundPhase
<1> QED BY <1>3, <1>4, <1>6, <1>7, <1>8, <1>9, SameCardinality
        DEF Game!Shoot, Game!Playing, RoundView

(* The parent finds that the round is over *)
LEMMA RoundResolves ==
    ASSUME Undisturbed, TypeInv, RoundPhase, Over, Ends
    PROVE  Game!Resolve
<1>1. QuietPhase' BY RoundEnds
<1>2. RoundView BY RoundSeen
<1>3. QuietView' BY <1>1, QuietSeen, PTL DEF Undisturbed
<1>4. UNCHANGED <<status, target, pc>> /\ ~Closing
  BY DEF Ends, Closing, ClosingPcs
<1>5. Shooters = Living BY DEF Shooters, Living, Over
<1>6. ASSUME NEW p \in Living PROVE Has(p, "DEAD_THIS_ROUND") <=> p \in Targets
  <2>1. ASSUME p \in Targets PROVE Has(p, "DEAD_THIS_ROUND")
    BY <2>1 DEF Targets, Shooters, Living, Over
  <2>2. ASSUME Has(p, "DEAD_THIS_ROUND") PROVE p \in Targets
    <3>1. Wounded(p) /\ ~Has(p, "DEAD") /\ p \in Children BY <2>2 DEF Wounded, Living
    <3>2. PICK q \in Children : Fires(q) /\ target[q] = p
      BY <1>4, <3>1 DEF RoundPhase, Struck
    <3>3. q \in Shooters BY <1>5, <3>2 DEF Fires, Living
    <3> QED BY <3>2, <3>3 DEF Targets
  <2> QED BY <2>1, <2>2
<1>7. Survivors = Living \ Targets BY <1>6 DEF Survivors
<1>8. Survivors' = Survivors BY <1>4 DEF Survivors, Living, Has
<1>9. Cardinality(Living) > 1
  <2>1. Living = Children \ Dead BY DEF Living, Dead
  <2> QED BY <2>1 DEF RoundPhase
<1> QED BY <1>2, <1>3, <1>5, <1>7, <1>8, <1>9, SameCardinality
        DEF Game!Resolve, Game!Playing, RoundView, QuietView

(* Nothing else is seen in a round *)
LEMMA RoundUnseen ==
    ASSUME Undisturbed, TypeInv, RoundPhase, [Next]_vars,
           ~(CheckRound /\ round_over), \A p \in Children : ~SetShot(p)
    PROVE  Unseen
<1>1. ASSUME NEW p \in Children
      PROVE  /\ "DEAD" \in status'[p] <=> "DEAD" \in status[p]
             /\ "SHOT" \in status'[p] <=> "SHOT" \in status[p]
             /\ "SHOT" \in status[p] => target'[p] = target[p]
  <2>1. CASE Parent \/ Interrupt
    BY <2>1 DEF Parent, Interrupt, Fork, ForkFails, AllCreated, CheckReady, WaitReady, Resolve,
       Decide, Signal, CheckRound, WaitRound, Dump, KillAll, ReleaseData, CheckUntil,
       Suspend, process, RoundPhase, ClosingPcs
  <2>2. ASSUME NEW q \in Children, Child(q)
        PROVE  /\ "DEAD" \in status'[p] <=> "DEAD" \in status[p]
               /\ "SHOT" \in status'[p] <=> "SHOT" \in status[p]
               /\ "SHOT" \in status[p] => target'[p] = target[p]
    <3>1. CASE p # q BY <2>2, <3>1, ChildFrame
    <3>2. CASE p = q
      <4>1. Fighting(q) /\ ~SetId(q) /\ ~BecomeReady(q) /\ ~SetShot(q)
        BY DEF RoundPhase, Fighting, Fate, SetId, BecomeReady
      <4>2. CASE Shoot(q)
        <5>1. UNCHANGED status /\ "SHOT" \notin status[q]
          BY <4>1, <4>2 DEF Shoot, Fighting, Has
        <5> QED BY <3>2, <5>1
      <4>3. CASE SetDead(q)
        <5>1. UNCHANGED target /\ status'[q] = status[q] \cup {"DEAD_THIS_ROUND"}
          BY <4>3, Shapes DEF SetDead
        <5> QED BY <3>2, <5>1
      <4>4. CASE ~Shoot(q) /\ ~SetDead(q)
        <5>1. UNCHANGED <<status, target>>
          BY <2>2, <4>1, <4>4 DEF Child, NotifyReady, NotifyShot, NotifyDead, Notify, CatchOrder,
             CatchShot, Catch, Exit, Killed, End, process
        <5> QED BY <5>1
      <4> QED BY <4>2, <4>3, <4>4
    <3> QED BY <3>1, <3>2
  <2>3. CASE UNCHANGED vars BY <2>3 DEF vars, process
  <2> QED BY <2>1, <2>2, <2>3 DEF Next, Done
<1>2. Living' = Living /\ Shooters' = Shooters BY <1>1 DEF Living, Shooters, Has
<1>3. Targets' = Targets BY <1>1, <1>2 DEF Targets, Shooters, Living, Has
<1>4. RoundPhase'
  <2>1. CASE Parent \/ Interrupt
    <3>1. CASE Dump \/ KillAll \/ ReleaseData \/ Interrupt
      BY <3>1, ParentCloses, RoundCloses
    <3>2. CASE ~(Dump \/ KillAll \/ ReleaseData \/ Interrupt)
      <4>1. ppc' \notin {"resolve", "decide"} \cup ClosingPcs
        BY <2>1, <3>2 DEF Parent, Fork, ForkFails, AllCreated, CheckReady, WaitReady, Resolve,
           Decide, Signal, Loop, CheckRound, WaitRound, CheckUntil, Suspend, RoundPhase, ClosingPcs
      <4> QED BY <2>1, <4>1, RoundParent DEF QuietPhase
    <3> QED BY <3>1, <3>2
  <2>2. CASE \E p \in Children : Child(p) BY <2>2, RoundChild
  <2>3. CASE UNCHANGED vars
    BY <2>3 DEF vars, parent, game, process, RoundPhase, Fighting, Struck, Fate, Fires, Wounded,
                Unordered, Exists, Dead, Closing, Over, Has
  <2> QED BY <2>1, <2>2, <2>3 DEF Next, Done
<1>5. RoundView BY RoundSeen
<1>6. RoundView' BY <1>4, RoundSeen, PTL
<1> QED BY <1>2, <1>3, <1>5, <1>6 DEF RoundView, Unseen

LEMMA GameNext ==
    ASSUME Undisturbed
    PROVE  Phases /\ [Next]_vars => [Game!Next]_(Game!vars)
<1> SUFFICES ASSUME Phases, [Next]_vars PROVE [Game!Next]_(Game!vars)
  OBVIOUS
<1>1. TypeInv BY DEF Phases
<1>2. Unseen => UNCHANGED Game!vars BY DEF Unseen, Game!vars
<1>3. \/ UNCHANGED vars
      \/ Parent \/ Interrupt
      \/ \E p \in Children : Child(p)
  BY DEF Next, Done
<1>4. UNCHANGED vars => Unseen
  BY DEF vars, parent, game, process, Unseen, gameAlive, gameShot, gameHit, Preparing, Resolving,
         Has
<1>5. CASE PrepPhase
  <2>1. Unseen \/ PrepPhase' \/ QuietPhase'
    BY <1>1, <1>3, <1>4, <1>5, PrepParent, PrepChild
  <2> QED BY <1>1, <1>2, <1>5, <2>1, PrepGame
<1>6. CASE QuietPhase
  <2>1. Unseen \/ QuietPhase' \/ RoundPhase'
    BY <1>1, <1>3, <1>4, <1>6, QuietParent, QuietChild
  <2> QED BY <1>1, <1>2, <1>6, <2>1, QuietGame
<1>7. CASE RoundPhase
  <2>1. CASE CheckRound /\ round_over
    BY <1>1, <1>7, <2>1, CheckEnds, RoundResolves DEF Game!Next
  <2>2. ASSUME NEW p \in Children, SetShot(p) PROVE Game!Next
    <3>1. Game!Shoot(p, target[p]) BY <1>1, <1>7, <2>2, RoundShot
    <3>2. target[p] \in Children
      BY <1>7, <2>2 DEF SetShot, RoundPhase, Fighting, Fires, Fate, GonePcs
    <3> QED BY <3>1, <3>2 DEF Game!Next
  <2> QED BY <1>1, <1>2, <1>7, <2>1, <2>2, RoundUnseen
<1> QED BY <1>5, <1>6, <1>7 DEF Phases

(* The parent and its children play the game of ShootingGame: everybody    *)
(* alive shoots once a round, at another one alive, even if it is shot      *)
(* before its own order comes; the round is resolved when all have shot and *)
(* those that were hit, and no others, die.  Whatever fork fails, and       *)
(* wherever the parent is interrupted but while it rewrites the statuses.    *)
THEOREM Refinement ==
    ASSUME Undisturbed
    PROVE  Spec => ImplementsGame
<1>1. Init => Game!Init
  <2>1. Init => PrepView
    BY DEF Init, PrepView, gameAlive, gameShot, gameHit, Preparing
  <2> QED BY <2>1 DEF PrepView, Game!Init
<1> QED BY <1>1, GameNext, PhasesHold, PTL DEF Spec, ImplementsGame, Game!Spec
-----------------------------------------------------------------------------
(* pistolos_deferredprint.c: the same steps, a round that ends in "print",  *)
(* and the turns of the loop that prints                                      *)

deferredVars == <<vars, printing>>

Printless == UNCHANGED <<released, usr2, game, process, pc, dying, pending, failed>>
RoundPrints == ppc = "check_round" /\ round_over /\ ppc' = "print" /\ next' = next /\ Printless
PrintsOn == ppc = "print" /\ ppc' = "print" /\ next' = next + 1 /\ next' \in Children /\ Printless
PrintsLast == ppc = "print" /\ ppc' = "resolve" /\ next = N - 1 /\ next' = 0 /\ Printless

(* Its steps are those of Pistolos, or change only where the parent is *)
LEMMA DeferredSteps ==
    ASSUME TypeInv, [DeferredNext]_deferredVars
    PROVE  [Next]_vars \/ RoundPrints \/ PrintsOn \/ PrintsLast
<1>1. CASE DeferredCheckRound
  <2>1. CASE round_over
    BY <1>1, <2>1 DEF DeferredCheckRound, CheckUntil, RoundPrints, Printless
  <2>2. CASE ~round_over
    BY <1>1, <2>2 DEF DeferredCheckRound, CheckUntil, Next, Parent, CheckRound
  <2> QED BY <2>1, <2>2
<1>2. CASE PrintShot
  <2>1. /\ ppc = "print" /\ Printless /\ next \in 0 .. N - 1
        /\ next' = IF next = N - 1 THEN 0 ELSE next + 1
        /\ ppc' = IF next = N - 1 THEN "resolve" ELSE "print"
    BY <1>2, Shapes DEF PrintShot, Loop, Printless, Children
  <2> QED BY <2>1, NAssumption DEF PrintsOn, PrintsLast, Children
<1>3. CASE DeferredParent /\ ~DeferredCheckRound /\ ~PrintShot
  BY <1>3 DEF DeferredParent, DeferredFork, DeferredForkFails, DeferredAllCreated,
     DeferredCheckReady, DeferredWaitReady, DeferredResolve, DeferredDecide, DeferredSignal,
     DeferredWaitRound, DeferredInterrupt, DeferredDump, DeferredKillAll, DeferredReleaseData,
     Next, Parent
<1>4. ASSUME NEW p \in Children, DeferredChild(p) PROVE Child(p)
  BY <1>4 DEF DeferredChild, DeferredSetId, DeferredBecomeReady, DeferredNotifyReady,
     DeferredCatchOrder, DeferredCatchShot, DeferredShoot, DeferredSetShot, DeferredNotifyShot,
     DeferredSetDead, DeferredNotifyDead, DeferredExit, DeferredKilled, Child
<1>5. CASE UNCHANGED deferredVars BY <1>5 DEF deferredVars
<1> QED BY <1>1, <1>2, <1>3, <1>4, <1>5 DEF DeferredNext, Next

(* The phases are those of Pistolos: to print is still the round *)
LEMMA PrintPhase ==
    ASSUME TypeInv, RoundPhase, RoundPrints \/ PrintsOn
    PROVE  TypeInv' /\ RoundPhase'
<1>1. /\ ppc \in {"check_round", "print"} /\ ppc' = "print" /\ Over
      /\ next' \in 0 .. N /\ next' # N /\ Printless
  BY OverWhenFound, Shapes, NAssumption DEF RoundPrints, PrintsOn, RoundPhase, Children, TypeInv
<1>2. UNCHANGED <<status, target, pc, dying, pending, alive_count, rounds>>
  BY <1>1 DEF Printless, process, game
<1>3. TypeInv'
  BY <1>1 DEF Printless, process, game, TypeInv
<1>4. Dead' = Dead /\ Over' /\ ~Closing /\ ~Closing'
  BY <1>1, <1>2 DEF Dead, Over, Has, Closing, ClosingPcs
<1>5. ASSUME NEW p \in Children PROVE Fighting(p)' /\ Struck(p)'
  <2>1. Fighting(p) /\ Struck(p) BY DEF RoundPhase
  <2>2. Fate(p)' BY <1>2, <1>4, <2>1 DEF Fighting, Fate, Has
  <2>3. (Fires(p)' <=> Fires(p)) /\ (Exists(p)' <=> Exists(p)) /\ (Unordered(p)' => Unordered(p))
    BY <1>1, <1>2 DEF Fires, Exists, Unordered, Has
  <2>4. Fighting(p)' BY <1>1, <1>2, <2>1, <2>2, <2>3 DEF Fighting, Has
  <2>5. Struck(p)' BY <1>2, <1>4, <2>1 DEF Struck, Wounded, Fires, Has
  <2> QED BY <2>4, <2>5
<1> QED BY <1>1, <1>2, <1>3, <1>4, <1>5 DEF RoundPhase

LEMMA PrintEnds ==
    ASSUME TypeInv, RoundPhase, PrintsLast
    PROVE  Over /\ Ends /\ TypeInv' /\ QuietPhase'
<1>1. Over /\ Ends BY DEF PrintsLast, RoundPhase, Printless, process, game, Ends
<1>2. TypeInv' BY NAssumption DEF PrintsLast, Printless, process, game, TypeInv, ParentPcs
<1> QED BY <1>1, <1>2, RoundEnds

LEMMA DeferredPhase ==
    ASSUME Phases, [DeferredNext]_deferredVars PROVE Phases'
<1>1. TypeInv BY DEF Phases
<1>2. CASE [Next]_vars BY <1>2, PhaseNext
<1>3. ASSUME RoundPrints \/ PrintsOn \/ PrintsLast PROVE RoundPhase
  BY <1>3 DEF Phases, PrepPhase, QuietPhase, RoundPrints, PrintsOn, PrintsLast, StartingPcs,
              Closing, ClosingPcs
<1> QED BY <1>1, <1>2, <1>3, DeferredSteps, PrintPhase, PrintEnds DEF Phases

LEMMA DeferredPhasesHold == DeferredSpec => []Phases
<1>1. DeferredInit => Phases BY TypeInit, InitPhase DEF Phases, DeferredInit
<1>2. Phases /\ [DeferredNext]_<<vars, printing>> => Phases'
  BY DeferredPhase DEF deferredVars
<1> QED BY <1>1, <1>2, PTL DEF DeferredSpec

(* Between the rounds of pistolos_deferredprint.c too nobody but the parent  *)
(* has a status to write, and whoever takes aim in it finds a target.         *)
THEOREM DeferredRounds == DeferredSpec => [](RoundsApart /\ FindsTarget)
BY PhasesApart, PhasesFind, DeferredPhasesHold, PTL

(* Whom the shots of this round are of, as the memory says, and what of it *)
(* has been printed                                                          *)
Fired == {<<p, target[p]>> : p \in {q \in Children : Fires(q)}}
Recorded ==
    /\ ppc \in StartingPcs => shots = {} /\ lines = {}
    /\ ppc \in {"signal", "check_round", "wait_round"} => shots = Fired /\ lines = {}
    /\ ppc = "print" => shots = Fired /\ lines = {x \in shots : x[1] < next}
    /\ ppc \in {"resolve", "decide"} => lines = shots

(* A step of a child that is not a shot leaves who fires alone *)
LEMMA FiresKept ==
    ASSUME TypeInv, RoundPhase, ~Closing, NEW p \in Children, Child(p), ~Shoot(p)
    PROVE  Fired' = Fired
<1>1. /\ Fighting(p) /\ Fate(p)
      /\ \A q \in Children \ {p} : pc'[q] = pc[q] /\ status'[q] = status[q]
                                   /\ target'[q] = target[q]
  BY ChildFrame DEF RoundPhase, Fighting
<1>2. /\ ~SetId(p) /\ ~BecomeReady(p)
      /\ Killed(p) => FALSE
      /\ pc[p] = "exit" => Has(p, "SHOT")
  BY <1>1 DEF SetId, BecomeReady, Killed, Fate
<1>3. UNCHANGED target /\ (Fires(p)' <=> Fires(p))
  BY <1>2, Shapes DEF Child, NotifyReady, NotifyShot, NotifyDead, Notify, CatchOrder,
     CatchShot, Catch, SetShot, SetDead, Exit, End, Goto, process, Fires, Has
<1>4. \A q \in Children : Fires(q)' <=> Fires(q) BY <1>1, <1>3 DEF Fires, Has
<1> QED BY <1>3, <1>4 DEF Fired

LEMMA FiresMore ==
    ASSUME TypeInv, RoundPhase, NEW p \in Children, Shoot(p)
    PROVE  Fired' = Fired \cup {<<p, target'[p]>>} /\ ~Over
<1>1. /\ pc[p] = "aim" /\ pc' = [pc EXCEPT ![p] = "shot"] /\ UNCHANGED status
      /\ \A q \in Children \ {p} : target'[q] = target[q]
  BY Shapes DEF Shoot, Goto
<1>2. ~Has(p, "SHOT") /\ ~Has(p, "DEAD")
  BY <1>1 DEF RoundPhase, Fighting, Fate, GonePcs
<1>3. ~Fires(p) /\ Fires(p)' BY <1>1, <1>2, Shapes DEF Fires, Has
<1>4. \A q \in Children \ {p} : Fires(q)' <=> Fires(q) BY <1>1, Shapes DEF Fires, Has
<1>5. {q \in Children : Fires(q)}' = {q \in Children : Fires(q)} \cup {p} BY <1>3, <1>4
<1> QED BY <1>1, <1>2, <1>3, <1>5 DEF Fired, Over

LEMMA RecordedChild ==
    ASSUME Phases, Recorded, NEW p \in Children, DeferredChild(p)
    PROVE  Recorded'
<1>1. /\ TypeInv /\ Child(p)
      /\ \/ ~Shoot(p) /\ UNCHANGED printing
         \/ Shoot(p) /\ shots' = shots \cup {<<p, target'[p]>>} /\ UNCHANGED lines
  <2>1. TypeInv /\ Child(p)
    BY DEF Phases, DeferredChild, DeferredSetId, DeferredBecomeReady, DeferredNotifyReady,
       DeferredCatchOrder, DeferredCatchShot, DeferredShoot, DeferredSetShot, DeferredNotifyShot,
       DeferredSetDead, DeferredNotifyDead, DeferredExit, DeferredKilled, Child
  <2>2. CASE DeferredShoot(p) BY <2>1, <2>2 DEF DeferredShoot
  <2>3. CASE ~DeferredShoot(p)
    <3>1. UNCHANGED printing
      BY <2>3 DEF DeferredChild, DeferredSetId, DeferredBecomeReady, DeferredNotifyReady,
         DeferredCatchOrder, DeferredCatchShot, DeferredSetShot, DeferredNotifyShot,
         DeferredSetDead, DeferredNotifyDead, DeferredExit, DeferredKilled
    <3>2. ~Shoot(p)
      <4>1. pc'[p] = "shot" => pc[p] = "shot"
        BY <2>1, <2>3, Shapes DEF DeferredChild, DeferredSetId, DeferredBecomeReady, DeferredNotifyReady,
           DeferredCatchOrder, DeferredCatchShot, DeferredSetShot, DeferredNotifyShot,
           DeferredSetDead, DeferredNotifyDead, DeferredExit, DeferredKilled, SetId, BecomeReady,
           NotifyReady, NotifyShot, NotifyDead, Notify, CatchOrder, CatchShot, Catch, SetShot,
           SetDead, Exit, Killed, End, Goto
      <4>2. Shoot(p) => pc[p] = "aim" /\ pc'[p] = "shot" BY <2>1, Shapes DEF Shoot, Goto
      <4> QED BY <4>1, <4>2
    <3> QED BY <2>1, <3>1, <3>2
  <2> QED BY <2>2, <2>3
<1>2. UNCHANGED <<ppc, next>> BY <1>1, ChildFrame DEF parent
<1>3. CASE RoundPhase /\ ~Closing
  <2>1. ppc \in {"signal", "check_round", "wait_round", "print"}
    BY <1>3 DEF RoundPhase, Closing
  <2>2. CASE ~Shoot(p)
    <3>1. Fired' = Fired /\ UNCHANGED printing BY <1>1, <1>3, <2>2, FiresKept
    <3> QED BY <1>2, <2>1, <3>1 DEF Recorded, printing, StartingPcs
  <2>3. CASE Shoot(p)
    <3>1. Fired' = Fired \cup {<<p, target'[p]>>} /\ ppc # "print"
      BY <1>1, <1>3, <2>3, FiresMore DEF RoundPhase
    <3> QED BY <1>1, <1>2, <2>1, <2>3, <3>1 DEF Recorded, printing, StartingPcs
  <2> QED BY <2>2, <2>3
<1>4. CASE Closing BY <1>2, <1>4 DEF Closing, ClosingPcs, Recorded, StartingPcs
<1>5. CASE (PrepPhase \/ QuietPhase) /\ ~Closing
  <2>1. pc[p] # "aim" BY <1>5 DEF PrepPhase, Prepared, QuietPhase, Settled, Fate, GonePcs
  <2>2. UNCHANGED printing BY <1>1, <2>1 DEF Shoot
  <2>3. ppc \in StartingPcs \cup {"resolve", "decide"} BY <1>5 DEF PrepPhase, QuietPhase, Closing
  <2> QED BY <1>2, <2>2, <2>3 DEF Recorded, printing, StartingPcs
<1> QED BY <1>3, <1>4, <1>5 DEF Phases

LEMMA RecordedPrint ==
    ASSUME Phases, Recorded, PrintShot
    PROVE  Recorded'
<1>1. /\ ppc = "print" /\ UNCHANGED <<status, target, pc, shots>>
      /\ lines' = IF ~Has(next, "DEAD") THEN lines \cup {<<next, target[next]>>} ELSE lines
      /\ next' = IF next = N - 1 THEN 0 ELSE next + 1
      /\ ppc' = IF next = N - 1 THEN "resolve" ELSE "print"
  BY DEF PrintShot, Prints, Loop, process
<1>2. TypeInv /\ RoundPhase /\ Over
  BY <1>1 DEF Phases, PrepPhase, QuietPhase, RoundPhase, StartingPcs, Closing, ClosingPcs
<1>3. next \in Children /\ next \in 0 .. N - 1 /\ N \in Nat
  BY <1>1, <1>2, Shapes, NAssumption DEF Children
<1>4. shots = Fired /\ lines = {x \in shots : x[1] < next} BY <1>1 DEF Recorded
<1>5. Fires(next) <=> ~Has(next, "DEAD") BY <1>2, <1>3 DEF Fires, Over
<1>6. Fired' = Fired BY <1>1 DEF Fired, Fires, Has
<1>7. lines' = {x \in shots : x[1] < next + 1}
  <2>1. ASSUME NEW q \in Children, Fires(q)
        PROVE  <<q, target[q]>> \in lines' <=> q < next + 1
    <3>1. <<q, target[q]>> \in lines <=> q < next
      <4>1. <<q, target[q]>> \in Fired BY <2>1 DEF Fired
      <4> QED BY <1>4, <4>1
    <3>2. q < next + 1 <=> q < next \/ q = next BY <1>3 DEF Children
    <3> QED BY <1>1, <1>5, <2>1, <3>1, <3>2
  <2>2. lines' \subseteq shots
    <3>1. Fires(next) => <<next, target[next]>> \in Fired BY <1>3 DEF Fired
    <3> QED BY <1>1, <1>4, <1>5, <3>1
  <2>3. \A x \in shots : \E q \in Children : Fires(q) /\ x = <<q, target[q]>>
    BY <1>4 DEF Fired
  <2> QED BY <2>1, <2>2, <2>3
<1>8. CASE next = N - 1
  <2>1. \A x \in shots : x[1] < next + 1
    <3>1. \A x \in shots : x[1] \in Children BY <1>4 DEF Fired
    <3> QED BY <1>3, <1>8, <3>1 DEF Children
  <2>2. lines' = shots' BY <1>1, <1>7, <2>1
  <2>3. ppc' = "resolve" BY <1>1, <1>8
  <2> QED BY <2>2, <2>3 DEF Recorded, StartingPcs
<1>9. CASE next # N - 1
  <2>1. ppc' = "print" /\ next' = next + 1 BY <1>1, <1>9
  <2> QED BY <1>1, <1>4, <1>6, <1>7, <2>1 DEF Recorded, StartingPcs
<1> QED BY <1>8, <1>9

LEMMA RecordedParent ==
    ASSUME Phases, Recorded, DeferredParent
    PROVE  Recorded'
<1>1. CASE DeferredFork \/ DeferredAllCreated \/ DeferredCheckReady \/ DeferredWaitReady
  <2>1. /\ ppc \in StartingPcs /\ ppc' \in StartingPcs \cup {"resolve"} /\ UNCHANGED printing
    BY <1>1 DEF DeferredFork, DeferredAllCreated, DeferredCheckReady, DeferredWaitReady, Fork,
       AllCreated, CheckReady, WaitReady, CheckUntil, Suspend, StartingPcs
  <2> QED BY <2>1 DEF Recorded, printing, StartingPcs
<1>2. CASE DeferredForkFails \/ DeferredInterrupt \/ DeferredDump \/ DeferredKillAll
           \/ DeferredReleaseData
  <2>1. ppc' \in ClosingPcs
    BY <1>2 DEF DeferredForkFails, DeferredInterrupt, DeferredDump, DeferredKillAll,
       DeferredReleaseData, ForkFails, Interrupt, Dump, KillAll, Loop, AfterKills, ReleaseData,
       ClosingPcs
  <2> QED BY <2>1 DEF Recorded, ClosingPcs, StartingPcs
<1>3. CASE DeferredResolve
  <2>1. ppc = "resolve" /\ ppc' \in {"resolve", "decide"} /\ UNCHANGED printing
    BY <1>3 DEF DeferredResolve, Resolve, Loop
  <2> QED BY <2>1 DEF Recorded, printing, StartingPcs
<1>4. CASE DeferredDecide
  <2>1. /\ ppc = "decide" /\ ppc' \in {"kill_all", "signal"} /\ shots' = {} /\ lines' = {}
        /\ UNCHANGED <<status, target, pc>>
    BY <1>4 DEF DeferredDecide, Decide, process
  <2>2. QuietPhase
    BY <2>1 DEF Phases, PrepPhase, RoundPhase, StartingPcs, Closing, ClosingPcs
  <2>3. \A p \in Children : ~Fires(p)
    BY <2>1, <2>2 DEF QuietPhase, Settled, Fate, Fires, Has, GonePcs
  <2>4. Fired' = {} BY <2>1, <2>3 DEF Fired, Fires, Has
  <2> QED BY <2>1, <2>4 DEF Recorded, StartingPcs
<1>5. CASE DeferredSignal \/ DeferredWaitRound \/ DeferredCheckRound
  <2>1. /\ ppc \in {"signal", "check_round", "wait_round"}
        /\ ppc' \in {"signal", "check_round", "wait_round", "print"}
        /\ ppc' = "print" => ppc = "check_round" /\ next' = next
        /\ UNCHANGED <<status, target, pc, printing>>
    BY <1>5 DEF DeferredSignal, DeferredWaitRound, DeferredCheckRound, Signal, WaitRound, Loop,
       CheckUntil, Suspend, process
  <2>2. Fired' = Fired BY <2>1 DEF Fired, Fires, Has
  <2>3. CASE ppc' = "print"
    <3>1. next' = 0 BY <2>1, <2>3 DEF Phases, TypeInv
    <3>2. \A x \in Fired : ~(x[1] < 0) BY DEF Fired, Children
    <3> QED BY <2>1, <2>2, <2>3, <3>1, <3>2 DEF Recorded, printing, StartingPcs
  <2>4. CASE ppc' # "print"
    BY <2>1, <2>2, <2>4 DEF Recorded, printing, StartingPcs
  <2> QED BY <2>3, <2>4
<1> QED BY <1>1, <1>2, <1>3, <1>4, <1>5, RecordedPrint DEF DeferredParent

(* When the parent has printed a round, what it printed is every shot of it *)
(* and nothing else, although it reads the targets later and while the       *)
(* children still write their statuses.                                       *)
THEOREM WhatIsPrinted == DeferredSpec => []PrintsTheShots
<1>1. DeferredInit => Recorded
  BY DEF DeferredInit, Init, Recorded, StartingPcs
<1>2. Phases /\ Recorded /\ [DeferredNext]_<<vars, printing>> => Recorded'
  <2>1. UNCHANGED <<vars, printing>> /\ Recorded => Recorded'
    BY DEF vars, printing, parent, game, process, Recorded, Fired, Fires, Has
  <2> QED BY <2>1, RecordedParent, RecordedChild DEF DeferredNext
<1>3. Recorded => PrintsTheShots BY DEF Recorded, PrintsTheShots
<1> QED BY <1>1, <1>2, <1>3, DeferredPhasesHold, PTL DEF DeferredSpec

(* The game of pistolos_deferredprint.c is the one of pistolos.c: who prints *)
(* the shots, and when, is of no account to it.                               *)
THEOREM DeferredRefinement ==
    ASSUME Undisturbed
    PROVE  DeferredSpec => ImplementsGame
<1>1. DeferredInit => Game!Init
  <2>1. Init => PrepView
    BY DEF Init, PrepView, gameAlive, gameShot, gameHit, Preparing
  <2> QED BY <2>1 DEF PrepView, Game!Init, DeferredInit
<1>2. Phases /\ [DeferredNext]_<<vars, printing>> => [Game!Next]_(Game!vars)
  <2> SUFFICES ASSUME Phases, [DeferredNext]_deferredVars PROVE [Game!Next]_(Game!vars)
    BY DEF deferredVars
  <2>1. TypeInv BY DEF Phases
  <2>2. CASE [Next]_vars BY <2>2, GameNext
  <2>3. ASSUME RoundPrints \/ PrintsOn \/ PrintsLast PROVE RoundPhase
    BY <2>3 DEF Phases, PrepPhase, QuietPhase, RoundPrints, PrintsOn, PrintsLast, StartingPcs,
                Closing, ClosingPcs
  <2>4. CASE RoundPrints \/ PrintsOn
    <3>1. UNCHANGED <<status, target, rounds>>
          /\ ppc \notin {"resolve", "decide"} /\ ppc' \notin {"resolve", "decide"}
      BY <2>4 DEF RoundPrints, PrintsOn, Printless, process, game
    <3>2. Unseen
      BY <3>1 DEF Unseen, gameAlive, gameShot, gameHit, Preparing, Resolving, Has
    <3> QED BY <3>2 DEF Unseen, Game!vars
  <2>5. CASE PrintsLast
    <3>1. Over /\ Ends /\ RoundPhase BY <2>1, <2>3, <2>5, PrintEnds
    <3> QED BY <2>1, <3>1, RoundResolves DEF Game!Next
  <2> QED BY <2>1, <2>2, <2>4, <2>5, DeferredSteps
<1> QED BY <1>1, <1>2, DeferredPhasesHold, PTL DEF DeferredSpec, ImplementsGame, Game!Spec
=============================================================================
