---------------------------- MODULE Pist3_proofs ----------------------------
(***************************************************************************)
(* Theorems about Pist3, for every choice of the library.  The two         *)
(* semaphores of a round are not enough to keep the rounds apart: a thread *)
(* that died in the last one and has not taken its unit leaves it to       *)
(* another.  With at most four threads that does no harm: at least two die *)
(* in each round, so that nobody survives the second.  With more, all is   *)
(* well until the second round begins; an instance of five shows what      *)
(* happens then.                                                           *)
(***************************************************************************)
EXTENDS Pist3, FiniteSetTheorems, WellFoundedInduction, TLAPS

At(l) == {p \in Players : pc[p] \in l}
Readies == {{"READY"}, {"READY", "DEAD_THIS_ROUND"}}
Spared(p) == statuses[p] = {"READY"}

(* A step that lets everybody go on to count the dead finds at most four    *)
(* threads, or nobody who has yet to take a unit of the round before         *)
InTime ==
    (\E p \in Players : ReleaseShot(p))
        => N <= 4 \/ \A q \in Players : pc[q] # "wait_received"

(* Until main has gathered a signal of each thread *)
Unready == At({"none", "start", "new_shooter", "signal_ready"})

Preparing(p) ==
    /\ pc[p] \in {"none", "start", "new_shooter", "signal_ready", "wait_ready"}
    /\ pc[p] = "none" <=> p >= created
    /\ pc[p] \in {"new_shooter", "signal_ready", "wait_ready"} => Spared(p)
    /\ p \in in_game <=> pc[p] \in {"signal_ready", "wait_ready"}
StartPhase ==
    /\ mpc \in {"create", "gather", "release"}
    /\ mpc = "create" <=> created < N
    /\ mpc = "create" => pending = N
    /\ mpc = "gather" => pending > 0
    /\ mpc = "release" => pending = 0
    /\ semaphores[0] + Cardinality(Unready) = pending
    /\ semaphores[1] = 0 /\ semaphores[2] = 0
    /\ alive_count = N /\ last_thread = N
    /\ \A p \in Players : Preparing(p)

(* The shooting.  Those that have still to take a unit of the last pass are *)
(* as many as its units; the last of the living gathers a signal of each.    *)
(* Whoever has shot has hit another; the dead have died at least in pairs.   *)
Stragglers == At({"wait_ready", "wait_received"})
HasSignalled == {"gather_shot", "release_shot", "wait_shot"}
Signalled == {p \in Undead : pc[p] \in HasSignalled}
Unsignalled == Undead \ Signalled
Engaged == ShootPcs \cup HasSignalled

GathersShots(p) ==
    /\ pc[p] = "gather_shot" => semaphores[0] + Cardinality(Unsignalled) = left[p]
    /\ pc[p] = "release_shot" => semaphores[0] = 0 /\ Unsignalled = {}
    /\ pc[p] \notin {"gather_shot", "release_shot"}
          => semaphores[0] + Cardinality(Unsignalled) = Cardinality(Undead)
    /\ pc[p] \in Engaged => this_round[p] = Cardinality(Undead)
    /\ pc[p] # "wait_shot"
Living(p) ==
    /\ pc[p] \in {"wait_ready", "wait_received", "round", "returned"} \cup Engaged
    /\ statuses[p] \in Readies
    /\ pc[p] \in Engaged => Cardinality(Undead) > 1 /\ (im_coordinator[p] <=> IsCoordinator(p))
    /\ pc[p] \in {"gather_shot", "release_shot"} => IsCoordinator(p)
    /\ pc[p] \in {"load", "store", "signal_shot"} \cup HasSignalled
          => target[p] \in Undead \ {p}
    /\ pc[p] = "store" => seen[p] \in Readies
    /\ pc[p] \in {"signal_shot"} \cup HasSignalled => ~Spared(target[p])
    /\ pc[p] = "returned" => last_thread = p
Shooting(p) ==
    /\ p \notin Undead => pc[p] \in {"wait_received", "returned"}
    /\ p \in Undead => Living(p)
    /\ IsCoordinator(p) => GathersShots(p)
ShootPhase ==
    /\ mpc \in {"join", "done"}
    /\ mpc = "done" => \A p \in Players : pc[p] = "returned"
    /\ semaphores[1] = 0
    /\ semaphores[2] = Cardinality(Stragglers)
    /\ in_game = Undead /\ alive_count = Cardinality(Undead)
    /\ last_thread # N => Undead = {last_thread} /\ pc[last_thread] = "returned"
    /\ Undead = Players \/ \E p, q \in Players \ Undead : p # q
    /\ \A p \in Players : Shooting(p)

(* The count of the dead: the coordinator gathers a signal of each of those *)
(* that have played the round.  A unit may be left of the last pass only     *)
(* when all of them die.                                                      *)
Unreceived == At({"wait_shot", "check", "die", "uncount", "signal_received"})
HasReceived == {"gather_received", "release_received", "wait_received"}
Remaining == {p \in Players : pc[p] # "returned"}
Coordinates(p) == im_coordinator[p] /\ pc[p] \notin {"wait_received", "returned"}

GathersReceived(p) ==
    /\ \A q \in Players : Coordinates(q) => q = p
    /\ semaphores[2] + this_round[p] = Cardinality(Remaining)
    /\ pc[p] = "gather_received" => semaphores[0] + Cardinality(Unreceived) = left[p]
    /\ pc[p] = "release_received" => semaphores[0] = 0 /\ Unreceived = {}
    /\ pc[p] \notin {"gather_received", "release_received"}
          => semaphores[0] + Cardinality(Unreceived) = this_round[p]
Counting(p) ==
    /\ pc[p] \in {"wait_shot", "wait_received", "returned"} \cup CountPcs
    /\ pc[p] \in {"wait_shot", "check", "die"} => statuses[p] \in Readies
    /\ pc[p] = "die" => ~Spared(p)
    /\ pc[p] \in {"uncount", "returned"} => p \notin Undead
    /\ pc[p] \in {"signal_received"} \cup HasReceived => Spared(p) \/ p \notin Undead
    /\ pc[p] \in {"gather_received", "release_received"} => im_coordinator[p]
CountPhase ==
    /\ mpc = "join"
    /\ semaphores[1] = Cardinality(At({"wait_shot"}))
    /\ semaphores[2] > 0 => \A p \in Players : ~Spared(p)
    /\ alive_count = Cardinality(Undead) + Cardinality(At({"uncount"}))
    /\ in_game = Undead \cup At({"uncount"})
    /\ last_thread = N
    /\ \E p, q \in Players : p # q /\ ~Spared(p) /\ ~Spared(q)
    /\ \E p \in Players : Coordinates(p)
    /\ \A p \in Players : Counting(p) /\ (Coordinates(p) => GathersReceived(p))

Phases == TypeOK /\ (StartPhase \/ ShootPhase \/ CountPhase)
-----------------------------------------------------------------------------
(* Sets of players *)
LEMMA Counts ==
    ASSUME NEW S \in SUBSET Players
    PROVE  /\ Cardinality(S) \in 0 .. N
           /\ Cardinality(S) = 0 <=> S = {}
           /\ \A p \in S : Cardinality(S \ {p}) = Cardinality(S) - 1
           /\ \A p \in Players \ S : Cardinality(S \cup {p}) = Cardinality(S) + 1
           /\ Cardinality(S) = 1 <=> \E p \in S : S = {p}
           /\ Cardinality(Players) = N
<1>1. IsFiniteSet(Players) /\ Cardinality(Players) = N
  <2>1. IsFiniteSet(0 .. N - 1) /\ Cardinality(0 .. N - 1) = N - 1 - 0 + 1
    BY NAssumption, FS_Interval
  <2> QED BY <2>1, NAssumption DEF Players
<1>2. IsFiniteSet(S) /\ Cardinality(S) \in Nat /\ Cardinality(S) <= N
  BY <1>1, FS_Subset, FS_CardinalityType
<1>3. Cardinality(S) = 0 <=> S = {} BY <1>2, FS_EmptySet
<1>4. \A p \in S : Cardinality(S \ {p}) = Cardinality(S) - 1
  BY <1>2, FS_RemoveElement
<1>5. \A p \in Players \ S : Cardinality(S \cup {p}) = Cardinality(S) + 1
  BY <1>2, FS_AddElement
<1>6. Cardinality(S) = 1 <=> \E p \in S : S = {p} BY <1>2, FS_Singleton
<1> QED BY <1>1, <1>2, <1>3, <1>4, <1>5, <1>6, NAssumption

(* The last of the living is one of them *)
LEMMA SomeCoordinator == Undead # {} => \E p \in Players : IsCoordinator(p)
<1> SUFFICES ASSUME Undead # {} PROVE \E p \in Players : IsCoordinator(p)
  OBVIOUS
<1> DEFINE Below == {n \in Nat : \E p \in Undead : n = N - p}
<1>1. Undead \subseteq Players /\ Players \subseteq Nat /\ \A p \in Players : N - p \in Nat
  BY NAssumption DEF Undead, Players
<1>2. Below # {} /\ Below \subseteq Nat BY <1>1
<1>3. PICK n \in Below : \A k \in Below : <<k, n>> \notin OpToRel(<, Nat)
  <2> HIDE DEF Below
  <2> QED BY <1>2, NatLessThanWellFounded, WFMin
<1>4. \A k \in Below : ~(k < n)
  BY <1>2, <1>3 DEF OpToRel
<1>5. PICK p \in Undead : n = N - p BY <1>3
<1>6. \A q \in Undead : N - q \in Below /\ ~(N - q < N - p)
  BY <1>1, <1>4, <1>5
<1>7. \A q \in Undead : q <= p
  BY <1>1, <1>6, NAssumption DEF Players
<1> QED BY <1>1, <1>7 DEF IsCoordinator

LEMMA TwoAlive ==
    ASSUME NEW p \in Undead, NEW q \in Undead, p # q
    PROVE  Cardinality(Undead) > 1
<1>1. Undead \in SUBSET Players BY DEF Undead
<1>2. Cardinality(Undead) # 0 /\ Cardinality(Undead) # 1 BY <1>1, Counts
<1> QED BY <1>1, <1>2, Counts

(* Two that are not among the living leave, of four at most, two *)
LEMMA TwoDead ==
    ASSUME NEW p \in Players \ Undead, NEW q \in Players \ Undead, p # q
    PROVE  Cardinality(Undead) <= N - 2
<1>1. /\ Undead \in SUBSET Players /\ Undead \cup {p} \in SUBSET Players
      /\ (Undead \cup {p}) \cup {q} \in SUBSET Players
      /\ p \in Players \ Undead /\ q \in Players \ (Undead \cup {p})
  BY DEF Undead
<1>2. /\ Cardinality(Undead) \in 0 .. N
      /\ Cardinality(Undead \cup {p}) = Cardinality(Undead) + 1
  BY <1>1, Counts
<1>3. Cardinality((Undead \cup {p}) \cup {q}) = Cardinality(Undead \cup {p}) + 1
  BY <1>1, Counts
<1>4. Cardinality((Undead \cup {p}) \cup {q}) \in 0 .. N
  BY <1>1, Counts
<1> QED BY <1>2, <1>3, <1>4, NAssumption

LEMMA ThreeAlive ==
    ASSUME NEW p \in Undead, NEW q \in Undead, NEW r \in Undead, p # q, q # r, p # r
    PROVE  Cardinality(Undead) > 2
<1>1. /\ Undead \in SUBSET Players /\ Undead \ {p} \in SUBSET Players
      /\ q \in Undead \ {p} /\ r \in (Undead \ {p}) \ {q} /\ (Undead \ {p}) \ {q} \in SUBSET Players
  BY DEF Undead
<1>2. /\ Cardinality(Undead) \in 0 .. N
      /\ Cardinality(Undead \ {p}) = Cardinality(Undead) - 1
  BY <1>1, Counts
<1>3. Cardinality((Undead \ {p}) \ {q}) = Cardinality(Undead \ {p}) - 1
  BY <1>1, Counts
<1>4. Cardinality((Undead \ {p}) \ {q}) # 0 /\ Cardinality((Undead \ {p}) \ {q}) \in 0 .. N
  BY <1>1, Counts
<1> QED BY <1>2, <1>3, <1>4, NAssumption

LEMMA CountUnion ==
    ASSUME NEW S \in SUBSET Players, NEW T \in SUBSET Players, S \cap T = {}
    PROVE  Cardinality(S \cup T) = Cardinality(S) + Cardinality(T)
<1>1. IsFiniteSet(Players) BY NAssumption, FS_Interval DEF Players
<1>2. IsFiniteSet(S) /\ IsFiniteSet(T) BY <1>1, FS_Subset
<1>3. Cardinality(S) \in Nat /\ Cardinality(T) \in Nat BY Counts, NAssumption
<1>4. Cardinality(S \cup T) = Cardinality(S) + Cardinality(T) - Cardinality({})
  BY <1>2, FS_Union
<1>5. Cardinality({}) = 0 BY FS_EmptySet
<1> QED BY <1>3, <1>4, <1>5

LEMMA Shapes ==
    ASSUME TypeOK
    PROVE  /\ mpc \in {"create", "gather", "release", "join", "done"}
           /\ created \in 0 .. N /\ pending \in 0 .. N /\ N \in Nat \ {0}
           /\ semaphores \in [0 .. 2 -> 0 .. N] /\ 0 \in 0 .. 2 /\ 1 \in 0 .. 2 /\ 2 \in 0 .. 2
           /\ alive_count \in 0 .. N /\ rounds \in Nat /\ last_thread \in 0 .. N
           /\ statuses \in [Players -> SUBSET Bits] /\ in_game \subseteq Players
           /\ pc \in [Players -> ThreadPcs] /\ im_coordinator \in [Players -> BOOLEAN]
           /\ this_round \in [Players -> 0 .. N] /\ left \in [Players -> 0 .. N]
           /\ target \in [Players -> 0 .. N] /\ seen \in [Players -> SUBSET Bits]
           /\ \A p \in Players : p \in 0 .. N /\ p # N
<1>1. N \in Nat \ {0} /\ \A p \in Players : p \in 0 .. N /\ p # N
  BY NAssumption DEF Players
<1>2. 0 \in 0 .. 2 /\ 1 \in 0 .. 2 /\ 2 \in 0 .. 2
  OBVIOUS
<1> QED BY <1>1, <1>2 DEF TypeOK

(* The sets whose members are counted *)
LEMMA Subsets ==
    /\ Undead \in SUBSET Players /\ Signalled \in SUBSET Players
    /\ Unsignalled \in SUBSET Players /\ Unready \in SUBSET Players
    /\ Stragglers \in SUBSET Players /\ Unreceived \in SUBSET Players
    /\ Remaining \in SUBSET Players /\ \A l : At(l) \in SUBSET Players
BY DEF Undead, Signalled, Unsignalled, Unready, Stragglers, Unreceived, Remaining, At
-----------------------------------------------------------------------------
(* The start *)
LEMMA InitPhase == Init => Phases
<1> SUFFICES ASSUME Init PROVE Phases
  OBVIOUS
<1> USE NAssumption
<1>1. TypeOK
  <2>1. 0 \in 0 .. N /\ N \in 0 .. N /\ \A s \in 0 .. 2 : 0 \in 0 .. N
    OBVIOUS
  <2>2. /\ semaphores \in [0 .. 2 -> 0 .. N] /\ statuses \in [Players -> SUBSET Bits]
        /\ pc \in [Players -> ThreadPcs] /\ im_coordinator \in [Players -> BOOLEAN]
        /\ this_round \in [Players -> 0 .. N] /\ left \in [Players -> 0 .. N]
        /\ target \in [Players -> 0 .. N] /\ seen \in [Players -> SUBSET Bits]
    BY <2>1 DEF Init, ThreadPcs
  <2> QED BY <2>1, <2>2 DEF TypeOK, Init
<1>2. StartPhase
  <2>1. Unready = Players BY DEF Unready, At, Init
  <2>2. semaphores[0] = 0 /\ semaphores[1] = 0 /\ semaphores[2] = 0 BY DEF Init
  <2>3. 0 + Cardinality(Unready) = N BY <2>1, Counts
  <2>4. \A p \in Players : Preparing(p) BY DEF Preparing, Init, Players
  <2> QED BY <2>2, <2>3, <2>4 DEF StartPhase, Init
<1> QED BY <1>1, <1>2 DEF Phases

LEMMA StartCreates ==
    ASSUME TypeOK, StartPhase, CreateThread
    PROVE  TypeOK' /\ StartPhase'
<1> USE Shapes DEF local
<1>1. created \in Players /\ created' = created + 1 /\ created' \in 0 .. N
  BY DEF StartPhase, CreateThread, Players
<1>2. /\ statuses' = [statuses EXCEPT ![created] = {"DEAD"}]
      /\ pc' = [pc EXCEPT ![created] = "start"]
      /\ mpc' = IF created' = N THEN "gather" ELSE "create"
      /\ UNCHANGED <<pending, semaphores, alive_count, rounds, last_thread, in_game,
                     im_coordinator, this_round, left, target, seen>>
  BY DEF CreateThread
<1>3. TypeOK'
  <2>1. {"DEAD"} \in SUBSET Bits /\ "start" \in ThreadPcs BY DEF Bits, ThreadPcs
  <2>2. statuses' \in [Players -> SUBSET Bits] /\ pc' \in [Players -> ThreadPcs]
    BY <1>1, <1>2, <2>1
  <2> HIDE Shapes
  <2> QED BY <1>1, <1>2, <2>2 DEF TypeOK
<1>4. Unready' = Unready
  <2>1. pc[created] = "none" BY <1>1 DEF StartPhase, Preparing
  <2> QED BY <1>1, <1>2, <2>1 DEF Unready, At
<1>5. \A p \in Players : Preparing(p)'
  <2> SUFFICES ASSUME NEW p \in Players PROVE Preparing(p)'
    OBVIOUS
  <2>1. CASE p = created
    BY <1>1, <1>2, <2>1 DEF StartPhase, Preparing
  <2>2. CASE p # created
    <3>1. p >= created' <=> p >= created
      BY <1>1, <2>2 DEF Players
    <3>2. pc'[p] = pc[p] /\ Spared(p)' = Spared(p)
      BY <1>1, <1>2, <2>2 DEF Spared
    <3>3. Preparing(p) BY DEF StartPhase
    <3> HIDE Shapes
    <3> QED BY <1>2, <3>1, <3>2, <3>3 DEF Preparing
  <2> QED BY <2>1, <2>2
<1>6. /\ mpc' \in {"create", "gather"} /\ (mpc' = "create" <=> created' < N)
      /\ pending = N
  BY <1>1, <1>2 DEF StartPhase, CreateThread
<1> HIDE Shapes
<1>7. pending > 0 BY <1>6, NAssumption
<1> QED BY <1>2, <1>3, <1>4, <1>5, <1>6, <1>7 DEF StartPhase

LEMMA StartGathers ==
    ASSUME TypeOK, StartPhase, GatherReady
    PROVE  TypeOK' /\ StartPhase'
<1> USE Shapes DEF local
<1>1. /\ semaphores[0] > 0 /\ semaphores' = [semaphores EXCEPT ![0] = @ - 1]
      /\ pending > 0 /\ pending' = pending - 1
      /\ mpc' = IF pending' = 0 THEN "release" ELSE "gather"
      /\ UNCHANGED <<created, alive_count, rounds, last_thread, statuses, in_game, pc,
                     im_coordinator, this_round, left, target, seen>>
  BY DEF GatherReady, Take, Gathered, StartPhase
<1>2. /\ semaphores'[0] = semaphores[0] - 1 /\ semaphores'[0] \in 0 .. N
      /\ semaphores'[1] = semaphores[1] /\ semaphores'[2] = semaphores[2]
      /\ semaphores' \in [0 .. 2 -> 0 .. N] /\ pending' \in 0 .. N
  BY <1>1
<1>3. TypeOK'
  <2> HIDE Shapes
  <2> QED BY <1>1, <1>2 DEF TypeOK
<1>4. Unready' = Unready /\ Cardinality(Unready) \in 0 .. N
  BY <1>1, Counts, Subsets DEF Unready, At
<1>5. \A p \in Players : Preparing(p)'
  BY <1>1 DEF StartPhase, Preparing, Spared
<1>6. semaphores'[0] + Cardinality(Unready) = pending'
  BY <1>1, <1>2, <1>4 DEF StartPhase
<1>7. created = N BY DEF StartPhase, GatherReady
<1> HIDE Shapes
<1>8. mpc' \in {"gather", "release"} /\ (mpc' = "gather" => pending' > 0)
      /\ (mpc' = "release" => pending' = 0)
  <2>1. pending' = 0 \/ (pending' # 0 /\ pending' > 0) BY <1>2, NAssumption
  <2> QED BY <1>1, <2>1
<1>9. created' = N /\ ~(created' < N) BY <1>1, <1>7, NAssumption
<1> QED BY <1>1, <1>2, <1>3, <1>4, <1>5, <1>6, <1>8, <1>9 DEF StartPhase

LEMMA StartReleases ==
    ASSUME TypeOK, StartPhase, ReleaseReady
    PROVE  TypeOK' /\ ShootPhase'
<1> USE Shapes DEF local
<1>1. /\ semaphores[0] + Cardinality(Unready) = 0 /\ Cardinality(Unready) \in 0 .. N
      /\ semaphores[0] \in 0 .. N
  BY Counts, Subsets DEF StartPhase, ReleaseReady
<1>2. semaphores[0] = 0 /\ Unready = {}
  BY <1>1, Counts, Subsets
<1>3. /\ semaphores' = [semaphores EXCEPT ![2] = N]
      /\ mpc' = "join"
      /\ UNCHANGED <<created, pending, alive_count, rounds, last_thread, statuses, in_game, pc,
                     im_coordinator, this_round, left, target, seen>>
  <2>1. semaphores[2] = 0 /\ 0 + N <= N /\ 0 + N = N BY DEF StartPhase
  <2> QED BY <2>1 DEF ReleaseReady, Release, ReceivedPass, Maximum
<1>4. /\ semaphores'[0] = 0 /\ semaphores'[1] = 0 /\ semaphores'[2] = N
      /\ semaphores' \in [0 .. 2 -> 0 .. N]
  BY <1>2, <1>3 DEF StartPhase
<1>5. TypeOK'
  <2> HIDE Shapes
  <2> QED BY <1>3, <1>4 DEF TypeOK
<1>6. \A p \in Players : pc[p] = "wait_ready" /\ Spared(p) /\ p \in in_game
  BY <1>2 DEF StartPhase, Preparing, Unready, At
<1>7. /\ Stragglers' = Players /\ Undead' = Players /\ in_game = Players
      /\ Unsignalled' = Players /\ Signalled' = {}
  BY <1>3, <1>6 DEF Stragglers, At, Undead, Spared, Unsignalled, Signalled, HasSignalled
<1>8. Cardinality(Players) = N BY Counts
<1>9. ASSUME NEW p \in Players PROVE Shooting(p)'
  <2>1. pc'[p] = "wait_ready" /\ statuses'[p] = {"READY"} BY <1>3, <1>6 DEF Spared
  <2>2. Living(p)'
    BY <2>1 DEF Living, Readies, Engaged, ShootPcs, HasSignalled
  <2>3. GathersShots(p)'
    <3>1. semaphores'[0] + Cardinality(Players) = Cardinality(Players) BY <1>4, <1>8
    <3> HIDE Shapes
    <3> QED BY <1>7, <2>1, <3>1 DEF GathersShots, Engaged, ShootPcs, HasSignalled
  <2> HIDE Shapes
  <2> QED BY <1>7, <2>2, <2>3 DEF Shooting
<1>10. alive_count = N /\ last_thread = N BY DEF StartPhase
<1> HIDE Shapes
<1> QED BY <1>3, <1>4, <1>5, <1>7, <1>8, <1>9, <1>10 DEF ShootPhase

LEMMA StartThread ==
    ASSUME TypeOK, StartPhase, NEW p \in Players, Thread(p)
    PROVE  TypeOK' /\ StartPhase'
<1> USE Shapes DEF local, data, mains, Goto
<1>1. Preparing(p) BY DEF StartPhase
<1>2. Start(p) \/ NewShooter(p) \/ SignalReady(p)
  <2>1. ~WaitReady(p) BY DEF StartPhase, WaitReady, Wait, Take, ReceivedPass
  <2> HIDE Shapes
  <2> QED BY <1>1, <2>1
      DEF Thread, Preparing, StartRound, Aim, Load, Store, SignalShot, SignalAndGather, Signal,
          GatherShot, GatherReceived, Gather, ReleaseShot, ReleaseReceived, ReleaseAll, WaitShot,
          Wait, Check, Die, Uncount, SignalReceived, WaitReceived
<1>3. CASE Start(p) \/ NewShooter(p)
  <2>1. /\ pc[p] \in {"start", "new_shooter"} /\ pc' = [pc EXCEPT ![p] = pc'[p]]
        /\ pc'[p] = IF pc[p] = "start" THEN "new_shooter" ELSE "signal_ready"
        /\ statuses' = [statuses EXCEPT ![p] = {"READY"}]
        /\ in_game' = IF pc[p] = "start" THEN in_game ELSE in_game \cup {p}
        /\ UNCHANGED <<mpc, created, pending, last_thread, semaphores, alive_count, rounds,
                       im_coordinator, this_round, left, target, seen>>
    BY <1>1, <1>3 DEF Start, NewShooter, Preparing, Spared
  <2>2. TypeOK'
    <3>1. statuses' \in [Players -> SUBSET Bits] BY <2>1 DEF Bits
    <3>2. pc' \in [Players -> ThreadPcs] BY <2>1 DEF ThreadPcs
    <3>3. in_game' \subseteq Players BY <2>1
    <3> HIDE Shapes
    <3> QED BY <2>1, <3>1, <3>2, <3>3 DEF TypeOK
  <2>3. Unready' = Unready BY <2>1 DEF Unready, At
  <2>4. ASSUME NEW q \in Players PROVE Preparing(q)'
    <3>1. Preparing(q) BY DEF StartPhase
    <3> QED BY <1>1, <2>1, <3>1 DEF Preparing, Spared
  <2> HIDE Shapes
  <2> QED BY <2>1, <2>2, <2>3, <2>4 DEF StartPhase
<1>4. CASE SignalReady(p)
  <2>1. /\ pc[p] = "signal_ready" /\ pc' = [pc EXCEPT ![p] = "wait_ready"]
        /\ semaphores' = [semaphores EXCEPT ![0] = IF @ + 1 <= N THEN @ + 1 ELSE @]
        /\ UNCHANGED <<mpc, created, pending, last_thread, statuses, in_game, alive_count,
                       rounds, im_coordinator, this_round, left, target, seen>>
    BY <1>4 DEF SignalReady, Signal, Release, Gathered, Maximum
  <2>2. p \in Unready /\ Unready' = Unready \ {p} BY <2>1 DEF Unready, At
  <2>3. /\ Cardinality(Unready') = Cardinality(Unready) - 1
        /\ Cardinality(Unready) \in 0 .. N /\ Cardinality(Unready) # 0
    BY <2>2, Counts, Subsets
  <2>4. semaphores[0] + 1 <= N BY <2>3 DEF StartPhase
  <2>5. /\ semaphores'[0] = semaphores[0] + 1
        /\ semaphores'[1] = semaphores[1] /\ semaphores'[2] = semaphores[2]
        /\ semaphores' \in [0 .. 2 -> 0 .. N]
    BY <2>1, <2>4
  <2>6. TypeOK'
    <3>1. pc' \in [Players -> ThreadPcs] BY <2>1 DEF ThreadPcs
    <3> HIDE Shapes
    <3> QED BY <2>1, <2>5, <3>1 DEF TypeOK
  <2>7. ASSUME NEW q \in Players PROVE Preparing(q)'
    <3>1. Preparing(q) BY DEF StartPhase
    <3> QED BY <1>1, <2>1, <3>1 DEF Preparing, Spared
  <2>8. semaphores'[0] + Cardinality(Unready') = pending
    BY <2>3, <2>5 DEF StartPhase
  <2> HIDE Shapes
  <2> QED BY <2>1, <2>5, <2>6, <2>7, <2>8 DEF StartPhase
<1> QED BY <1>2, <1>3, <1>4
-----------------------------------------------------------------------------
(* The shooting *)

(* What a step of p that shoots nobody or whoever was already alive leaves  *)
(* of the others                                                             *)
LEMMA ShootFrame ==
    ASSUME NEW p \in Players, ShootPhase,
           Undead' = Undead,
           \A q \in Undead : statuses'[q] \in Readies /\ (~Spared(q) => ~Spared(q)'),
           \A q \in Players \ {p} :
               /\ pc'[q] = pc[q] /\ im_coordinator'[q] = im_coordinator[q]
               /\ this_round'[q] = this_round[q] /\ left'[q] = left[q]
               /\ target'[q] = target[q] /\ seen'[q] = seen[q],
           last_thread' = last_thread \/ Undead = {p}
    PROVE  /\ \A q \in Players : IsCoordinator(q)' <=> IsCoordinator(q)
           /\ \A q \in Undead \ {p} : Living(q)'
<1>1. \A q \in Players : IsCoordinator(q)' <=> IsCoordinator(q)
  BY DEF IsCoordinator
<1>2. ASSUME NEW q \in Undead \ {p} PROVE Living(q)'
  <2>1. q \in Players /\ q \in Undead /\ Living(q) BY DEF ShootPhase, Shooting, Undead
  <2>2. last_thread' = last_thread BY <2>1
  <2>3. pc[q] \in {"signal_shot"} \cup HasSignalled => ~Spared(target[q])'
    BY <2>1 DEF Living
  <2> QED BY <1>1, <2>1, <2>2, <2>3 DEF Living
<1> QED BY <1>1, <1>2

(* The same for a step that signals nothing either *)
LEMMA ShootQuietly ==
    ASSUME NEW p \in Players, ShootPhase,
           Undead' = Undead, Signalled' = Signalled, semaphores'[0] = semaphores[0],
           \A q \in Undead : statuses'[q] \in Readies /\ (~Spared(q) => ~Spared(q)'),
           \A q \in Players \ {p} :
               /\ pc'[q] = pc[q] /\ im_coordinator'[q] = im_coordinator[q]
               /\ this_round'[q] = this_round[q] /\ left'[q] = left[q]
               /\ target'[q] = target[q] /\ seen'[q] = seen[q],
           last_thread' = last_thread \/ Undead = {p},
           p \in Undead => Living(p)',
           p \notin Undead => pc'[p] \in {"wait_received", "returned"},
           IsCoordinator(p) => GathersShots(p)'
    PROVE  \A q \in Players : Shooting(q)'
<1> SUFFICES ASSUME NEW q \in Players PROVE Shooting(q)'
  OBVIOUS
<1>1. /\ IsCoordinator(q)' <=> IsCoordinator(q)
      /\ q \in Undead => Living(q)'
  BY ShootFrame
<1>2. Unsignalled' = Unsignalled BY DEF Unsignalled
<1>3. Shooting(q) BY DEF ShootPhase
<1>4. q # p /\ IsCoordinator(q) => GathersShots(q)'
  BY <1>2, <1>3 DEF Shooting, GathersShots
<1> QED BY <1>1, <1>3, <1>4 DEF Shooting

(* Who is not waiting nor has returned is alive *)
LEMMA ShootLives ==
    ASSUME TypeOK, ShootPhase, NEW p \in Players, pc[p] \notin {"wait_received", "returned"}
    PROVE  p \in Undead /\ Living(p) /\ last_thread = N /\ mpc = "join"
<1>1. p \in Undead /\ Living(p) BY DEF ShootPhase, Shooting
<1>2. last_thread = N BY <1>1 DEF ShootPhase
<1>3. mpc # "done" /\ mpc \in {"join", "done"} BY DEF ShootPhase
<1> QED BY <1>1, <1>2, <1>3

LEMMA ShootTakes ==
    ASSUME TypeOK, ShootPhase, NEW p \in Players, WaitReady(p) \/ WaitReceived(p)
    PROVE  TypeOK' /\ ShootPhase'
<1> USE Shapes DEF local, mains, Goto
<1> DEFINE to == IF p \in Undead THEN "round" ELSE "returned"
<1>1. /\ pc[p] \in {"wait_ready", "wait_received"} /\ pc' = [pc EXCEPT ![p] = to]
      /\ semaphores[2] > 0 /\ semaphores' = [semaphores EXCEPT ![2] = @ - 1]
      /\ UNCHANGED <<mpc, created, pending, last_thread, alive_count, rounds, statuses, in_game,
                     im_coordinator, this_round, left, target, seen>>
  <2>1. CASE WaitReady(p)
    <3>1. pc[p] = "wait_ready" /\ p \in Undead
      BY <2>1, ShootLives DEF WaitReady, Wait
    <3> QED BY <2>1, <3>1 DEF WaitReady, Wait, Take, ReceivedPass
  <2>2. CASE WaitReceived(p)
    <3>1. p \in Undead <=> "DEAD" \notin statuses[p] BY DEF Undead
    <3> QED BY <2>2, <3>1 DEF WaitReceived, Wait, Take, ReceivedPass
  <2> QED BY <2>1, <2>2
<1>2. /\ semaphores'[0] = semaphores[0] /\ semaphores'[1] = semaphores[1]
      /\ semaphores'[2] = semaphores[2] - 1 /\ semaphores' \in [0 .. 2 -> 0 .. N]
  BY <1>1
<1>3. TypeOK'
  <2>1. pc' \in [Players -> ThreadPcs] BY <1>1 DEF ThreadPcs
  <2> HIDE Shapes
  <2> QED BY <1>1, <1>2, <2>1 DEF TypeOK
<1>4. /\ Undead' = Undead /\ Signalled' = Signalled /\ Unsignalled' = Unsignalled
      /\ p \in Stragglers /\ Stragglers' = Stragglers \ {p}
  BY <1>1 DEF Undead, Signalled, Unsignalled, Stragglers, At, HasSignalled
<1>5. semaphores'[2] = Cardinality(Stragglers')
  BY <1>2, <1>4, Counts, Subsets DEF ShootPhase
<1>6. Shooting(p) /\ pc'[p] = to BY <1>1 DEF ShootPhase
<1>7. p \in Undead => Living(p)'
  BY <1>1, <1>4, <1>6 DEF Shooting, Living, Engaged, ShootPcs, HasSignalled
<1>8. IsCoordinator(p) => GathersShots(p)'
  BY <1>1, <1>2, <1>4, <1>6 DEF Shooting, GathersShots, Engaged, ShootPcs, HasSignalled,
                                IsCoordinator
<1>9. \A q \in Players : Shooting(q)'
  <2>1. \A q \in Undead : statuses'[q] \in Readies /\ (~Spared(q) => ~Spared(q)')
    BY <1>1 DEF ShootPhase, Shooting, Living, Spared, Undead
  <2>2. p \notin Undead => pc'[p] \in {"wait_received", "returned"} BY <1>6
  <2> QED BY <1>1, <1>2, <1>4, <1>7, <1>8, <2>1, <2>2, ShootQuietly
<1>10. last_thread # N => Undead = {last_thread} /\ pc'[last_thread] = "returned"
  BY <1>1 DEF ShootPhase
<1>11. mpc # "done" BY <1>1 DEF ShootPhase
<1> HIDE Shapes
<1> QED BY <1>1, <1>2, <1>3, <1>4, <1>5, <1>9, <1>10, <1>11 DEF ShootPhase

LEMMA ShootStartsRound ==
    ASSUME TypeOK, ShootPhase, NEW p \in Players, StartRound(p)
    PROVE  TypeOK' /\ ShootPhase'
<1> USE Shapes DEF local, mains, Goto
<1>1. /\ p \in Undead /\ Living(p) /\ last_thread = N /\ mpc = "join" /\ pc[p] = "round"
      /\ alive_count = Cardinality(Undead)
  BY ShootLives DEF StartRound, ShootPhase
<1> DEFINE last == IsCoordinator(p) /\ alive_count = 1
           to == IF last THEN "returned" ELSE "aim"
<1>2. /\ pc' = [pc EXCEPT ![p] = to]
      /\ im_coordinator' = [im_coordinator EXCEPT ![p] = IsCoordinator(p)]
      /\ this_round' = [this_round EXCEPT ![p] = IF IsCoordinator(p) THEN alive_count ELSE @]
      /\ rounds' \in {rounds, rounds + 1}
      /\ last_thread' = IF last THEN p ELSE last_thread
      /\ UNCHANGED <<mpc, created, pending, semaphores, alive_count, statuses, in_game, left,
                     target, seen>>
  BY DEF StartRound, ThreadId
<1>3. TypeOK'
  <2>1. pc' \in [Players -> ThreadPcs] BY <1>2 DEF ThreadPcs
  <2>2. im_coordinator' \in [Players -> BOOLEAN] BY <1>2 DEF IsCoordinator
  <2>3. this_round' \in [Players -> 0 .. N] BY <1>2
  <2>4. rounds' \in Nat /\ last_thread' \in 0 .. N BY <1>2
  <2> HIDE Shapes
  <2> QED BY <1>2, <2>1, <2>2, <2>3, <2>4 DEF TypeOK
<1>4. /\ Undead' = Undead /\ Signalled' = Signalled /\ Unsignalled' = Unsignalled
      /\ Stragglers' = Stragglers
  BY <1>1, <1>2 DEF Undead, Signalled, Unsignalled, Stragglers, At, HasSignalled
<1>5. last => Undead = {p}
  <2>1. Cardinality(Undead) = 1 => \E q \in Undead : Undead = {q}
    BY Counts, Subsets
  <2> QED BY <1>1, <2>1
<1>6. ~last => Cardinality(Undead) > 1
  <2>1. CASE IsCoordinator(p)
    BY <1>1, <2>1, Counts, Subsets
  <2>2. CASE ~IsCoordinator(p)
    <3>1. PICK q \in Undead : ~(q <= p) BY <1>1, <2>2 DEF IsCoordinator
    <3> QED BY <1>1, <3>1, TwoAlive
  <2> QED BY <2>1, <2>2
<1>7. /\ pc'[p] = to /\ im_coordinator'[p] = IsCoordinator(p) /\ (last_thread' = last_thread \/ last)
      /\ IsCoordinator(p) => this_round'[p] = Cardinality(Undead)
      /\ IsCoordinator(p)' <=> IsCoordinator(p)
  BY <1>1, <1>2, <1>4 DEF IsCoordinator
<1>8. Living(p)'
  BY <1>1, <1>2, <1>4, <1>6, <1>7 DEF Living, Engaged, ShootPcs, HasSignalled
<1>9. IsCoordinator(p) => GathersShots(p)'
  <2>1. Shooting(p) BY DEF ShootPhase
  <2> QED BY <1>1, <1>2, <1>4, <1>7, <2>1
      DEF Shooting, GathersShots, Engaged, ShootPcs, HasSignalled
<1>10. \A q \in Players : Shooting(q)'
  <2>1. \A q \in Undead : statuses'[q] \in Readies /\ (~Spared(q) => ~Spared(q)')
    BY <1>2 DEF ShootPhase, Shooting, Living, Spared, Undead
  <2>2. last_thread' = last_thread \/ Undead = {p} BY <1>2, <1>5
  <2> QED BY <1>1, <1>2, <1>4, <1>8, <1>9, <2>1, <2>2, ShootQuietly
<1>11. last_thread' # N => Undead = {last_thread'} /\ pc'[last_thread'] = "returned"
  BY <1>1, <1>2, <1>5, <1>7
<1> HIDE Shapes
<1> QED BY <1>1, <1>2, <1>3, <1>4, <1>10, <1>11 DEF ShootPhase

(* Aiming, reading the target's status and writing it *)
LEMMA ShootShoots ==
    ASSUME TypeOK, ShootPhase, NEW p \in Players, Aim(p) \/ Load(p) \/ Store(p)
    PROVE  TypeOK' /\ ShootPhase'
<1> USE Shapes DEF local, mains, data, Goto
<1>1. /\ p \in Undead /\ Living(p) /\ last_thread = N /\ mpc = "join"
      /\ pc[p] \in {"aim", "load", "store"}
  BY ShootLives DEF Aim, Load, Store
<1> DEFINE hit == {"READY", "DEAD_THIS_ROUND"}
<1>2. /\ pc' = [pc EXCEPT ![p] = pc'[p]]
      /\ pc'[p] = IF pc[p] = "aim" THEN "load" ELSE IF pc[p] = "load" THEN "store"
                  ELSE "signal_shot"
      /\ target'[p] \in Undead \ {p} /\ target' = [target EXCEPT ![p] = target'[p]]
      /\ seen'[p] \in SUBSET Bits /\ seen' = [seen EXCEPT ![p] = seen'[p]]
      /\ pc'[p] = "store" => seen'[p] \in Readies
      /\ pc'[p] = "signal_shot" => /\ statuses' = [statuses EXCEPT ![target[p]] = hit]
                                   /\ target' = target
      /\ pc'[p] # "signal_shot" => statuses' = statuses
      /\ UNCHANGED <<mpc, created, pending, last_thread, semaphores, alive_count, rounds, in_game,
                     im_coordinator, this_round, left>>
  <2>1. CASE Aim(p)
    <3>1. PICK t \in Choices(p) : target' = [target EXCEPT ![p] = t] BY <2>1 DEF Aim
    <3>2. t \in Undead \ {p} BY <3>1 DEF Choices, ShootPhase
    <3> QED BY <2>1, <3>1, <3>2 DEF Aim
  <2>2. CASE Load(p)
    <3>1. target[p] \in Undead \ {p} BY <1>1, <2>2 DEF Living, Load
    <3>2. statuses[target[p]] \in Readies BY <3>1 DEF ShootPhase, Shooting, Living, Undead
    <3>3. target[p] \in Players BY <3>1 DEF Undead
    <3> QED BY <2>2, <3>1, <3>2, <3>3 DEF Load
  <2>3. CASE Store(p)
    <3>1. target[p] \in Undead \ {p} /\ seen[p] \in Readies BY <1>1, <2>3 DEF Living, Store
    <3>2. seen[p] \cup {"DEAD_THIS_ROUND"} = hit BY <3>1 DEF Readies
    <3> QED BY <2>3, <3>1, <3>2 DEF Store
  <2> QED BY <2>1, <2>2, <2>3
<1>3. target[p] \in Players \/ pc'[p] # "signal_shot"
  BY <1>2 DEF Undead
<1>4. TypeOK'
  <2>1. pc' \in [Players -> ThreadPcs] BY <1>2 DEF ThreadPcs
  <2>2. statuses' \in [Players -> SUBSET Bits]
    <3>1. hit \in SUBSET Bits BY DEF Bits
    <3> HIDE DEF hit
    <3> QED BY <1>2, <1>3, <3>1
  <2>3. target' \in [Players -> 0 .. N]
    <3>1. target'[p] \in 0 .. N BY <1>2 DEF Undead
    <3> QED BY <1>2, <3>1
  <2>4. seen' \in [Players -> SUBSET Bits] BY <1>2
  <2> HIDE Shapes
  <2> QED BY <1>2, <2>1, <2>2, <2>3, <2>4 DEF TypeOK
<1>5. \A q \in Players : statuses'[q] = statuses[q] \/ (q \in Undead /\ statuses'[q] = hit)
  BY <1>2, <1>3
<1>6. Undead' = Undead
  <2>1. \A q \in Players : "DEAD" \in statuses'[q] <=> "DEAD" \in statuses[q]
    BY <1>5 DEF Undead
  <2> QED BY <2>1 DEF Undead
<1>7. /\ Signalled' = Signalled /\ Unsignalled' = Unsignalled /\ Stragglers' = Stragglers
  <2>1. /\ \A q \in Players : pc'[q] \in HasSignalled <=> pc[q] \in HasSignalled
        /\ \A q \in Players : pc'[q] \in {"wait_ready", "wait_received"}
                               <=> pc[q] \in {"wait_ready", "wait_received"}
    BY <1>1, <1>2 DEF HasSignalled
  <2> HIDE Shapes
  <2>2. Signalled' = Signalled BY <1>6, <2>1 DEF Signalled, Undead
  <2>3. Stragglers' = Stragglers BY <2>1 DEF Stragglers, At
  <2> QED BY <1>6, <2>2, <2>3 DEF Unsignalled
<1>8. IsCoordinator(p)' <=> IsCoordinator(p) BY <1>6 DEF IsCoordinator
<1>9. statuses'[p] \in Readies
  BY <1>1, <1>5 DEF Living, Readies
<1>10. Living(p)'
  <2>1. pc'[p] = "signal_shot" => ~Spared(target[p])'
    BY <1>2, <1>3 DEF Spared
  <2> QED BY <1>1, <1>2, <1>6, <1>8, <1>9, <2>1 DEF Living, Engaged, ShootPcs, HasSignalled
<1>11. IsCoordinator(p) => GathersShots(p)'
  <2>1. Shooting(p) BY DEF ShootPhase
  <2> QED BY <1>1, <1>2, <1>6, <1>7, <2>1
      DEF Shooting, GathersShots, Engaged, ShootPcs, HasSignalled
<1>12. \A q \in Players : Shooting(q)'
  <2>1. \A q \in Undead : statuses'[q] \in Readies /\ (~Spared(q) => ~Spared(q)')
    BY <1>5 DEF ShootPhase, Shooting, Living, Spared, Undead, Readies
  <2> QED BY <1>1, <1>2, <1>6, <1>7, <1>10, <1>11, <2>1, ShootQuietly
<1> HIDE Shapes
<1> QED BY <1>1, <1>2, <1>4, <1>6, <1>7, <1>12 DEF ShootPhase

(* A player signals that it has shot *)
LEMMA ShootSignals ==
    ASSUME TypeOK, ShootPhase, NEW p \in Players, SignalShot(p)
    PROVE  TypeOK' /\ ShootPhase'
<1> USE Shapes DEF mains
<1>1. /\ p \in Undead /\ Living(p) /\ last_thread = N /\ mpc = "join"
      /\ pc[p] = "signal_shot" /\ (im_coordinator[p] <=> IsCoordinator(p))
  <2>1. pc[p] = "signal_shot" BY DEF SignalShot, SignalAndGather, Signal
  <2>2. p \in Undead /\ Living(p) /\ last_thread = N /\ mpc = "join" BY <2>1, ShootLives
  <2>3. im_coordinator[p] <=> IsCoordinator(p)
    BY <2>1, <2>2 DEF Living, Engaged, ShootPcs
  <2> QED BY <2>1, <2>2, <2>3
<1> DEFINE to == IF IsCoordinator(p) THEN "gather_shot" ELSE "wait_shot"
<1>2. /\ pc' = [pc EXCEPT ![p] = to]
      /\ semaphores' = [semaphores EXCEPT ![0] = IF @ + 1 <= N THEN @ + 1 ELSE @]
      /\ left' = [left EXCEPT ![p] = this_round[p]]
      /\ UNCHANGED <<mpc, created, pending, last_thread, alive_count, rounds, statuses, in_game,
                     im_coordinator, this_round, target, seen>>
  BY <1>1 DEF SignalShot, SignalAndGather, Signal, Release, Gathered, Maximum, Goto
<1>3. p \in Unsignalled /\ Undead' = Undead /\ Unsignalled' = Unsignalled \ {p}
      /\ Stragglers' = Stragglers
  BY <1>1, <1>2 DEF Undead, Signalled, Unsignalled, Stragglers, At, HasSignalled
<1>4. /\ Cardinality(Unsignalled') = Cardinality(Unsignalled) - 1
      /\ Cardinality(Unsignalled) \in 0 .. N /\ Cardinality(Unsignalled) # 0
      /\ Cardinality(Undead) \in 0 .. N
  BY <1>3, Counts, Subsets
<1>5. PICK c \in Players : IsCoordinator(c) BY <1>1, SomeCoordinator
<1>6. GathersShots(c) /\ (pc[c] = "release_shot" => FALSE)
  BY <1>3, <1>5 DEF ShootPhase, Shooting, GathersShots
<1>7. semaphores[0] + Cardinality(Unsignalled) <= N
  <2>1. left[c] <= N BY <1>5
  <2> QED BY <1>4, <1>6, <2>1 DEF GathersShots
<1>8. /\ semaphores'[0] = semaphores[0] + 1
      /\ semaphores'[1] = semaphores[1] /\ semaphores'[2] = semaphores[2]
      /\ semaphores' \in [0 .. 2 -> 0 .. N]
  BY <1>2, <1>4, <1>7
<1>9. TypeOK'
  <2>1. pc' \in [Players -> ThreadPcs] BY <1>2 DEF ThreadPcs
  <2>2. left' \in [Players -> 0 .. N] BY <1>2
  <2> HIDE Shapes
  <2> QED BY <1>2, <1>8, <2>1, <2>2 DEF TypeOK
<1>10. semaphores'[0] + Cardinality(Unsignalled') = semaphores[0] + Cardinality(Unsignalled)
  BY <1>4, <1>8
<1>11. \A q \in Players : IsCoordinator(q)' <=> IsCoordinator(q)
  BY <1>3 DEF IsCoordinator
<1>12. \A q \in Undead \ {p} : Living(q)'
  <2>1. \A q \in Undead : statuses'[q] \in Readies /\ (~Spared(q) => ~Spared(q)')
    BY <1>2 DEF ShootPhase, Shooting, Living, Spared, Undead
  <2>2. \A q \in Players \ {p} : pc'[q] = pc[q] /\ left'[q] = left[q] BY <1>2
  <2> QED BY <1>2, <1>3, <2>1, <2>2, ShootFrame
<1>13. Living(p)'
  <2>1. pc'[p] = to BY <1>2
  <2>2. Living(p) /\ ~Spared(target[p]) /\ target[p] \in Undead \ {p} BY <1>1 DEF Living
  <2>3. ~Spared(target[p])' BY <1>2, <2>2 DEF Spared
  <2>4. IsCoordinator(p)' <=> IsCoordinator(p) BY <1>11
  <2> HIDE Shapes
  <2> QED BY <1>1, <1>2, <1>3, <2>1, <2>2, <2>3, <2>4 DEF Living, Engaged, ShootPcs, HasSignalled
<1>14. ASSUME NEW q \in Players, IsCoordinator(q) PROVE GathersShots(q)'
  <2>1. GathersShots(q) BY <1>14 DEF ShootPhase, Shooting
  <2>2. CASE q = p
    <3>1. /\ this_round[p] = Cardinality(Undead)
          /\ semaphores[0] + Cardinality(Unsignalled) = Cardinality(Undead)
      BY <1>1, <2>1, <2>2 DEF GathersShots, Engaged, ShootPcs
    <3>2. pc'[p] = "gather_shot" /\ left'[p] = Cardinality(Undead)
      BY <1>2, <1>14, <2>2, <3>1
    <3> HIDE Shapes
    <3> QED BY <1>2, <1>3, <1>10, <2>2, <3>1, <3>2 DEF GathersShots
  <2>3. CASE q # p
    <3>1. pc'[q] = pc[q] /\ left'[q] = left[q] /\ this_round'[q] = this_round[q] BY <1>2, <2>3
    <3>2. pc[q] # "release_shot" BY <1>3, <2>1 DEF GathersShots
    <3> HIDE Shapes
    <3> QED BY <1>3, <1>10, <2>1, <3>1, <3>2 DEF GathersShots
  <2> QED BY <2>2, <2>3
<1>15. ASSUME NEW q \in Players PROVE Shooting(q)'
  <2>1. Shooting(q) BY DEF ShootPhase
  <2>2. q \notin Undead => pc'[q] = pc[q] BY <1>1, <1>2
  <2> HIDE Shapes
  <2> QED BY <1>3, <1>11, <1>12, <1>13, <1>14, <2>1, <2>2 DEF Shooting
<1> HIDE Shapes
<1> QED BY <1>1, <1>2, <1>3, <1>8, <1>9, <1>15 DEF ShootPhase

(* The coordinator gathers a signal, or knows that it has them all *)
LEMMA ShootGathers ==
    ASSUME TypeOK, ShootPhase, NEW p \in Players, GatherShot(p)
    PROVE  TypeOK' /\ ShootPhase'
<1> USE Shapes DEF mains
<1>1. /\ p \in Undead /\ Living(p) /\ last_thread = N /\ mpc = "join"
      /\ pc[p] = "gather_shot" /\ IsCoordinator(p) /\ GathersShots(p)
  <2>1. pc[p] = "gather_shot" BY DEF GatherShot, Gather
  <2>2. p \in Undead /\ Living(p) /\ last_thread = N /\ mpc = "join" BY <2>1, ShootLives
  <2>3. IsCoordinator(p) BY <2>1, <2>2 DEF Living
  <2> QED BY <2>1, <2>2, <2>3 DEF ShootPhase, Shooting
<1>2. /\ UNCHANGED <<mpc, created, pending, last_thread, alive_count, rounds, statuses, in_game,
                     im_coordinator, this_round, target, seen>>
      /\ \/ /\ left[p] = 0 /\ pc' = [pc EXCEPT ![p] = "release_shot"]
            /\ UNCHANGED <<semaphores, left>>
         \/ /\ left[p] # 0 /\ UNCHANGED pc /\ semaphores[0] > 0
            /\ semaphores' = [semaphores EXCEPT ![0] = @ - 1]
            /\ left' = [left EXCEPT ![p] = @ - 1]
  BY DEF GatherShot, Gather, GatheredAll, Take, Gathered, Goto
<1>3. /\ Undead' = Undead /\ Signalled' = Signalled /\ Unsignalled' = Unsignalled
      /\ Stragglers' = Stragglers
  BY <1>1, <1>2 DEF Undead, Signalled, Unsignalled, Stragglers, At, HasSignalled
<1>4. Cardinality(Unsignalled) \in 0 .. N /\ Cardinality(Undead) \in 0 .. N
      /\ (Cardinality(Unsignalled) = 0 <=> Unsignalled = {})
  BY Counts, Subsets
<1>5. /\ semaphores' \in [0 .. 2 -> 0 .. N] /\ left' \in [Players -> 0 .. N]
      /\ pc' \in [Players -> ThreadPcs]
      /\ semaphores'[1] = semaphores[1] /\ semaphores'[2] = semaphores[2]
  <2>1. CASE left[p] = 0 BY <1>2, <2>1 DEF ThreadPcs
  <2>2. CASE left[p] # 0
    <3>1. left[p] - 1 \in 0 .. N /\ (semaphores[0] > 0 => semaphores[0] - 1 \in 0 .. N)
      BY <2>2
    <3> QED BY <1>2, <2>2, <3>1
  <2> QED BY <2>1, <2>2
<1>6. TypeOK'
  <2> HIDE Shapes
  <2> QED BY <1>2, <1>5 DEF TypeOK
<1>7. \A q \in Players : IsCoordinator(q) <=> q = p
  BY <1>1 DEF IsCoordinator, Undead, Players
<1>8. /\ \A q \in Players : IsCoordinator(q)' <=> IsCoordinator(q)
      /\ \A q \in Undead \ {p} : Living(q)'
  <2>1. \A q \in Undead : statuses'[q] \in Readies /\ (~Spared(q) => ~Spared(q)')
    BY <1>2 DEF ShootPhase, Shooting, Living, Spared, Undead
  <2>2. \A q \in Players \ {p} : pc'[q] = pc[q] /\ left'[q] = left[q] BY <1>2
  <2> QED BY <1>2, <1>3, <2>1, <2>2, ShootFrame
<1>9. pc'[p] \in {"gather_shot", "release_shot"} BY <1>1, <1>2
<1>10. Living(p)'
  <2>1. ~Spared(target[p])' BY <1>1, <1>2 DEF Living, HasSignalled, Spared
  <2> HIDE Shapes
  <2> QED BY <1>1, <1>2, <1>3, <1>7, <1>8, <1>9, <2>1
      DEF Living, Engaged, ShootPcs, HasSignalled
<1>11. GathersShots(p)'
  <2>1. this_round'[p] = Cardinality(Undead) BY <1>1, <1>2 DEF GathersShots, Engaged, HasSignalled
  <2>2. semaphores[0] + Cardinality(Unsignalled) = left[p] BY <1>1 DEF GathersShots
  <2>3. CASE left[p] = 0
    <3>1. semaphores'[0] = 0 /\ Unsignalled = {} BY <1>2, <1>4, <2>2, <2>3
    <3>2. pc'[p] = "release_shot" BY <1>2, <2>3
    <3> HIDE Shapes
    <3> QED BY <1>3, <2>1, <3>1, <3>2 DEF GathersShots
  <2>4. CASE left[p] # 0
    <3>1. semaphores'[0] + Cardinality(Unsignalled) = left'[p] BY <1>2, <1>4, <2>2, <2>4
    <3>2. pc'[p] = "gather_shot" BY <1>1, <1>2, <2>4
    <3> HIDE Shapes
    <3> QED BY <1>3, <2>1, <3>1, <3>2 DEF GathersShots
  <2> QED BY <2>3, <2>4
<1>12. ASSUME NEW q \in Players PROVE Shooting(q)'
  <2>1. Shooting(q) BY DEF ShootPhase
  <2>2. q \notin Undead => pc'[q] = pc[q] BY <1>1, <1>2
  <2> HIDE Shapes
  <2> QED BY <1>3, <1>7, <1>8, <1>10, <1>11, <2>1, <2>2 DEF Shooting
<1> HIDE Shapes
<1> QED BY <1>1, <1>2, <1>3, <1>5, <1>6, <1>12 DEF ShootPhase

(* The coordinator lets everybody count the dead *)
LEMMA ShootReleases ==
    ASSUME TypeOK, ShootPhase, NEW p \in Players, ReleaseShot(p), InTime
    PROVE  TypeOK' /\ CountPhase'
<1> USE Shapes DEF mains, local, Goto
<1>1. /\ p \in Undead /\ Living(p) /\ last_thread = N /\ mpc = "join"
      /\ pc[p] = "release_shot" /\ IsCoordinator(p) /\ GathersShots(p)
  <2>1. pc[p] = "release_shot" BY DEF ReleaseShot, ReleaseAll
  <2>2. p \in Undead /\ Living(p) /\ last_thread = N /\ mpc = "join" BY <2>1, ShootLives
  <2>3. IsCoordinator(p) BY <2>1, <2>2 DEF Living
  <2> QED BY <2>1, <2>2, <2>3 DEF ShootPhase, Shooting
<1>2. /\ semaphores[0] = 0 /\ semaphores[1] = 0 /\ this_round[p] = Cardinality(Undead)
      /\ Undead \subseteq Signalled
  BY <1>1 DEF GathersShots, Engaged, HasSignalled, Unsignalled, ShootPhase
<1>3. \A q \in Players : /\ IsCoordinator(q) <=> q = p
                         /\ q \in Undead => Living(q) /\ pc[q] \in HasSignalled
                         /\ q \in Undead /\ q # p => pc[q] = "wait_shot"
                         /\ q \in Undead /\ im_coordinator[q] => q = p
                         /\ q \notin Undead => pc[q] \in {"wait_received", "returned"}
  <2>1. \A q \in Players : IsCoordinator(q) <=> q = p
    BY <1>1 DEF IsCoordinator, Undead, Players
  <2>2. \A q \in Players : q \in Undead => Living(q) /\ pc[q] \in HasSignalled
    BY <1>2 DEF ShootPhase, Shooting, Signalled
  <2>3. \A q \in Players : q \in Undead /\ q # p => pc[q] = "wait_shot"
    BY <2>1, <2>2 DEF Living, HasSignalled
  <2>4. \A q \in Players : q \in Undead /\ im_coordinator[q] => q = p
    BY <2>1, <2>2 DEF Living, Engaged
  <2>5. \A q \in Players : q \notin Undead => pc[q] \in {"wait_received", "returned"}
    BY DEF ShootPhase, Shooting
  <2> QED BY <2>1, <2>2, <2>3, <2>4, <2>5
<1>4. Cardinality(Undead) \in 0 .. N /\ Cardinality(Undead) > 1
  BY <1>1, Counts, Subsets DEF Living, Engaged, HasSignalled
<1>5. /\ semaphores' = [semaphores EXCEPT ![1] = Cardinality(Undead)]
      /\ pc' = [pc EXCEPT ![p] = "wait_shot"]
      /\ UNCHANGED <<mpc, created, pending, last_thread, alive_count, rounds, statuses, in_game,
                     im_coordinator, this_round, left, target, seen>>
  <2>1. 0 + this_round[p] = this_round[p] /\ this_round[p] <= N BY <1>2, <1>4
  <2> QED BY <1>2, <2>1 DEF ReleaseShot, ReleaseAll, Release, ShotPass, Maximum
<1>6. /\ semaphores'[0] = 0 /\ semaphores'[1] = Cardinality(Undead)
      /\ semaphores'[2] = semaphores[2] /\ semaphores' \in [0 .. 2 -> 0 .. N]
  BY <1>2, <1>4, <1>5
<1>7. TypeOK'
  <2>1. pc' \in [Players -> ThreadPcs] BY <1>5 DEF ThreadPcs
  <2> HIDE Shapes
  <2> QED BY <1>5, <1>6, <2>1 DEF TypeOK
<1>8. \A q \in Players : IF q \in Undead THEN pc'[q] = "wait_shot"
                         ELSE pc'[q] = pc[q] /\ pc[q] \in {"wait_received", "returned"}
  BY <1>1, <1>3, <1>5
<1>9. /\ At({"wait_shot"})' = Undead /\ At({"uncount"})' = {} /\ Unreceived' = Undead
      /\ Remaining' = Undead \cup Stragglers /\ Undead \cap Stragglers = {}
  <2>1. At({"wait_shot"})' = Undead /\ At({"uncount"})' = {} /\ Unreceived' = Undead
    BY <1>8 DEF At, Unreceived, Undead
  <2>2. \A q \in Players : q \in Stragglers <=> q \notin Undead /\ pc[q] = "wait_received"
    BY <1>3 DEF Stragglers, At, HasSignalled
  <2>3. Remaining' = Undead \cup Stragglers
    BY <1>8, <2>2, Subsets DEF Remaining
  <2>4. Undead \cap Stragglers = {} BY <2>2, Subsets
  <2> QED BY <2>1, <2>3, <2>4
<1>10. Cardinality(Remaining') = Cardinality(Undead) + semaphores[2]
  BY <1>9, CountUnion, Subsets DEF ShootPhase
<1>11. PICK a \in Undead, b \in Undead : a # b /\ ~Spared(a) /\ ~Spared(b)
  <2>1. target[p] \in Undead /\ ~Spared(target[p])
    BY <1>1 DEF Living, HasSignalled
  <2>2. target[target[p]] \in Undead \ {target[p]} /\ ~Spared(target[target[p]])
    <3>1. Living(target[p]) /\ pc[target[p]] \in HasSignalled BY <1>3, <2>1 DEF Undead
    <3> QED BY <3>1 DEF Living
  <2> QED BY <2>1, <2>2
<1>12. semaphores[2] > 0 => \A q \in Players : ~Spared(q)
  <2> SUFFICES ASSUME semaphores[2] > 0, NEW q \in Players PROVE ~Spared(q)
    OBVIOUS
  <2>1. PICK s \in Stragglers : TRUE
    <3>1. Cardinality(Stragglers) # 0 BY DEF ShootPhase
    <3> QED BY <3>1, Counts, Subsets
  <2>2. s \in Players /\ s \notin Undead /\ pc[s] = "wait_received"
    BY <1>3, <1>9, Subsets DEF Stragglers, At
  <2>3. N <= 4 BY <2>2 DEF InTime
  <2>4. PICK c \in Players \ Undead, d \in Players \ Undead : c # d
    BY <2>2 DEF ShootPhase
  <2>5. Cardinality(Undead) <= N - 2 BY <2>4, TwoDead
  <2>6. ~(Cardinality(Undead) > 2) BY <1>4, <2>3, <2>5
  <2>7. q \in Undead => q = a \/ q = b BY <1>11, <2>6, ThreeAlive
  <2>8. q \notin Undead => ~Spared(q) BY DEF Undead, Spared
  <2> QED BY <1>11, <2>7, <2>8
<1>13. /\ Undead' = Undead /\ \A q \in Players : Spared(q)' <=> Spared(q)
       /\ \A q \in Players : Coordinates(q)' <=> q = p
  <2>1. im_coordinator[p] BY <1>1 DEF Living, Engaged, HasSignalled
  <2> QED BY <1>3, <1>5, <1>8, <2>1 DEF Undead, Spared, Coordinates
<1>14. ASSUME NEW q \in Players PROVE Counting(q)'
  <2>1. q \in Undead => statuses[q] \in Readies BY <1>3 DEF Living
  <2> HIDE Shapes
  <2> QED BY <1>5, <1>8, <1>13, <2>1 DEF Counting, HasReceived
<1>15. GathersReceived(p)'
  <2>1. pc'[p] = "wait_shot" /\ this_round'[p] = Cardinality(Undead) BY <1>1, <1>2, <1>5, <1>8
  <2>2. semaphores'[2] + Cardinality(Undead) = Cardinality(Remaining') BY <1>4, <1>6, <1>10
  <2>3. semaphores'[0] + Cardinality(Undead) = Cardinality(Undead) BY <1>4, <1>6
  <2> HIDE Shapes
  <2> QED BY <1>9, <1>13, <2>1, <2>2, <2>3 DEF GathersReceived
<1>16. /\ semaphores'[1] = Cardinality(At({"wait_shot"})') /\ in_game = Undead \cup {}
       /\ alive_count = Cardinality(Undead) + Cardinality(At({"uncount"})')
  <2>1. Cardinality({}) = 0 BY FS_EmptySet
  <2>2. in_game = Undead /\ alive_count = Cardinality(Undead) BY DEF ShootPhase
  <2>3. alive_count = Cardinality(Undead) + 0 BY <1>4, <2>2
  <2> HIDE Shapes
  <2> QED BY <1>6, <1>9, <2>1, <2>2, <2>3
<1>17. \E q, r \in Players : q # r /\ ~Spared(q)' /\ ~Spared(r)'
  BY <1>11, <1>13 DEF Undead
<1> HIDE Shapes
<1> QED BY <1>1, <1>5, <1>6, <1>7, <1>9, <1>12, <1>13, <1>14, <1>15, <1>16, <1>17 DEF CountPhase

LEMMA ShootStays ==
    ASSUME TypeOK, ShootPhase, NEW p \in Players, Thread(p), ~ReleaseShot(p)
    PROVE  TypeOK' /\ ShootPhase'
<1>1. /\ semaphores[1] = 0
      /\ pc[p] \in {"wait_ready", "wait_received", "round", "returned"} \cup Engaged
  BY DEF ShootPhase, Shooting, Living
<1>2. \/ WaitReady(p) \/ WaitReceived(p) \/ StartRound(p) \/ Aim(p) \/ Load(p) \/ Store(p)
      \/ SignalShot(p) \/ GatherShot(p)
  <2>1. ~WaitShot(p) BY <1>1 DEF WaitShot, Wait, Take, ShotPass
  <2> QED BY <1>1, <2>1
      DEF Thread, Start, NewShooter, SignalReady, Signal, Check, Die, Uncount, SignalReceived,
          SignalAndGather, GatherReceived, Gather, ReleaseReceived, ReleaseAll, Engaged, ShootPcs,
          HasSignalled
<1> QED BY <1>2, ShootTakes, ShootStartsRound, ShootShoots, ShootSignals, ShootGathers

LEMMA ShootThread ==
    ASSUME TypeOK, ShootPhase, NEW p \in Players, Thread(p), InTime
    PROVE  TypeOK' /\ (ShootPhase' \/ CountPhase')
BY ShootReleases, ShootStays

LEMMA ShootEnds ==
    ASSUME TypeOK, ShootPhase, Join
    PROVE  TypeOK' /\ ShootPhase'
<1>1. /\ mpc' = "done" /\ \A q \in Players : pc[q] = "returned"
      /\ UNCHANGED <<created, pending, last_thread, semaphores, alive_count, rounds, statuses,
                     in_game, pc, im_coordinator, this_round, left, target, seen>>
  BY DEF Join, data, local
<1>2. TypeOK' BY <1>1 DEF TypeOK
<1>3. /\ Undead' = Undead /\ Signalled' = Signalled /\ Unsignalled' = Unsignalled
      /\ Stragglers' = Stragglers
  BY <1>1 DEF Undead, Signalled, Unsignalled, Stragglers, At
<1>4. ASSUME NEW q \in Players PROVE Shooting(q)'
  <2>1. Shooting(q) BY DEF ShootPhase
  <2>2. IsCoordinator(q)' <=> IsCoordinator(q) BY <1>3 DEF IsCoordinator
  <2> QED BY <1>1, <1>3, <2>1, <2>2 DEF Shooting, Living, GathersShots, Spared
<1> QED BY <1>1, <1>2, <1>3, <1>4 DEF ShootPhase
-----------------------------------------------------------------------------
(* The count of the dead *)

(* A step of p that signals nothing, between its pass and its signal *)
LEMMA CountQuietly ==
    ASSUME NEW p \in Players, CountPhase,
           p \in Unreceived, pc'[p] \in {"check", "die", "uncount", "signal_received"},
           \A q \in Players \ {p} : pc'[q] = pc[q] /\ statuses'[q] = statuses[q],
           semaphores'[0] = semaphores[0], semaphores'[2] = semaphores[2],
           UNCHANGED <<im_coordinator, this_round, left>>,
           Counting(p)'
    PROVE  /\ \E q \in Players : Coordinates(q)'
           /\ \A q \in Players : Counting(q)' /\ (Coordinates(q)' => GathersReceived(q)')
<1>1. /\ Unreceived' = Unreceived /\ Remaining' = Remaining
      /\ pc[p] \in {"wait_shot", "check", "die", "uncount", "signal_received"}
  BY DEF Unreceived, Remaining, At
<1>2. \A q \in Players : Coordinates(q)' <=> Coordinates(q)
  BY <1>1 DEF Coordinates
<1>3. ASSUME NEW q \in Players, q # p PROVE Counting(q)'
  <2>1. Counting(q) /\ (q \in Undead' <=> q \in Undead) BY <1>3 DEF CountPhase, Undead
  <2> QED BY <1>3, <2>1 DEF Counting, Spared
<1>4. ASSUME NEW q \in Players, Coordinates(q) PROVE GathersReceived(q)'
  <2>1. GathersReceived(q) BY <1>4 DEF CountPhase
  <2>2. /\ pc'[q] = "gather_received" <=> pc[q] = "gather_received"
        /\ pc'[q] = "release_received" <=> pc[q] = "release_received"
    BY <1>1
  <2> QED BY <1>1, <1>2, <2>1, <2>2 DEF GathersReceived
<1> QED BY <1>2, <1>3, <1>4 DEF CountPhase

LEMMA CountPasses ==
    ASSUME TypeOK, CountPhase, NEW p \in Players, WaitShot(p)
    PROVE  TypeOK' /\ CountPhase'
<1> USE Shapes DEF mains, local
<1>1. /\ pc[p] = "wait_shot" /\ pc' = [pc EXCEPT ![p] = "check"] /\ Counting(p)
      /\ semaphores[1] > 0 /\ semaphores' = [semaphores EXCEPT ![1] = @ - 1]
      /\ UNCHANGED <<mpc, created, pending, last_thread, alive_count, rounds, statuses, in_game,
                     im_coordinator, this_round, left, target, seen>>
  BY DEF WaitShot, Wait, Take, ShotPass, Goto, CountPhase
<1>2. /\ semaphores'[0] = semaphores[0] /\ semaphores'[1] = semaphores[1] - 1
      /\ semaphores'[2] = semaphores[2] /\ semaphores' \in [0 .. 2 -> 0 .. N]
  BY <1>1
<1>3. TypeOK'
  <2>1. pc' \in [Players -> ThreadPcs] BY <1>1 DEF ThreadPcs
  <2> HIDE Shapes
  <2> QED BY <1>1, <1>2, <2>1 DEF TypeOK
<1>4. /\ Undead' = Undead /\ At({"uncount"})' = At({"uncount"}) /\ p \in At({"wait_shot"})
      /\ At({"wait_shot"})' = At({"wait_shot"}) \ {p}
  BY <1>1 DEF Undead, At
<1>5. semaphores'[1] = Cardinality(At({"wait_shot"})')
  BY <1>2, <1>4, Counts, Subsets DEF CountPhase
<1>6. p \in Unreceived /\ pc'[p] = "check" /\ \A q \in Players \ {p} : pc'[q] = pc[q]
  BY <1>1 DEF Unreceived, At
<1>7. Counting(p)'
  BY <1>1, <1>6 DEF Counting, CountPcs, HasReceived
<1> HIDE Shapes
<1>8. /\ \E q \in Players : Coordinates(q)'
      /\ \A q \in Players : Counting(q)' /\ (Coordinates(q)' => GathersReceived(q)')
  BY <1>1, <1>2, <1>6, <1>7, CountQuietly
<1>9. \A q \in Players : Spared(q)' <=> Spared(q) BY <1>1 DEF Spared
<1> QED BY <1>1, <1>2, <1>3, <1>4, <1>5, <1>8, <1>9 DEF CountPhase

LEMMA CountChecks ==
    ASSUME TypeOK, CountPhase, NEW p \in Players, Check(p)
    PROVE  TypeOK' /\ CountPhase'
<1> USE Shapes DEF mains, local, Goto
<1> DEFINE to == IF Spared(p) THEN "signal_received" ELSE "die"
<1>1. /\ pc[p] = "check" /\ pc' = [pc EXCEPT ![p] = to] /\ Counting(p)
      /\ UNCHANGED <<mpc, created, pending, last_thread, semaphores, alive_count, rounds,
                     statuses, in_game, im_coordinator, this_round, left, target, seen>>
  <2>1. Counting(p) /\ pc[p] = "check" BY DEF CountPhase, Check
  <2>2. "DEAD_THIS_ROUND" \in statuses[p] <=> ~Spared(p)
    BY <2>1 DEF Counting, Readies, Spared
  <2>3. Spared(p) => [statuses EXCEPT ![p] = {"READY"}] = statuses BY DEF Spared
  <2> QED BY <2>1, <2>2, <2>3 DEF Check
<1>2. TypeOK'
  <2>1. pc' \in [Players -> ThreadPcs] BY <1>1 DEF ThreadPcs
  <2> HIDE Shapes
  <2> QED BY <1>1, <2>1 DEF TypeOK
<1>3. /\ Undead' = Undead /\ At({"uncount"})' = At({"uncount"})
      /\ At({"wait_shot"})' = At({"wait_shot"})
  BY <1>1 DEF Undead, At
<1>4. p \in Unreceived /\ pc'[p] = to /\ \A q \in Players \ {p} : pc'[q] = pc[q]
  BY <1>1 DEF Unreceived, At
<1>5. \A q \in Players : Spared(q)' <=> Spared(q) BY <1>1 DEF Spared
<1>6. Counting(p)'
  BY <1>1, <1>4, <1>5 DEF Counting, CountPcs, HasReceived
<1> HIDE Shapes
<1>7. /\ \E q \in Players : Coordinates(q)'
      /\ \A q \in Players : Counting(q)' /\ (Coordinates(q)' => GathersReceived(q)')
  BY <1>1, <1>4, <1>6, CountQuietly
<1> QED BY <1>1, <1>2, <1>3, <1>5, <1>7 DEF CountPhase

LEMMA CountDies ==
    ASSUME TypeOK, CountPhase, NEW p \in Players, Die(p)
    PROVE  TypeOK' /\ CountPhase'
<1> USE Shapes DEF mains, local, Goto
<1>1. /\ pc[p] = "die" /\ pc' = [pc EXCEPT ![p] = "uncount"] /\ Counting(p)
      /\ statuses' = [statuses EXCEPT ![p] = statuses[p] \cup {"DEAD"}]
      /\ UNCHANGED <<mpc, created, pending, last_thread, semaphores, alive_count, rounds, in_game,
                     im_coordinator, this_round, left, target, seen>>
  BY DEF Die, CountPhase
<1>2. TypeOK'
  <2>1. pc' \in [Players -> ThreadPcs] BY <1>1 DEF ThreadPcs
  <2>2. statuses' \in [Players -> SUBSET Bits] BY <1>1 DEF Bits
  <2> HIDE Shapes
  <2> QED BY <1>1, <2>1, <2>2 DEF TypeOK
<1>3. /\ p \in Undead /\ Undead' = Undead \ {p}
      /\ p \in Players \ At({"uncount"}) /\ At({"uncount"})' = At({"uncount"}) \cup {p}
      /\ At({"wait_shot"})' = At({"wait_shot"})
  <2>1. "DEAD" \notin statuses[p] BY <1>1 DEF Counting, Readies
  <2> QED BY <1>1, <2>1 DEF Undead, At
<1>4. Undead' \cup At({"uncount"})' = Undead \cup At({"uncount"})
  BY <1>3
<1>5. alive_count = Cardinality(Undead') + Cardinality(At({"uncount"})')
  <2>1. Cardinality(Undead') = Cardinality(Undead) - 1 BY <1>3, Counts, Subsets
  <2>2. Cardinality(At({"uncount"})') = Cardinality(At({"uncount"})) + 1
    BY <1>3, Counts, Subsets
  <2>3. Cardinality(Undead) \in 0 .. N /\ Cardinality(At({"uncount"})) \in 0 .. N
    BY Counts, Subsets
  <2> QED BY <2>1, <2>2, <2>3 DEF CountPhase
<1>6. /\ p \in Unreceived /\ pc'[p] = "uncount"
      /\ \A q \in Players \ {p} : pc'[q] = pc[q] /\ statuses'[q] = statuses[q]
  BY <1>1 DEF Unreceived, At
<1>7. \A q \in Players : ~Spared(q) => ~Spared(q)'
  BY <1>1 DEF Spared
<1>8. Counting(p)'
  BY <1>3, <1>6 DEF Counting, CountPcs, HasReceived
<1> HIDE Shapes
<1>9. /\ \E q \in Players : Coordinates(q)'
      /\ \A q \in Players : Counting(q)' /\ (Coordinates(q)' => GathersReceived(q)')
  BY <1>1, <1>6, <1>8, CountQuietly
<1> QED BY <1>1, <1>2, <1>3, <1>4, <1>5, <1>7, <1>9 DEF CountPhase

LEMMA CountUncounts ==
    ASSUME TypeOK, CountPhase, NEW p \in Players, Uncount(p)
    PROVE  TypeOK' /\ CountPhase'
<1> USE Shapes DEF mains, local, Goto
<1>1. /\ pc[p] = "uncount" /\ pc' = [pc EXCEPT ![p] = "signal_received"] /\ Counting(p)
      /\ alive_count' = alive_count - 1 /\ in_game' = in_game \ {p}
      /\ UNCHANGED <<mpc, created, pending, last_thread, semaphores, rounds, statuses,
                     im_coordinator, this_round, left, target, seen>>
  BY DEF Uncount, Uncounted, CountPhase
<1>2. /\ p \notin Undead /\ Undead' = Undead
      /\ p \in At({"uncount"}) /\ At({"uncount"})' = At({"uncount"}) \ {p}
      /\ At({"wait_shot"})' = At({"wait_shot"})
  BY <1>1 DEF Undead, At, Counting
<1>3. /\ Cardinality(At({"uncount"})') = Cardinality(At({"uncount"})) - 1
      /\ Cardinality(At({"uncount"})) \in 0 .. N /\ Cardinality(At({"uncount"})) # 0
      /\ Cardinality(Undead) \in 0 .. N
  BY <1>2, Counts, Subsets
<1>4. alive_count' = Cardinality(Undead) + Cardinality(At({"uncount"})')
      /\ alive_count' \in 0 .. N
  BY <1>1, <1>3 DEF CountPhase
<1>5. in_game' = Undead \cup At({"uncount"})'
  BY <1>1, <1>2 DEF CountPhase
<1>6. TypeOK'
  <2>1. pc' \in [Players -> ThreadPcs] BY <1>1 DEF ThreadPcs
  <2>2. in_game' \subseteq Players BY <1>1
  <2> HIDE Shapes
  <2> QED BY <1>1, <1>4, <2>1, <2>2 DEF TypeOK
<1>7. /\ p \in Unreceived /\ pc'[p] = "signal_received" /\ \A q \in Players \ {p} : pc'[q] = pc[q]
  BY <1>1 DEF Unreceived, At
<1>8. \A q \in Players : Spared(q)' <=> Spared(q) BY <1>1 DEF Spared
<1>9. Counting(p)'
  BY <1>2, <1>7 DEF Counting, CountPcs, HasReceived
<1> HIDE Shapes
<1>10. /\ \E q \in Players : Coordinates(q)'
       /\ \A q \in Players : Counting(q)' /\ (Coordinates(q)' => GathersReceived(q)')
  BY <1>1, <1>7, <1>9, CountQuietly
<1> QED BY <1>1, <1>2, <1>4, <1>5, <1>6, <1>8, <1>10 DEF CountPhase

LEMMA CountSignals ==
    ASSUME TypeOK, CountPhase, NEW p \in Players, SignalReceived(p)
    PROVE  TypeOK' /\ CountPhase'
<1> USE Shapes DEF mains, Goto
<1> DEFINE to == IF im_coordinator[p] THEN "gather_received" ELSE "wait_received"
<1>1. /\ pc[p] = "signal_received" /\ pc' = [pc EXCEPT ![p] = to] /\ Counting(p)
      /\ semaphores' = [semaphores EXCEPT ![0] = IF @ + 1 <= N THEN @ + 1 ELSE @]
      /\ left' = [left EXCEPT ![p] = this_round[p]]
      /\ UNCHANGED <<mpc, created, pending, last_thread, alive_count, rounds, statuses, in_game,
                     im_coordinator, this_round, target, seen>>
  BY DEF SignalReceived, SignalAndGather, Signal, Release, Gathered, Maximum, CountPhase
<1>2. /\ p \in Unreceived /\ Unreceived' = Unreceived \ {p} /\ Remaining' = Remaining
      /\ Undead' = Undead /\ At({"uncount"})' = At({"uncount"})
      /\ At({"wait_shot"})' = At({"wait_shot"})
  BY <1>1 DEF Unreceived, Remaining, Undead, At
<1>3. /\ Cardinality(Unreceived') = Cardinality(Unreceived) - 1
      /\ Cardinality(Unreceived) \in 0 .. N /\ Cardinality(Unreceived) # 0
  BY <1>2, Counts, Subsets
<1>4. PICK c \in Players : Coordinates(c) /\ GathersReceived(c)
  BY DEF CountPhase
<1>5. semaphores[0] + Cardinality(Unreceived) <= N
  <2>1. left[c] <= N /\ this_round[c] <= N /\ pc[c] # "release_received"
    BY <1>2, <1>4 DEF GathersReceived
  <2> QED BY <1>3, <1>4, <2>1 DEF GathersReceived
<1>6. /\ semaphores'[0] = semaphores[0] + 1
      /\ semaphores'[1] = semaphores[1] /\ semaphores'[2] = semaphores[2]
      /\ semaphores' \in [0 .. 2 -> 0 .. N]
  BY <1>1, <1>3, <1>5
<1>7. TypeOK'
  <2>1. pc' \in [Players -> ThreadPcs] BY <1>1 DEF ThreadPcs
  <2>2. left' \in [Players -> 0 .. N] BY <1>1
  <2> HIDE Shapes
  <2> QED BY <1>1, <1>6, <2>1, <2>2 DEF TypeOK
<1>8. semaphores'[0] + Cardinality(Unreceived') = semaphores[0] + Cardinality(Unreceived)
  BY <1>3, <1>6
<1>9. \A q \in Players : Spared(q)' <=> Spared(q) BY <1>1 DEF Spared
<1>10. /\ pc'[p] = to /\ left'[p] = this_round[p]
       /\ \A q \in Players \ {p} : pc'[q] = pc[q] /\ left'[q] = left[q]
  BY <1>1
<1>11. \A q \in Players : Coordinates(q)' <=> Coordinates(q)
  BY <1>1, <1>10 DEF Coordinates
<1>12. ASSUME NEW q \in Players PROVE Counting(q)'
  <2>1. Counting(q) BY DEF CountPhase
  <2>2. q \in Undead' <=> q \in Undead BY <1>2
  <2> HIDE Shapes
  <2>3. CASE q = p
    BY <1>1, <1>9, <1>10, <2>1, <2>2, <2>3 DEF Counting, CountPcs, HasReceived
  <2>4. CASE q # p
    BY <1>1, <1>9, <1>10, <2>1, <2>2, <2>4 DEF Counting
  <2> QED BY <2>3, <2>4
<1>13. ASSUME NEW q \in Players, Coordinates(q) PROVE GathersReceived(q)'
  <2>1. GathersReceived(q) BY <1>13 DEF CountPhase
  <2>2. CASE q = p
    <3>1. pc'[p] = "gather_received" BY <1>10, <1>13, <2>2 DEF Coordinates
    <3>2. semaphores'[0] + Cardinality(Unreceived') = left'[p]
      BY <1>1, <1>8, <1>10, <2>1, <2>2 DEF GathersReceived
    <3> HIDE Shapes
    <3> QED BY <1>1, <1>2, <1>6, <1>11, <2>1, <2>2, <3>1, <3>2 DEF GathersReceived
  <2>3. CASE q # p
    <3>1. pc'[q] = pc[q] /\ left'[q] = left[q] BY <1>10, <2>3
    <3>2. pc[q] # "release_received" BY <1>2, <2>1 DEF GathersReceived
    <3> HIDE Shapes
    <3> QED BY <1>1, <1>2, <1>6, <1>8, <1>11, <2>1, <3>1, <3>2 DEF GathersReceived
  <2> QED BY <2>2, <2>3
<1> HIDE Shapes
<1> QED BY <1>1, <1>2, <1>6, <1>7, <1>9, <1>11, <1>12, <1>13 DEF CountPhase

LEMMA CountGathers ==
    ASSUME TypeOK, CountPhase, NEW p \in Players, GatherReceived(p)
    PROVE  TypeOK' /\ CountPhase'
<1> USE Shapes DEF mains
<1>1. /\ pc[p] = "gather_received" /\ Counting(p) /\ Coordinates(p) /\ GathersReceived(p)
      /\ UNCHANGED <<mpc, created, pending, last_thread, alive_count, rounds, statuses, in_game,
                     im_coordinator, this_round, target, seen>>
      /\ \/ /\ left[p] = 0 /\ pc' = [pc EXCEPT ![p] = "release_received"]
            /\ UNCHANGED <<semaphores, left>>
         \/ /\ left[p] # 0 /\ UNCHANGED pc /\ semaphores[0] > 0
            /\ semaphores' = [semaphores EXCEPT ![0] = @ - 1]
            /\ left' = [left EXCEPT ![p] = @ - 1]
  <2>1. pc[p] = "gather_received" BY DEF GatherReceived, Gather
  <2>2. Counting(p) BY DEF CountPhase
  <2>3. Coordinates(p) BY <2>1, <2>2 DEF Counting, Coordinates
  <2>4. GathersReceived(p) BY <2>3 DEF CountPhase
  <2> QED BY <2>1, <2>2, <2>3, <2>4
      DEF GatherReceived, Gather, GatheredAll, Take, Gathered, Goto
<1>2. pc'[p] \in {"gather_received", "release_received"} /\ \A q \in Players \ {p} : pc'[q] = pc[q]
  BY <1>1
<1>3. /\ Unreceived' = Unreceived /\ Remaining' = Remaining
      /\ Undead' = Undead /\ At({"uncount"})' = At({"uncount"})
      /\ At({"wait_shot"})' = At({"wait_shot"})
  BY <1>1, <1>2 DEF Unreceived, Remaining, Undead, At
<1>4. Cardinality(Unreceived) \in 0 .. N /\ (Cardinality(Unreceived) = 0 <=> Unreceived = {})
  BY Counts, Subsets
<1>5. /\ semaphores' \in [0 .. 2 -> 0 .. N] /\ left' \in [Players -> 0 .. N]
      /\ pc' \in [Players -> ThreadPcs]
      /\ semaphores'[1] = semaphores[1] /\ semaphores'[2] = semaphores[2]
  <2>1. CASE left[p] = 0 BY <1>1, <2>1 DEF ThreadPcs
  <2>2. CASE left[p] # 0
    <3>1. left[p] - 1 \in 0 .. N /\ (semaphores[0] > 0 => semaphores[0] - 1 \in 0 .. N)
      BY <2>2
    <3> QED BY <1>1, <2>2, <3>1
  <2> QED BY <2>1, <2>2
<1>6. TypeOK'
  <2> HIDE Shapes
  <2> QED BY <1>1, <1>5 DEF TypeOK
<1>7. \A q \in Players : Spared(q)' <=> Spared(q) BY <1>1 DEF Spared
<1>8. \A q \in Players : Coordinates(q)' <=> Coordinates(q)
  BY <1>1, <1>2 DEF Coordinates
<1>9. \A q \in Players : Coordinates(q) => q = p
  BY <1>1 DEF GathersReceived
<1>10. ASSUME NEW q \in Players PROVE Counting(q)'
  <2>1. Counting(q) BY DEF CountPhase
  <2>2. q \in Undead' <=> q \in Undead BY <1>3
  <2> HIDE Shapes
  <2> QED BY <1>1, <1>2, <1>7, <2>1, <2>2 DEF Counting, CountPcs, HasReceived
<1>11. GathersReceived(p)'
  <2>1. semaphores[0] + Cardinality(Unreceived) = left[p] BY <1>1 DEF GathersReceived
  <2>2. CASE left[p] = 0
    <3>1. semaphores'[0] = 0 /\ Unreceived = {} BY <1>1, <1>4, <2>1, <2>2
    <3>2. pc'[p] = "release_received" BY <1>1, <2>2
    <3> HIDE Shapes
    <3> QED BY <1>1, <1>3, <1>5, <1>8, <3>1, <3>2 DEF GathersReceived
  <2>3. CASE left[p] # 0
    <3>1. semaphores'[0] + Cardinality(Unreceived) = left'[p] BY <1>1, <1>4, <2>1, <2>3
    <3>2. pc'[p] = "gather_received" BY <1>1, <2>3
    <3> HIDE Shapes
    <3> QED BY <1>1, <1>3, <1>5, <1>8, <3>1, <3>2 DEF GathersReceived
  <2> QED BY <2>2, <2>3
<1> HIDE Shapes
<1> QED BY <1>1, <1>3, <1>5, <1>6, <1>7, <1>8, <1>9, <1>10, <1>11 DEF CountPhase

(* One that has died takes a unit of the last pass: everybody dies *)
LEMMA CountTakes ==
    ASSUME TypeOK, CountPhase, NEW p \in Players, WaitReceived(p)
    PROVE  TypeOK' /\ CountPhase'
<1> USE Shapes DEF mains, local
<1>1. /\ pc[p] = "wait_received" /\ Counting(p) /\ p \notin Undead
      /\ pc' = [pc EXCEPT ![p] = "returned"]
      /\ semaphores[2] > 0 /\ semaphores' = [semaphores EXCEPT ![2] = @ - 1]
      /\ UNCHANGED <<mpc, created, pending, last_thread, alive_count, rounds, statuses, in_game,
                     im_coordinator, this_round, left, target, seen>>
  <2>1. pc[p] = "wait_received" /\ semaphores[2] > 0
    BY DEF WaitReceived, Wait, Take, ReceivedPass
  <2>2. Counting(p) /\ ~Spared(p) BY <2>1 DEF CountPhase
  <2>3. p \notin Undead BY <2>1, <2>2 DEF Counting, HasReceived
  <2>4. "DEAD" \in statuses[p] BY <2>3 DEF Undead
  <2> QED BY <2>1, <2>2, <2>3, <2>4 DEF WaitReceived, Wait, Take, ReceivedPass, Goto
<1>2. /\ semaphores'[0] = semaphores[0] /\ semaphores'[1] = semaphores[1]
      /\ semaphores'[2] = semaphores[2] - 1 /\ semaphores' \in [0 .. 2 -> 0 .. N]
  BY <1>1
<1>3. TypeOK'
  <2>1. pc' \in [Players -> ThreadPcs] BY <1>1 DEF ThreadPcs
  <2> HIDE Shapes
  <2> QED BY <1>1, <1>2, <2>1 DEF TypeOK
<1>4. /\ Unreceived' = Unreceived /\ p \in Remaining /\ Remaining' = Remaining \ {p}
      /\ Undead' = Undead /\ At({"uncount"})' = At({"uncount"})
      /\ At({"wait_shot"})' = At({"wait_shot"})
  BY <1>1 DEF Unreceived, Remaining, Undead, At
<1>5. Cardinality(Remaining') = Cardinality(Remaining) - 1 /\ Cardinality(Remaining) \in 0 .. N
  BY <1>4, Counts, Subsets
<1>6. \A q \in Players : Spared(q)' <=> Spared(q) BY <1>1 DEF Spared
<1>7. pc'[p] = "returned" /\ \A q \in Players \ {p} : pc'[q] = pc[q]
  BY <1>1
<1>8. \A q \in Players : Coordinates(q)' <=> Coordinates(q)
  BY <1>1, <1>7 DEF Coordinates
<1>9. ASSUME NEW q \in Players PROVE Counting(q)'
  <2>1. Counting(q) BY DEF CountPhase
  <2>2. q \in Undead' <=> q \in Undead BY <1>4
  <2> HIDE Shapes
  <2> QED BY <1>1, <1>6, <1>7, <2>1, <2>2 DEF Counting, CountPcs, HasReceived
<1>10. ASSUME NEW q \in Players, Coordinates(q) PROVE GathersReceived(q)'
  <2>1. GathersReceived(q) /\ q # p BY <1>1, <1>10 DEF CountPhase, Coordinates
  <2>2. semaphores'[2] + this_round[q] = Cardinality(Remaining')
    BY <1>2, <1>5, <2>1 DEF GathersReceived
  <2>3. pc'[q] = pc[q] BY <1>7, <2>1
  <2> HIDE Shapes
  <2> QED BY <1>1, <1>2, <1>4, <1>8, <2>1, <2>2, <2>3 DEF GathersReceived
<1>11. semaphores'[2] > 0 => \A q \in Players : ~Spared(q)
  BY <1>1 DEF CountPhase
<1> HIDE Shapes
<1> QED BY <1>1, <1>2, <1>3, <1>4, <1>6, <1>8, <1>9, <1>10, <1>11 DEF CountPhase

(* The coordinator lets those that play go on to the next round *)
LEMMA CountReleases ==
    ASSUME TypeOK, CountPhase, NEW p \in Players, ReleaseReceived(p)
    PROVE  TypeOK' /\ ShootPhase'
<1> USE Shapes DEF mains, local, Goto
<1>1. /\ pc[p] = "release_received" /\ Counting(p) /\ Coordinates(p) /\ GathersReceived(p)
  <2>1. pc[p] = "release_received" BY DEF ReleaseReceived, ReleaseAll
  <2>2. Counting(p) BY DEF CountPhase
  <2>3. Coordinates(p) BY <2>1, <2>2 DEF Counting, Coordinates
  <2>4. GathersReceived(p) BY <2>3 DEF CountPhase
  <2> QED BY <2>1, <2>2, <2>3, <2>4
<1>2. /\ semaphores[0] = 0 /\ Unreceived = {}
      /\ semaphores[2] + this_round[p] = Cardinality(Remaining) /\ Cardinality(Remaining) \in 0 .. N
  BY <1>1, Counts, Subsets DEF GathersReceived
<1>3. /\ semaphores' = [semaphores EXCEPT ![2] = Cardinality(Remaining)]
      /\ pc' = [pc EXCEPT ![p] = "wait_received"]
      /\ UNCHANGED <<mpc, created, pending, last_thread, alive_count, rounds, statuses, in_game,
                     im_coordinator, this_round, left, target, seen>>
  <2>1. semaphores[2] + this_round[p] <= N BY <1>2
  <2> QED BY <1>2, <2>1 DEF ReleaseReceived, ReleaseAll, Release, ReceivedPass, Maximum
<1>4. \A q \in Players : /\ pc'[q] \in {"wait_received", "returned"}
                         /\ pc'[q] = "returned" <=> pc[q] = "returned"
                         /\ pc[q] = "returned" => q \notin Undead
                         /\ Spared(q) \/ q \notin Undead
  <2> SUFFICES ASSUME NEW q \in Players
               PROVE  /\ pc'[q] \in {"wait_received", "returned"}
                      /\ pc'[q] = "returned" <=> pc[q] = "returned"
                      /\ pc[q] = "returned" => q \notin Undead
                      /\ Spared(q) \/ q \notin Undead
    OBVIOUS
  <2>1. Counting(q) /\ q \notin Unreceived BY <1>2 DEF CountPhase
  <2>2. pc[q] \in HasReceived \cup {"returned"}
    BY <2>1 DEF Counting, CountPcs, Unreceived, At, HasReceived
  <2>3. pc[q] \in {"gather_received", "release_received"} => q = p
    BY <1>1, <2>1 DEF Counting, Coordinates, GathersReceived
  <2>4. (pc[q] = "returned" => q \notin Undead) /\ (Spared(q) \/ q \notin Undead)
    BY <2>1, <2>2 DEF Counting
  <2> QED BY <1>1, <1>3, <2>2, <2>3, <2>4 DEF HasReceived
<1>5. /\ Undead' = Undead /\ Signalled' = {} /\ Unsignalled' = Undead /\ Stragglers' = Remaining
      /\ At({"uncount"}) = {}
  <2>1. Undead' = Undead BY <1>3 DEF Undead
  <2>2. Signalled' = {} BY <1>4 DEF Signalled, HasSignalled, Undead
  <2>3. Stragglers' = Remaining BY <1>4 DEF Stragglers, Remaining, At
  <2>4. At({"uncount"}) = {} BY <1>2 DEF Unreceived, At
  <2> QED BY <2>1, <2>2, <2>3, <2>4 DEF Unsignalled
<1>6. /\ semaphores'[0] = 0 /\ semaphores'[1] = 0 /\ semaphores'[2] = Cardinality(Remaining)
      /\ semaphores' \in [0 .. 2 -> 0 .. N]
  <2>1. At({"wait_shot"}) = {} BY <1>2 DEF Unreceived, At
  <2>2. semaphores[1] = 0
    BY <2>1, FS_EmptySet DEF CountPhase
  <2> QED BY <1>2, <1>3, <2>2
<1>7. TypeOK'
  <2>1. pc' \in [Players -> ThreadPcs] BY <1>3 DEF ThreadPcs
  <2> HIDE Shapes
  <2> QED BY <1>3, <1>6, <2>1 DEF TypeOK
<1>8. in_game = Undead /\ alive_count = Cardinality(Undead)
  <2>1. Cardinality({}) = 0 BY FS_EmptySet
  <2>2. Cardinality(Undead) \in 0 .. N BY Counts, Subsets
  <2>3. in_game = Undead BY <1>5 DEF CountPhase
  <2>4. alive_count = Cardinality(Undead) + 0 BY <1>5, <2>1 DEF CountPhase
  <2> HIDE Shapes
  <2> QED BY <2>2, <2>3, <2>4
<1>9. \E q, r \in Players \ Undead : q # r
  <2>1. PICK q \in Players, r \in Players : q # r /\ ~Spared(q) /\ ~Spared(r)
    BY DEF CountPhase
  <2> QED BY <1>4, <2>1
<1>10. ASSUME NEW q \in Players PROVE Shooting(q)'
  <2>1. q \in Undead => statuses'[q] \in Readies BY <1>3, <1>4 DEF Spared, Readies
  <2>2. q \in Undead => Living(q)'
    BY <1>4, <2>1 DEF Living, Engaged, ShootPcs, HasSignalled
  <2>3. GathersShots(q)'
    <3>1. semaphores'[0] + Cardinality(Undead) = Cardinality(Undead)
      BY <1>6, Counts, Subsets
    <3>2. pc'[q] \in {"wait_received", "returned"} BY <1>4
    <3> HIDE Shapes
    <3> QED BY <1>5, <3>1, <3>2 DEF GathersShots, Engaged, ShootPcs, HasSignalled
  <2> HIDE Shapes
  <2> QED BY <1>4, <1>5, <2>2, <2>3 DEF Shooting
<1>11. mpc = "join" /\ last_thread = N BY DEF CountPhase
<1> HIDE Shapes
<1> QED BY <1>3, <1>5, <1>6, <1>7, <1>8, <1>9, <1>10, <1>11 DEF ShootPhase

LEMMA CountStays ==
    ASSUME TypeOK, CountPhase, NEW p \in Players, Thread(p), ~ReleaseReceived(p)
    PROVE  TypeOK' /\ CountPhase'
<1>1. pc[p] \in {"wait_shot", "wait_received", "returned"} \cup CountPcs
  BY DEF CountPhase, Counting
<1>2. \/ WaitShot(p) \/ Check(p) \/ Die(p) \/ Uncount(p) \/ SignalReceived(p)
      \/ GatherReceived(p) \/ WaitReceived(p)
  BY <1>1
  DEF Thread, Start, NewShooter, SignalReady, Signal, WaitReady, Wait, StartRound, Aim, Load,
      Store, SignalShot, SignalAndGather, GatherShot, Gather, ReleaseShot, ReleaseAll, CountPcs
<1> QED BY <1>2, CountPasses, CountChecks, CountDies, CountUncounts, CountSignals, CountGathers,
        CountTakes

LEMMA CountThread ==
    ASSUME TypeOK, CountPhase, NEW p \in Players, Thread(p)
    PROVE  TypeOK' /\ (CountPhase' \/ ShootPhase')
BY CountReleases, CountStays
-----------------------------------------------------------------------------
(* The phases follow one another *)
LEMMA PhaseStutters ==
    ASSUME UNCHANGED vars
    PROVE  /\ TypeOK => TypeOK'
           /\ StartPhase => StartPhase'
           /\ ShootPhase => ShootPhase'
           /\ CountPhase => CountPhase'
<1> USE DEF vars, mains, data, local
<1>1. /\ Undead' = Undead /\ Signalled' = Signalled /\ Unsignalled' = Unsignalled
      /\ Unready' = Unready /\ Stragglers' = Stragglers /\ Unreceived' = Unreceived
      /\ Remaining' = Remaining /\ At({"wait_shot"})' = At({"wait_shot"})
      /\ At({"uncount"})' = At({"uncount"})
  BY DEF Undead, Signalled, Unsignalled, Unready, Stragglers, Unreceived, Remaining, At
<1>2. \A p \in Players : /\ IsCoordinator(p)' <=> IsCoordinator(p)
                         /\ Spared(p)' <=> Spared(p)
                         /\ Coordinates(p)' <=> Coordinates(p)
  BY <1>1 DEF IsCoordinator, Spared, Coordinates
<1>3. TypeOK => TypeOK' BY DEF TypeOK
<1>4. StartPhase => StartPhase'
  BY <1>1, <1>2 DEF StartPhase, Preparing
<1>5. ShootPhase => ShootPhase'
  <2>1. ASSUME NEW p \in Players, Living(p) PROVE Living(p)'
    BY <1>1, <1>2, <2>1 DEF Living, Spared
  <2>2. ASSUME NEW p \in Players, GathersShots(p) PROVE GathersShots(p)'
    BY <1>1, <2>2 DEF GathersShots
  <2> QED BY <1>1, <1>2, <2>1, <2>2 DEF ShootPhase, Shooting
<1>6. CountPhase => CountPhase'
  <2>1. ASSUME NEW p \in Players, Counting(p) PROVE Counting(p)'
    BY <1>1, <1>2, <2>1 DEF Counting
  <2>2. ASSUME NEW p \in Players, GathersReceived(p) PROVE GathersReceived(p)'
    BY <1>1, <1>2, <2>2 DEF GathersReceived
  <2> QED BY <1>1, <1>2, <2>1, <2>2 DEF CountPhase
<1> QED BY <1>3, <1>4, <1>5, <1>6

LEMMA PhaseNext ==
    ASSUME Phases, [Next]_vars, InTime
    PROVE  Phases'
<1>1. CASE UNCHANGED vars BY <1>1, PhaseStutters DEF Phases
<1>2. CASE StartPhase /\ (Main \/ \E p \in Players : Thread(p))
  <2>1. ~Join BY <1>2 DEF StartPhase, Join
  <2> QED BY <1>2, <2>1, StartCreates, StartGathers, StartReleases, StartThread
      DEF Main, Phases
<1>3. CASE ShootPhase /\ (Main \/ \E p \in Players : Thread(p))
  <2>1. Main => Join
    BY <1>3 DEF ShootPhase, Main, CreateThread, GatherReady, ReleaseReady
  <2> QED BY <1>3, <2>1, ShootEnds, ShootThread DEF Phases
<1>4. CASE CountPhase /\ (Main \/ \E p \in Players : Thread(p))
  <2>1. ~Join BY <1>4 DEF CountPhase, Join, Coordinates
  <2>2. ~Main
    BY <1>4, <2>1 DEF CountPhase, Main, CreateThread, GatherReady, ReleaseReady
  <2> QED BY <1>4, <2>2, CountThread DEF Phases
<1> QED BY <1>1, <1>2, <1>3, <1>4 DEF Next, Done, Phases

LEMMA FourPhases ==
    ASSUME N <= 4
    PROVE  Spec => []Phases
<1>1. Phases /\ [Next]_vars => Phases' BY PhaseNext DEF InTime
<1> QED BY <1>1, InitPhase, PTL DEF Spec

(* What the phases say of the properties *)
LEMMA PhasesAreApart == Phases => PhasesApart
<1> SUFFICES ASSUME Phases PROVE PhasesApart
  OBVIOUS
<1>1. CASE StartPhase
  BY <1>1 DEF StartPhase, Preparing, PhasesApart, ShootPcs
<1>2. CASE ShootPhase
  <2>1. ~Resolving
    BY <1>2 DEF ShootPhase, Shooting, Living, Resolving, ShotPass, CountPcs, Engaged, ShootPcs,
                HasSignalled
  <2> QED BY <2>1 DEF PhasesApart
<1>3. CASE CountPhase
  BY <1>3 DEF CountPhase, Counting, CountPcs, PhasesApart, ShootPcs
<1> QED BY <1>1, <1>2, <1>3 DEF Phases

LEMMA ReleasesFit == Phases => NoReleaseFails
<1> SUFFICES ASSUME Phases, NEW p \in Players
             PROVE  /\ pc[p] \in {"signal_ready", "signal_shot", "signal_received"}
                          => semaphores[Gathered] < Maximum
                    /\ pc[p] = "release_shot" => semaphores[ShotPass] + this_round[p] <= Maximum
                    /\ pc[p] = "release_received"
                          => semaphores[ReceivedPass] + this_round[p] <= Maximum
  BY DEF NoReleaseFails
<1> USE DEF Gathered, ShotPass, ReceivedPass, Maximum
<1>0. TypeOK BY DEF Phases
<1> USE <1>0, Shapes
<1>1. CASE StartPhase
  <2>1. pc[p] \notin {"signal_shot", "signal_received", "release_shot", "release_received"}
    BY <1>1 DEF StartPhase, Preparing
  <2>2. ASSUME pc[p] = "signal_ready" PROVE semaphores[0] < N
    <3>1. p \in Unready BY <2>2 DEF Unready, At
    <3>2. Cardinality(Unready) \in 0 .. N /\ Cardinality(Unready) # 0
      BY <3>1, Counts, Subsets
    <3> QED BY <1>1, <3>2 DEF StartPhase
  <2> QED BY <2>1, <2>2
<1>2. CASE ShootPhase
  <2>1. pc[p] \notin {"signal_ready", "signal_received", "release_received"}
    BY <1>2 DEF ShootPhase, Shooting, Living, Engaged, ShootPcs, HasSignalled
  <2>2. ASSUME pc[p] = "signal_shot" PROVE semaphores[0] < N
    <3>1. p \in Undead /\ Living(p) BY <1>2, <2>2, ShootLives
    <3>2. PICK c \in Players : IsCoordinator(c) BY <3>1, SomeCoordinator
    <3>3. p \in Unsignalled BY <2>2, <3>1 DEF Unsignalled, Signalled, HasSignalled
    <3>4. /\ Cardinality(Unsignalled) \in 0 .. N /\ Cardinality(Unsignalled) # 0
          /\ Cardinality(Undead) \in 0 .. N
      BY <3>3, Counts, Subsets
    <3>5. GathersShots(c) /\ pc[c] # "release_shot"
      BY <1>2, <3>2, <3>3 DEF ShootPhase, Shooting, GathersShots
    <3>6. semaphores[0] + Cardinality(Unsignalled) <= N
      BY <3>4, <3>5 DEF GathersShots
    <3> QED BY <3>4, <3>6
  <2>3. ASSUME pc[p] = "release_shot" PROVE semaphores[1] + this_round[p] <= N
    BY <1>2 DEF ShootPhase
  <2> QED BY <2>1, <2>2, <2>3
<1>3. CASE CountPhase
  <2>1. pc[p] \notin {"signal_ready", "signal_shot", "release_shot"} /\ Counting(p)
    BY <1>3 DEF CountPhase, Counting, CountPcs
  <2>2. ASSUME pc[p] = "signal_received" PROVE semaphores[0] < N
    <3>1. PICK c \in Players : Coordinates(c) /\ GathersReceived(c) BY <1>3 DEF CountPhase
    <3>2. p \in Unreceived BY <2>2 DEF Unreceived, At
    <3>3. Cardinality(Unreceived) \in 0 .. N /\ Cardinality(Unreceived) # 0
      BY <3>2, Counts, Subsets
    <3>4. left[c] <= N /\ this_round[c] <= N /\ pc[c] # "release_received"
      BY <3>1, <3>2 DEF GathersReceived
    <3>5. semaphores[0] + Cardinality(Unreceived) <= N
      BY <3>1, <3>3, <3>4 DEF GathersReceived
    <3> QED BY <3>3, <3>5
  <2>3. ASSUME pc[p] = "release_received" PROVE semaphores[2] + this_round[p] <= N
    <3>1. GathersReceived(p)
      BY <1>3, <2>1, <2>3 DEF Counting, CountPhase, Coordinates
    <3>2. Cardinality(Remaining) \in 0 .. N BY Counts, Subsets
    <3> QED BY <3>1, <3>2 DEF GathersReceived
  <2> QED BY <2>1, <2>2, <2>3
<1> QED BY <1>1, <1>2, <1>3 DEF Phases

LEMMA SurvivorReturned == Phases => ReturnsSurvivor
<1> SUFFICES ASSUME Phases, mpc = "done"
             PROVE  IF Undead = {} THEN last_thread = N ELSE Undead = {last_thread}
  BY DEF ReturnsSurvivor
<1>1. ShootPhase BY DEF Phases, StartPhase, CountPhase
<1>2. \A p \in Undead : last_thread = p /\ p # N
  BY <1>1, Shapes DEF Phases, ShootPhase, Shooting, Living, Undead
<1>3. last_thread # N => Undead = {last_thread} BY <1>1 DEF ShootPhase
<1> QED BY <1>2, <1>3

(* At most four threads: every variable keeps its type; the counts of the   *)
(* living and the indices of the targets stay in range.                      *)
THEOREM FourTyped == ASSUME N <= 4 PROVE Spec => []TypeOK
BY FourPhases, PTL DEF Phases

(* At most four threads: the counting of a round is over before anybody     *)
(* starts the next, although one that died may take its unit late.           *)
THEOREM FourApart == ASSUME N <= 4 PROVE Spec => []PhasesApart
BY FourPhases, PhasesAreApart, PTL

(* At most four threads: no ReleaseSemaphore passes the maximum.            *)
THEOREM FourReleases == ASSUME N <= 4 PROVE Spec => []NoReleaseFails
BY FourPhases, ReleasesFit, PTL

(* At most four threads: main returns the id of whoever is left.            *)
THEOREM FourReturn == ASSUME N <= 4 PROVE Spec => []ReturnsSurvivor
BY FourPhases, SurvivorReturned, PTL
-----------------------------------------------------------------------------
(* Any number of threads, until the second round begins: nobody leads the   *)
(* shooting while another has yet to leave the round before                  *)
Leading == \E p \in Players : pc[p] \in Engaged /\ im_coordinator[p]
Leaving == \E p \in Players : pc[p] = "wait_received"

FirstPhases ==
    /\ TypeOK
    /\ \/ StartPhase /\ rounds = 0
       \/ /\ ShootPhase
          /\ rounds = 0 => ~Leading /\ ~Leaving
          /\ ~Leading \/ ~Leaving
       \/ CountPhase /\ rounds > 0
UntilSecond == rounds \in Nat /\ (rounds <= 1 => FirstPhases)

(* Only a thread at the head of its loop begins a round *)
LEMMA RoundsGrow ==
    ASSUME rounds \in Nat, [Next]_vars
    PROVE  \/ rounds' = rounds
           \/ rounds' = rounds + 1 /\ \E p \in Players : pc[p] = "round"
<1> USE DEF mains, data, local
<1>1. CASE Main BY <1>1 DEF Main, CreateThread, GatherReady, ReleaseReady, Join
<1>2. CASE \E p \in Players : Thread(p)
  BY <1>2
  DEF Thread, Start, NewShooter, SignalReady, Signal, WaitReady, Wait, StartRound, Aim, Load,
      Store, SignalShot, SignalAndGather, GatherShot, Gather, ReleaseShot, ReleaseAll, WaitShot,
      Check, Die, Uncount, SignalReceived, GatherReceived, ReleaseReceived, WaitReceived
<1>3. CASE UNCHANGED vars \/ Done BY <1>3 DEF Done, vars
<1> QED BY <1>1, <1>2, <1>3 DEF Next

(* What a step of one thread does to Leading and Leaving while they shoot *)
LEMMA ShootSteps ==
    ASSUME TypeOK, ShootPhase, NEW p \in Players, Thread(p), ~ReleaseShot(p)
    PROVE  /\ Leaving' => Leaving
           /\ rounds' = rounds => (Leading' => Leading)
<1> USE DEF mains, data, local, Goto
<1>0. /\ pc \in [Players -> ThreadPcs] /\ im_coordinator \in [Players -> BOOLEAN]
      /\ rounds \in Nat
  BY Shapes
<1>1. /\ semaphores[1] = 0
      /\ pc[p] \in {"wait_ready", "wait_received", "round", "returned"} \cup Engaged
  BY DEF ShootPhase, Shooting, Living
<1>2. \/ WaitReady(p) \/ WaitReceived(p) \/ StartRound(p) \/ Aim(p) \/ Load(p) \/ Store(p)
      \/ SignalShot(p) \/ GatherShot(p)
  <2>1. ~WaitShot(p) BY <1>1 DEF WaitShot, Wait, Take, ShotPass
  <2> QED BY <1>1, <2>1
      DEF Thread, Start, NewShooter, SignalReady, Signal, Check, Die, Uncount, SignalReceived,
          SignalAndGather, GatherReceived, Gather, ReleaseReceived, ReleaseAll, Engaged, ShootPcs,
          HasSignalled
<1>3. /\ \A q \in Players \ {p} : pc'[q] = pc[q] /\ im_coordinator'[q] = im_coordinator[q]
      /\ pc'[p] # "wait_received"
      /\ rounds' = rounds /\ pc'[p] \in Engaged /\ im_coordinator'[p]
            => pc[p] \in Engaged /\ im_coordinator[p]
  <2> USE DEF Engaged, ShootPcs, HasSignalled
  <2>1. CASE WaitReady(p) \/ WaitReceived(p)
    BY <1>0, <2>1 DEF WaitReady, WaitReceived, Wait
  <2>2. CASE StartRound(p)
    <3>1. CASE ~IsCoordinator(p) BY <1>0, <2>2, <3>1 DEF StartRound
    <3>2. CASE IsCoordinator(p) BY <1>0, <2>2, <3>2 DEF StartRound
    <3> QED BY <3>1, <3>2
  <2>3. CASE Aim(p) \/ Load(p) \/ Store(p) BY <1>0, <2>3 DEF Aim, Load, Store
  <2>4. CASE SignalShot(p) BY <1>0, <2>4 DEF SignalShot, SignalAndGather, Signal
  <2>5. CASE GatherShot(p) BY <1>0, <2>5 DEF GatherShot, Gather
  <2> QED BY <1>2, <2>1, <2>2, <2>3, <2>4, <2>5
<1> QED BY <1>3 DEF Leading, Leaving

(* Nobody leads yet when the count of a round has been released *)
LEMMA NobodyLeads ==
    ASSUME TypeOK, CountPhase, NEW p \in Players, ReleaseReceived(p)
    PROVE  ~Leading'
<1>1. /\ pc[p] = "release_received" /\ pc' = [pc EXCEPT ![p] = "wait_received"]
      /\ Counting(p) /\ Coordinates(p) /\ GathersReceived(p) /\ Unreceived = {}
  <2>1. pc[p] = "release_received" /\ pc' = [pc EXCEPT ![p] = "wait_received"]
    BY DEF ReleaseReceived, ReleaseAll, Goto
  <2>2. Counting(p) /\ Coordinates(p) BY <2>1 DEF CountPhase, Counting, Coordinates
  <2> QED BY <2>1, <2>2 DEF CountPhase, GathersReceived
<1>2. ASSUME NEW q \in Players PROVE pc'[q] \in HasReceived \cup {"returned"}
  <2>1. Counting(q) /\ q \notin Unreceived BY <1>1 DEF CountPhase
  <2> QED BY <1>1, <2>1, Shapes DEF Counting, CountPcs, Unreceived, At, HasReceived
<1> QED BY <1>2 DEF Leading, Engaged, ShootPcs, HasSignalled, HasReceived

LEMMA UntilSecondNext ==
    ASSUME UntilSecond, [Next]_vars
    PROVE  UntilSecond'
<1>1. /\ rounds \in Nat /\ rounds' \in Nat /\ rounds' >= rounds
      /\ \/ rounds' = rounds
         \/ rounds' = rounds + 1 /\ \E p \in Players : pc[p] = "round"
  BY RoundsGrow DEF UntilSecond
<1> SUFFICES ASSUME rounds' <= 1 PROVE FirstPhases'
  BY <1>1 DEF UntilSecond
<1>2. FirstPhases /\ TypeOK /\ rounds <= 1
  BY <1>1 DEF UntilSecond, FirstPhases
<1>3. CASE UNCHANGED vars
  <2>1. (Leading' <=> Leading) /\ (Leaving' <=> Leaving) /\ rounds' = rounds
    BY <1>3 DEF vars, data, local, Leading, Leaving
  <2> QED BY <1>2, <1>3, <2>1, PhaseStutters DEF FirstPhases
<1>4. CASE StartPhase /\ rounds = 0 /\ (Main \/ \E p \in Players : Thread(p))
  <2>1. rounds' = 0
    BY <1>1, <1>4 DEF StartPhase, Preparing
  <2>2. CASE ReleaseReady
    <3>1. TypeOK' /\ ShootPhase' BY <1>2, <1>4, <2>2, StartReleases
    <3>2. \A p \in Players : pc'[p] = pc[p] /\ Preparing(p)
      BY <1>4, <2>2 DEF ReleaseReady, StartPhase
    <3>3. ~Leading' /\ ~Leaving'
      BY <3>2 DEF Preparing, Leading, Leaving, Engaged, ShootPcs, HasSignalled
    <3> QED BY <2>1, <3>1, <3>3 DEF FirstPhases
  <2>3. CASE ~ReleaseReady
    <3>1. ~Join BY <1>4 DEF StartPhase, Join
    <3>2. TypeOK' /\ StartPhase'
      BY <1>2, <1>4, <2>3, <3>1, StartCreates, StartGathers, StartThread DEF Main
    <3> QED BY <2>1, <3>2 DEF FirstPhases
  <2> QED BY <2>2, <2>3
<1>5. CASE CountPhase /\ rounds > 0 /\ (Main \/ \E p \in Players : Thread(p))
  <2>1. rounds' = rounds
    BY <1>1, <1>5 DEF CountPhase, Counting, CountPcs
  <2>2. PICK p \in Players : Thread(p)
    <3>1. ~Join BY <1>5 DEF CountPhase, Join, Coordinates
    <3> QED BY <1>5, <3>1 DEF CountPhase, Main, CreateThread, GatherReady, ReleaseReady
  <2>3. CASE ReleaseReceived(p)
    <3>1. TypeOK' /\ ShootPhase' /\ ~Leading' BY <1>2, <1>5, <2>3, CountReleases, NobodyLeads
    <3> QED BY <1>5, <2>1, <3>1 DEF FirstPhases
  <2>4. CASE ~ReleaseReceived(p)
    <3>1. TypeOK' /\ CountPhase' BY <1>2, <1>5, <2>2, <2>4, CountStays
    <3> QED BY <1>5, <2>1, <3>1 DEF FirstPhases
  <2> QED BY <2>3, <2>4
<1>6. CASE /\ ShootPhase /\ (rounds = 0 => ~Leading /\ ~Leaving) /\ (~Leading \/ ~Leaving)
           /\ (Main \/ \E p \in Players : Thread(p))
  <2>1. CASE Main
    <3>1. Join BY <1>6, <2>1 DEF ShootPhase, Main, CreateThread, GatherReady, ReleaseReady
    <3>2. TypeOK' /\ ShootPhase' BY <1>2, <1>6, <3>1, ShootEnds
    <3>3. (Leading' <=> Leading) /\ (Leaving' <=> Leaving) /\ rounds' = rounds
      BY <3>1 DEF Join, data, local, Leading, Leaving
    <3> QED BY <1>6, <3>2, <3>3 DEF FirstPhases
  <2>2. CASE \E p \in Players : ReleaseShot(p)
    <3>1. PICK p \in Players : ReleaseShot(p) BY <2>2
    <3>2. pc[p] = "release_shot" /\ rounds' = rounds
      BY <3>1 DEF ReleaseShot, ReleaseAll
    <3>3. Living(p) BY <1>2, <1>6, <3>2, ShootLives
    <3>4. Leading BY <3>2, <3>3 DEF Living, Leading, Engaged, HasSignalled
    <3>5. ~Leaving /\ rounds # 0 BY <1>6, <3>4
    <3>6. TypeOK' /\ CountPhase' BY <1>2, <1>6, <3>1, <3>5, ShootReleases DEF InTime, Leaving
    <3> QED BY <1>1, <3>2, <3>5, <3>6 DEF FirstPhases
  <2>3. CASE ~Main /\ \A p \in Players : ~ReleaseShot(p)
    <3>1. PICK p \in Players : Thread(p) BY <1>6, <2>3
    <3>2. TypeOK' /\ ShootPhase' BY <1>2, <1>6, <2>3, <3>1, ShootStays
    <3>3. /\ Leaving' => Leaving
          /\ rounds' = rounds => (Leading' => Leading)
      BY <1>2, <1>6, <2>3, <3>1, ShootSteps
    <3>4. CASE rounds' = rounds BY <1>6, <3>2, <3>3, <3>4 DEF FirstPhases
    <3>5. CASE rounds' = rounds + 1
      <4>1. rounds = 0 /\ rounds' # 0 BY <1>1, <3>5
      <4> QED BY <1>6, <3>2, <3>3, <4>1 DEF FirstPhases
    <3> QED BY <1>1, <3>4, <3>5
  <2> QED BY <1>6, <2>1, <2>2, <2>3
<1> QED BY <1>2, <1>3, <1>4, <1>5, <1>6 DEF Next, Done, FirstPhases

(* Any number of threads, in every behaviour, until the second round        *)
(* begins: nobody shoots while the first is counted, no ReleaseSemaphore    *)
(* passes the maximum and, when the game ends that early, main returns its   *)
(* survivor.  With five threads the second round is where it goes wrong.     *)
THEOREM FirstRound == Spec => [](rounds <= 1 => PhasesApart /\ NoReleaseFails /\ ReturnsSurvivor)
<1>1. Init => UntilSecond
  <2> SUFFICES ASSUME Init PROVE UntilSecond
    OBVIOUS
  <2>1. TypeOK /\ StartPhase /\ rounds = 0
    BY InitPhase DEF Init, Phases, ShootPhase, CountPhase
  <2> QED BY <2>1 DEF UntilSecond, FirstPhases
<1>2. UntilSecond /\ [Next]_vars => UntilSecond' BY UntilSecondNext
<1>3. UntilSecond => (rounds <= 1 => PhasesApart /\ NoReleaseFails /\ ReturnsSurvivor)
  BY PhasesAreApart, ReleasesFit, SurvivorReturned DEF UntilSecond, FirstPhases, Phases
<1> QED BY <1>1, <1>2, <1>3, PTL DEF Spec
-----------------------------------------------------------------------------
(* What the game of ShootingGame sees in each phase *)
Shooters == {p \in Undead : pc[p] \in {"signal_shot"} \cup HasSignalled}
Fallen == {p \in Undead : ~Spared(p)}

StartView == gameAlive = Players /\ gameShot = {} /\ gameHit = {}
ShootView == gameAlive = Undead /\ gameShot = Shooters /\ gameHit = Fallen
CountView == gameAlive = Undead \ Fallen /\ gameShot = {} /\ gameHit = {}

LEMMA SameCardinality == \A S : Game!Cardinality(S) = Cardinality(S)
BY DEF Cardinality, Game!Cardinality

LEMMA StartSeen == StartPhase => StartView
<1> SUFFICES ASSUME StartPhase PROVE StartView
  OBVIOUS
<1>1. ~Resolving
  BY DEF StartPhase, Preparing, Resolving, ShotPass, CountPcs
<1>2. ASSUME ~Starting, NEW p \in Players PROVE Spared(p)
  BY <1>2 DEF StartPhase, Preparing, Starting
<1>3. gameAlive = Players
  <2>1. CASE Starting BY <2>1 DEF gameAlive
  <2>2. CASE ~Starting BY <1>1, <1>2, <2>2 DEF gameAlive, Spared
  <2> QED BY <2>1, <2>2
<1>4. gameShot = {}
  BY <1>1, <1>3 DEF gameShot, StartPhase, Preparing
<1>5. gameHit = {}
  BY <1>2 DEF gameHit, Spared, Shot
<1> QED BY <1>3, <1>4, <1>5 DEF StartView

LEMMA ShootSeen == ShootPhase => ShootView
<1> SUFFICES ASSUME ShootPhase PROVE ShootView
  OBVIOUS
<1>1. ~Resolving /\ ~Starting
  BY DEF ShootPhase, Shooting, Living, Resolving, Starting, ShotPass, CountPcs, Engaged, ShootPcs,
         HasSignalled
<1>2. gameAlive = Undead BY <1>1 DEF gameAlive, Undead
<1>3. gameShot = Shooters
  BY <1>1, <1>2 DEF gameShot, Shooters, HasSignalled
<1>4. \A p \in Undead : Shot \in statuses[p] <=> ~Spared(p)
  <2>1. \A p \in Undead : statuses[p] \in Readies BY DEF ShootPhase, Shooting, Living, Undead
  <2> QED BY <2>1 DEF Readies, Spared, Shot
<1>5. gameHit = Fallen
  BY <1>1, <1>4 DEF gameHit, Fallen, Undead
<1> QED BY <1>2, <1>3, <1>5 DEF ShootView

LEMMA CountSeen ==
    ASSUME TypeOK, CountPhase
    PROVE  CountView
<1>1. ~Starting
  BY DEF CountPhase, Counting, Starting, CountPcs
<1>2. Resolving
  <2>1. PICK c \in Players : Coordinates(c) /\ Counting(c) BY DEF CountPhase
  <2>2. CASE pc[c] = "wait_shot"
    <3>1. c \in At({"wait_shot"}) BY <2>2 DEF At
    <3>2. Cardinality(At({"wait_shot"})) # 0 /\ Cardinality(At({"wait_shot"})) \in 0 .. N
      BY <3>1, Counts, Subsets
    <3>3. semaphores[1] > 0 BY <3>2 DEF CountPhase
    <3> QED BY <3>3 DEF Resolving, ShotPass
  <2>3. CASE pc[c] # "wait_shot"
    BY <2>1, <2>3 DEF Coordinates, Counting, Resolving
  <2> QED BY <2>2, <2>3
<1>3. \A p \in Undead : Shot \in statuses[p] <=> ~Spared(p)
  <2>1. ASSUME NEW p \in Undead PROVE statuses[p] \in Readies
    <3>1. Counting(p) BY DEF CountPhase, Undead
    <3> QED BY <3>1 DEF Counting, CountPcs, HasReceived, Spared, Readies
  <2> QED BY <2>1 DEF Readies, Spared, Shot
<1>4. gameAlive = Undead \ Fallen
  BY <1>1, <1>2, <1>3 DEF gameAlive, Fallen, Undead
<1> QED BY <1>2, <1>4 DEF CountView, gameShot, gameHit

(* Every step but two is unseen *)
LEMMA StartUnseen ==
    ASSUME TypeOK, StartPhase, Main \/ \E p \in Players : Thread(p)
    PROVE  UNCHANGED Game!vars
<1>1. StartView BY StartSeen
<1>2. CASE ReleaseReady
  <2>1. UNCHANGED <<statuses, pc>> BY <1>2 DEF ReleaseReady
  <2>2. ShootPhase' BY <1>2, StartReleases
  <2>3. ShootView' BY <2>2, ShootSeen, PTL
  <2>4. ASSUME NEW p \in Players PROVE p \in Undead' /\ Spared(p)' /\ pc'[p] = "wait_ready"
    <3>1. Preparing(p) /\ Shooting(p)' BY <2>2 DEF StartPhase, ShootPhase
    <3>2. p \in Undead' BY <2>1, <3>1 DEF Preparing, Shooting
    <3>3. pc[p] = "wait_ready" /\ Spared(p)
      BY <2>1, <3>1, <3>2 DEF Preparing, Shooting, Living, Engaged, ShootPcs, HasSignalled
    <3> QED BY <2>1, <3>2, <3>3 DEF Spared
  <2>5. Undead' = Players /\ Shooters' = {} /\ Fallen' = {}
    BY <2>4 DEF Undead, Shooters, Fallen, HasSignalled
  <2> QED BY <1>1, <2>3, <2>5 DEF StartView, ShootView, Game!vars
<1>3. CASE ~ReleaseReady
  <2>1. ~Join BY DEF StartPhase, Join
  <2>2. StartPhase' BY <1>3, <2>1, StartCreates, StartGathers, StartThread DEF Main
  <2>3. StartView' BY <2>2, StartSeen, PTL
  <2> QED BY <1>1, <2>3 DEF StartView, Game!vars
<1> QED BY <1>2, <1>3

LEMMA ShootUnseen ==
    ASSUME TypeOK, ShootPhase, NEW p \in Players, Thread(p), ~Store(p), ~ReleaseShot(p)
    PROVE  UNCHANGED Game!vars
<1> USE Shapes DEF data, Goto
<1>1. /\ semaphores[1] = 0
      /\ pc[p] \in {"wait_ready", "wait_received", "round", "returned"} \cup Engaged
  BY DEF ShootPhase, Shooting, Living
<1>2. \/ WaitReady(p) \/ WaitReceived(p) \/ StartRound(p) \/ Aim(p) \/ Load(p)
      \/ SignalShot(p) \/ GatherShot(p)
  <2>1. ~WaitShot(p) BY <1>1 DEF WaitShot, Wait, Take, ShotPass
  <2> HIDE Shapes
  <2> QED BY <1>1, <2>1
      DEF Thread, Start, NewShooter, SignalReady, Signal, Check, Die, Uncount, SignalReceived,
          SignalAndGather, GatherReceived, Gather, ReleaseReceived, ReleaseAll, Engaged, ShootPcs,
          HasSignalled
<1>3. /\ statuses' = statuses /\ \A q \in Players \ {p} : pc'[q] = pc[q]
      /\ pc'[p] \in {"signal_shot"} \cup HasSignalled <=> pc[p] \in {"signal_shot"} \cup HasSignalled
  <2>1. CASE WaitReady(p) BY <2>1 DEF WaitReady, Wait, HasSignalled
  <2>2. CASE WaitReceived(p) BY <2>2 DEF WaitReceived, Wait, HasSignalled
  <2>3. CASE StartRound(p) BY <2>3 DEF StartRound, HasSignalled
  <2>4. CASE Aim(p) \/ Load(p) BY <2>4 DEF Aim, Load, HasSignalled
  <2>5. CASE SignalShot(p) BY <2>5 DEF SignalShot, SignalAndGather, Signal, HasSignalled
  <2>6. CASE GatherShot(p) BY <2>6 DEF GatherShot, Gather, HasSignalled
  <2> QED BY <1>2, <2>1, <2>2, <2>3, <2>4, <2>5, <2>6
<1>4. Undead' = Undead /\ Shooters' = Shooters /\ Fallen' = Fallen
  BY <1>3 DEF Undead, Shooters, Fallen, Spared
<1> HIDE Shapes
<1>5. ShootPhase'
  BY <1>2, ShootTakes, ShootStartsRound, ShootShoots, ShootSignals, ShootGathers
<1>6. ShootView /\ ShootView' BY <1>5, ShootSeen, PTL
<1> QED BY <1>4, <1>6 DEF ShootView, Game!vars

LEMMA CountUnseen ==
    ASSUME TypeOK, CountPhase, NEW p \in Players, Thread(p)
    PROVE  UNCHANGED Game!vars
<1> USE Shapes DEF data, Goto
<1>1. CountView BY CountSeen
<1>2. Counting(p) BY DEF CountPhase
<1>3. \/ WaitShot(p) \/ Check(p) \/ Die(p) \/ Uncount(p) \/ SignalReceived(p)
      \/ GatherReceived(p) \/ ReleaseReceived(p) \/ WaitReceived(p)
  <2> HIDE Shapes
  <2> QED BY <1>2
      DEF Counting, Thread, Start, NewShooter, SignalReady, Signal, WaitReady, Wait, StartRound,
          Aim, Load, Store, SignalShot, SignalAndGather, GatherShot, Gather, ReleaseShot,
          ReleaseAll, CountPcs
<1>4. Undead' \ Fallen' = Undead \ Fallen
  <2>1. CASE Check(p)
    <3>1. "DEAD_THIS_ROUND" \notin statuses[p] => Spared(p)
      BY <1>2, <2>1 DEF Counting, Check, Readies, Spared
    <3>2. Spared(p) => [statuses EXCEPT ![p] = {"READY"}] = statuses BY DEF Spared
    <3>3. statuses' = statuses BY <2>1, <3>1, <3>2 DEF Check
    <3> QED BY <3>3 DEF Undead, Fallen, Spared
  <2>2. CASE Die(p)
    <3>1. /\ ~Spared(p) /\ "DEAD" \in statuses'[p]
          /\ \A q \in Players \ {p} : statuses'[q] = statuses[q]
      BY <1>2, <2>2 DEF Counting, Die
    <3> QED BY <3>1 DEF Undead, Fallen, Spared
  <2>3. CASE ~Check(p) /\ ~Die(p)
    <3>1. statuses' = statuses
      BY <1>3, <2>3 DEF WaitShot, Wait, Uncount, SignalReceived, SignalAndGather, Signal,
         GatherReceived, Gather, ReleaseReceived, ReleaseAll, WaitReceived
    <3> QED BY <3>1 DEF Undead, Fallen, Spared
  <2> QED BY <2>1, <2>2, <2>3
<1> HIDE Shapes
<1>5. CASE ~ReleaseReceived(p)
  <2>1. TypeOK' /\ CountPhase'
    BY <1>3, <1>5, CountPasses, CountChecks, CountDies, CountUncounts, CountSignals, CountGathers,
       CountTakes
  <2>2. CountView' BY <2>1, CountSeen, PTL
  <2> QED BY <1>1, <1>4, <2>2 DEF CountView, Game!vars
<1>6. CASE ReleaseReceived(p)
  <2>1. ShootPhase' BY <1>6, CountReleases
  <2>2. ShootView' BY <2>1, ShootSeen, PTL
  <2>3. pc[p] = "release_received" /\ statuses' = statuses
    BY <1>6 DEF ReleaseReceived, ReleaseAll
  <2>4. Unreceived = {}
    BY <1>2, <2>3 DEF Counting, Coordinates, CountPhase, GathersReceived
  <2>5. ASSUME NEW q \in Players PROVE Spared(q) \/ q \notin Undead
    <3>1. Counting(q) /\ q \notin Unreceived BY <2>4 DEF CountPhase
    <3> QED BY <3>1 DEF Counting, CountPcs, Unreceived, At, HasReceived
  <2>6. Fallen' = {} BY <2>3, <2>5 DEF Fallen, Spared, Undead
  <2>7. Shooters' = {}
    <3>1. ASSUME NEW q \in Undead' PROVE pc'[q] \notin {"signal_shot"} \cup HasSignalled
      <4>1. q \in Players /\ q \in Undead /\ Living(q)'
        BY <2>1, <2>3 DEF ShootPhase, Shooting, Undead
      <4>2. q # p => pc'[q] = pc[q] BY <1>6, <4>1 DEF ReleaseReceived, ReleaseAll
      <4>3. pc'[p] = "wait_received" BY <1>6, Shapes DEF ReleaseReceived, ReleaseAll
      <4>4. pc[q] # "wait_shot" /\ Counting(q)
        BY <2>4, <4>1 DEF Unreceived, At, CountPhase
      <4>5. pc[q] \in {"wait_received", "returned"} \cup CountPcs BY <4>4 DEF Counting
      <4> QED BY <4>2, <4>3, <4>5 DEF HasSignalled, CountPcs
    <3> QED BY <3>1 DEF Shooters
  <2> QED BY <1>1, <1>4, <2>2, <2>6, <2>7 DEF CountView, ShootView, Game!vars
<1> QED BY <1>5, <1>6

(* A shot *)
LEMMA StoreShoots ==
    ASSUME TypeOK, ShootPhase, NEW p \in Players, Store(p)
    PROVE  Game!Shoot(p, target[p])
<1> USE Shapes DEF data, Goto
<1>1. /\ ShootPhase' /\ ShootView BY ShootShoots, ShootSeen
<1>2. ShootView' BY <1>1, ShootSeen, PTL
<1>3. /\ pc[p] = "store" /\ p \in Undead /\ Living(p)
  BY ShootLives DEF Store
<1>4. /\ Cardinality(Undead) > 1 /\ target[p] \in Undead \ {p} /\ seen[p] \in Readies
  BY <1>3 DEF Living, Engaged, ShootPcs
<1>5. target[p] \in Players BY <1>4 DEF Undead
<1>6. /\ pc'[p] = "signal_shot" /\ \A q \in Players \ {p} : pc'[q] = pc[q]
      /\ statuses'[target[p]] = {"READY", "DEAD_THIS_ROUND"}
      /\ \A q \in Players \ {target[p]} : statuses'[q] = statuses[q]
  BY <1>4, <1>5 DEF Store, Readies
<1> HIDE Shapes
<1>7. Undead' = Undead
  <2>1. \A q \in Players : "DEAD" \in statuses'[q] <=> "DEAD" \in statuses[q]
    BY <1>4, <1>6 DEF Undead
  <2> QED BY <2>1 DEF Undead
<1>8. p \notin Shooters /\ Shooters' = Shooters \cup {p}
  BY <1>3, <1>6, <1>7 DEF Shooters, HasSignalled, Undead
<1>9. Fallen' = Fallen \cup {target[p]}
  BY <1>4, <1>6, <1>7 DEF Fallen, Spared, Undead
<1> QED BY <1>1, <1>2, <1>3, <1>4, <1>7, <1>8, <1>9, SameCardinality
        DEF Game!Shoot, Game!Playing, ShootView

(* The end of the shooting *)
LEMMA ReleaseResolves ==
    ASSUME TypeOK, ShootPhase, NEW p \in Players, ReleaseShot(p), InTime
    PROVE  Game!Resolve
<1>1. TypeOK' /\ CountPhase' /\ ShootView BY ShootReleases, ShootSeen
<1>2. CountView' BY <1>1, CountSeen, PTL
<1>3. pc[p] = "release_shot" /\ statuses' = statuses
  BY DEF ReleaseShot, ReleaseAll
<1>4. p \in Undead /\ Living(p) BY <1>3, ShootLives
<1>5. Cardinality(Undead) > 1 /\ IsCoordinator(p)
  BY <1>3, <1>4 DEF Living, Engaged, HasSignalled
<1>6. Unsignalled = {}
  BY <1>3, <1>5 DEF ShootPhase, Shooting, GathersShots
<1>7. Shooters = Undead BY <1>6 DEF Shooters, Unsignalled, Signalled
<1>8. Undead' = Undead /\ Fallen' = Fallen BY <1>3 DEF Undead, Fallen, Spared
<1> QED BY <1>1, <1>2, <1>5, <1>7, <1>8, SameCardinality
        DEF Game!Resolve, Game!Playing, ShootView, CountView

LEMMA GameNext ==
    ASSUME Phases, [Next]_vars, InTime
    PROVE  [Game!Next]_(Game!vars)
<1>0. TypeOK BY DEF Phases
<1>1. CASE UNCHANGED vars
  BY <1>1 DEF vars, mains, data, local, Game!vars, gameAlive, gameShot, gameHit, Resolving, Starting
<1>2. CASE StartPhase /\ (Main \/ \E p \in Players : Thread(p))
  BY <1>0, <1>2, StartUnseen
<1>3. CASE ShootPhase /\ Main
  <2>1. Join BY <1>3 DEF ShootPhase, Main, CreateThread, GatherReady, ReleaseReady
  <2> QED BY <2>1 DEF Join, data, Game!vars, gameAlive, gameShot, gameHit, Resolving, Starting
<1>4. CASE ShootPhase /\ \E p \in Players : Thread(p)
  <2>1. PICK p \in Players : Thread(p) BY <1>4
  <2>2. CASE Store(p)
    <3>1. Game!Shoot(p, target[p]) BY <1>0, <1>4, <2>2, StoreShoots
    <3>2. target[p] \in Players
      BY <1>4, <2>2, ShootLives, <1>0 DEF Store, Living, Undead
    <3> QED BY <3>1, <3>2 DEF Game!Next
  <2>3. CASE ReleaseShot(p)
    BY <1>0, <1>4, <2>3, ReleaseResolves DEF Game!Next
  <2>4. CASE ~Store(p) /\ ~ReleaseShot(p)
    BY <1>0, <1>4, <2>1, <2>4, ShootUnseen
  <2> QED BY <2>2, <2>3, <2>4
<1>5. CASE CountPhase /\ (Main \/ \E p \in Players : Thread(p))
  <2>1. ~Join BY <1>5 DEF CountPhase, Join, Coordinates
  <2>2. ~Main
    BY <1>5, <2>1 DEF CountPhase, Main, CreateThread, GatherReady, ReleaseReady
  <2> QED BY <1>0, <1>5, <2>2, CountUnseen
<1> QED BY <1>1, <1>2, <1>3, <1>4, <1>5 DEF Next, Done, Phases

LEMMA GameInit == Init => Game!Init
<1>1. Init => StartView
  <2>1. Init => StartPhase BY InitPhase, NAssumption DEF Init, Phases, ShootPhase, CountPhase
  <2> QED BY <2>1, StartSeen
<1> QED BY <1>1 DEF StartView, Game!Init

(* At most four threads play the game of ShootingGame: a shot takes place   *)
(* when the target's status is written, however many write it at once, and  *)
(* the round is resolved when the coordinator releases the first pass; those *)
(* that were hit, and no others, die.                                        *)
THEOREM FourRefine == ASSUME N <= 4 PROVE Spec => ImplementsGame
<1>1. Phases /\ [Next]_vars => [Game!Next]_(Game!vars) BY GameNext DEF InTime
<1> QED BY <1>1, GameInit, FourPhases, PTL DEF Spec, ImplementsGame, Game!Spec
=============================================================================
