------------------------------- MODULE Pist3 --------------------------------
(***************************************************************************)
(* ssooii/pist3/pist3.c: the game of ShootingGame with Windows threads and *)
(* three counting semaphores.  Everyone signals semaphore 0; whoever       *)
(* gathers the signals (main before the first round, the coordinator in    *)
(* the two halves of each round) releases as many units of semaphore 1 or  *)
(* 2 as threads play, and each thread takes one.                           *)
(***************************************************************************)
EXTENDS Naturals, FiniteSets

CONSTANTS
    N,               (* count: the threads main creates                               *)
    Victims          (* Victims[p]: whom the library gives p as a target, if it can   *)

Players == 0 .. N - 1

ASSUME NAssumption == N \in Nat \ {0}
ASSUME VictimsAssumption == Victims \in [Players -> SUBSET Players]

VARIABLES
    mpc,             (* where main is                                                 *)
    created,         (* i of main's first loop: the threads created                   *)
    pending,         (* count_ of main's second loop: the signals still to come       *)
    semaphores,      (* GameData: their counts                                        *)
    alive_count,     (* GameData                                                      *)
    rounds,          (* GameData                                                      *)
    last_thread,     (* GameData: the survivor, N for none                            *)
    statuses,        (* GameData: the set of bits of each thread's status             *)
    in_game,         (* external: the players the library counts as alive             *)
    pc,              (* where each thread is                                          *)
    im_coordinator,  (* local to each thread                                          *)
    this_round,      (* local: this_round_alive_count                                 *)
    left,            (* local: i of the gathering loops                               *)
    target,          (* local: the target of this round, N before the first           *)
    seen             (* local: the target's status as read by "|="                    *)

mains == <<mpc, created, pending, last_thread>>
data == <<semaphores, alive_count, rounds, statuses>>
local == <<im_coordinator, this_round, left, target, seen>>
vars == <<mains, data, in_game, pc, local>>

Bits == {"READY", "DEAD_THIS_ROUND", "DEAD"}

ThreadPcs == {"none", "start", "new_shooter", "signal_ready", "wait_ready", "round", "aim",
              "load", "store", "signal_shot", "gather_shot", "release_shot", "wait_shot",
              "check", "die", "uncount", "signal_received", "gather_received",
              "release_received", "wait_received", "returned"}

TypeOK ==
    /\ mpc \in {"create", "gather", "release", "join", "done"}
    /\ created \in 0 .. N
    /\ pending \in 0 .. N
    /\ semaphores \in [0 .. 2 -> 0 .. N]
    /\ alive_count \in 0 .. N
    /\ rounds \in Nat
    /\ last_thread \in 0 .. N
    /\ statuses \in [Players -> SUBSET Bits]
    /\ in_game \subseteq Players
    /\ pc \in [Players -> ThreadPcs]
    /\ im_coordinator \in [Players -> BOOLEAN]
    /\ this_round \in [Players -> 0 .. N]
    /\ left \in [Players -> 0 .. N]
    /\ target \in [Players -> 0 .. N]
    /\ seen \in [Players -> SUBSET Bits]

(* manage_data with DATA_CREATE, and the CreateSemaphore loop *)
Init ==
    /\ mpc = "create" /\ created = 0 /\ pending = N
    /\ semaphores = [s \in 0 .. 2 |-> 0]
    /\ alive_count = N /\ rounds = 0 /\ last_thread = N
    /\ statuses = [p \in Players |-> {}]
    /\ in_game = {}
    /\ pc = [p \in Players |-> "none"]
    /\ im_coordinator = [p \in Players |-> FALSE]
    /\ this_round = [p \in Players |-> 0]
    /\ left = [p \in Players |-> 0]
    /\ target = [p \in Players |-> N]
    /\ seen = [p \in Players |-> {}]
-----------------------------------------------------------------------------
(* The semaphores.  A "Wrong" definition is a mutation no action uses.       *)

WrongMaximum == N - 1
Maximum == N                               \* of each semaphore: count

(* ReleaseSemaphore adds nothing when it would pass the maximum; the        *)
(* program does not look at its result                                      *)
Release(s, n) ==
    semaphores' = [semaphores EXCEPT ![s] = IF @ + n <= Maximum THEN @ + n ELSE @]

Take(s) ==                                 \* WaitForSingleObject
    /\ semaphores[s] > 0
    /\ semaphores' = [semaphores EXCEPT ![s] = @ - 1]

Gathered == 0                              \* semaphores[0]: signals to the coordinator
WrongShotPass == 2
ShotPass == 1                              \* semaphores[1]: everyone has shot
ReceivedPass == 2                          \* semaphores[2]: everyone has been counted

-----------------------------------------------------------------------------
(* main *)

(* One turn of the loop that creates the threads *)
CreateThread ==
    /\ mpc = "create"
    /\ statuses' = [statuses EXCEPT ![created] = {"DEAD"}]
    /\ pc' = [pc EXCEPT ![created] = "start"]
    /\ created' = created + 1
    /\ mpc' = IF created' = N THEN "gather" ELSE "create"
    /\ UNCHANGED <<pending, semaphores, alive_count, rounds, last_thread, in_game, local>>

(* One turn of the loop that waits for the threads to be ready *)
GatherReady ==
    /\ mpc = "gather"
    /\ Take(Gathered)
    /\ pending' = pending - 1
    /\ mpc' = IF pending' = 0 THEN "release" ELSE "gather"
    /\ UNCHANGED <<created, alive_count, rounds, last_thread, statuses, in_game, pc, local>>

ReleaseReady ==
    /\ mpc = "release"
    /\ Release(ReceivedPass, N)
    /\ mpc' = "join"
    /\ UNCHANGED <<created, pending, alive_count, rounds, last_thread, statuses, in_game, pc,
                   local>>

(* WaitForMultipleObjects on all of them *)
Join ==
    /\ mpc = "join"
    /\ \A p \in Players : pc[p] = "returned"
    /\ mpc' = "done"
    /\ UNCHANGED <<created, pending, last_thread, data, in_game, pc, local>>
-----------------------------------------------------------------------------
(* The threads: child_proc and is_current_proc_coordinator *)

Goto(p, l) == pc' = [pc EXCEPT ![p] = l]

(* the status it writes, DEAD until then *)
Start(p) ==
    /\ pc[p] = "start"
    /\ statuses' = [statuses EXCEPT ![p] = {"READY"}]
    /\ Goto(p, "new_shooter")
    /\ UNCHANGED <<mains, semaphores, alive_count, rounds, in_game, local>>

NewShooter(p) ==
    /\ pc[p] = "new_shooter"
    /\ in_game' = in_game \cup {p}
    /\ Goto(p, "signal_ready")
    /\ UNCHANGED <<mains, data, local>>

(* ReleaseSemaphore(semaphores[0], 1) *)
Signal(p, from, to) ==
    /\ pc[p] = from
    /\ Release(Gathered, 1)
    /\ Goto(p, to)
    /\ UNCHANGED <<mains, alive_count, rounds, statuses, in_game>>

SignalReady(p) == Signal(p, "signal_ready", "wait_ready") /\ UNCHANGED local

(* WaitForSingleObject on semaphore s *)
Wait(p, s, from, to) ==
    /\ pc[p] = from
    /\ Take(s)
    /\ Goto(p, to)
    /\ UNCHANGED <<mains, alive_count, rounds, statuses, in_game, local>>

WaitReady(p) == Wait(p, ReceivedPass, "wait_ready", "round")
WaitShot(p) == Wait(p, ShotPass, "wait_shot", "check")

Undead == {q \in Players : "DEAD" \notin statuses[q]}

IsCoordinator(p) == p \in Undead /\ \A q \in Undead : q <= p

WrongThreadId(p) == N - 1
ThreadId(p) == p                           \* GetCurrentThreadId

(* The head of the loop, in one step as in Pist2 *)
StartRound(p) ==
    /\ pc[p] = "round"
    /\ im_coordinator' = [im_coordinator EXCEPT ![p] = IsCoordinator(p)]
    /\ IF ~IsCoordinator(p)
       THEN Goto(p, "aim") /\ UNCHANGED <<this_round, rounds, last_thread>>
       ELSE /\ this_round' = [this_round EXCEPT ![p] = alive_count]
            /\ IF alive_count = 1
               THEN last_thread' = ThreadId(p) /\ Goto(p, "returned") /\ UNCHANGED rounds
               ELSE rounds' = rounds + 1 /\ Goto(p, "aim") /\ UNCHANGED last_thread
    /\ UNCHANGED <<mpc, created, pending, semaphores, alive_count, statuses, in_game, left,
                   target, seen>>

(* lib.victim gives another player the library counts as alive *)
Choices(p) ==
    LET others == in_game \ {p} IN
    IF others \cap Victims[p] # {} THEN others \cap Victims[p] ELSE others

Aim(p) ==
    /\ pc[p] = "aim"
    /\ \E t \in Choices(p) : target' = [target EXCEPT ![p] = t]
    /\ Goto(p, "load")
    /\ UNCHANGED <<mains, data, in_game, im_coordinator, this_round, left, seen>>

(* statuses[target] |= PID_STATUS_DEAD_THIS_ROUND: a read, then a write *)
Load(p) ==
    /\ pc[p] = "load"
    /\ seen' = [seen EXCEPT ![p] = statuses[target[p]]]
    /\ Goto(p, "store")
    /\ UNCHANGED <<mains, data, in_game, im_coordinator, this_round, left, target>>

Store(p) ==
    /\ pc[p] = "store"
    /\ statuses' = [statuses EXCEPT ![target[p]] = seen[p] \cup {"DEAD_THIS_ROUND"}]
    /\ Goto(p, "signal_shot")
    /\ UNCHANGED <<mains, semaphores, alive_count, rounds, in_game, local>>

(* The coordinator signals itself too, and then gathers this_round signals *)
SignalAndGather(p, from, gather, wait) ==
    /\ Signal(p, from, IF im_coordinator[p] THEN gather ELSE wait)
    /\ left' = [left EXCEPT ![p] = this_round[p]]
    /\ UNCHANGED <<im_coordinator, this_round, target, seen>>

SignalShot(p) == SignalAndGather(p, "signal_shot", "gather_shot", "wait_shot")
SignalReceived(p) ==
    SignalAndGather(p, "signal_received", "gather_received", "wait_received")

WrongGatheredAll(n) == n = 1
GatheredAll(n) == n = 0                    \* the end of the while (i--) loops

Gather(p, from, to) ==
    /\ pc[p] = from
    /\ IF GatheredAll(left[p])
       THEN Goto(p, to) /\ UNCHANGED <<semaphores, left>>
       ELSE /\ Take(Gathered)
            /\ left' = [left EXCEPT ![p] = @ - 1]
            /\ UNCHANGED pc
    /\ UNCHANGED <<mains, alive_count, rounds, statuses, in_game, im_coordinator, this_round,
                   target, seen>>

GatherShot(p) == Gather(p, "gather_shot", "release_shot")
GatherReceived(p) == Gather(p, "gather_received", "release_received")

ReleaseAll(p, s, from, to) ==
    /\ pc[p] = from
    /\ Release(s, this_round[p])
    /\ Goto(p, to)
    /\ UNCHANGED <<mains, alive_count, rounds, statuses, in_game, local>>

ReleaseShot(p) == ReleaseAll(p, ShotPass, "release_shot", "wait_shot")
ReleaseReceived(p) == ReleaseAll(p, ReceivedPass, "release_received", "wait_received")

Check(p) ==
    /\ pc[p] = "check"
    /\ IF "DEAD_THIS_ROUND" \in statuses[p]
       THEN Goto(p, "die") /\ UNCHANGED statuses
       ELSE /\ statuses' = [statuses EXCEPT ![p] = {"READY"}]
            /\ Goto(p, "signal_received")
    /\ UNCHANGED <<mains, semaphores, alive_count, rounds, in_game, local>>

Die(p) ==
    /\ pc[p] = "die"
    /\ statuses' = [statuses EXCEPT ![p] = @ \cup {"DEAD"}]
    /\ Goto(p, "uncount")
    /\ UNCHANGED <<mains, semaphores, alive_count, rounds, in_game, local>>

WrongUncounted(n) == n - 2
Uncounted(n) == n - 1                      \* InterlockedDecrement

(* InterlockedDecrement and lib.die *)
Uncount(p) ==
    /\ pc[p] = "uncount"
    /\ alive_count' = Uncounted(alive_count)
    /\ in_game' = in_game \ {p}
    /\ Goto(p, "signal_received")
    /\ UNCHANGED <<mains, semaphores, rounds, statuses, local>>

(* The pass of the second half; the dead return *)
WaitReceived(p) ==
    Wait(p, ReceivedPass, "wait_received",
         IF "DEAD" \in statuses[p] THEN "returned" ELSE "round")
-----------------------------------------------------------------------------
Main == CreateThread \/ GatherReady \/ ReleaseReady \/ Join

Thread(p) ==
    \/ Start(p) \/ NewShooter(p) \/ SignalReady(p) \/ WaitReady(p) \/ StartRound(p)
    \/ Aim(p) \/ Load(p) \/ Store(p) \/ SignalShot(p) \/ GatherShot(p) \/ ReleaseShot(p)
    \/ WaitShot(p) \/ Check(p) \/ Die(p) \/ Uncount(p) \/ SignalReceived(p)
    \/ GatherReceived(p) \/ ReleaseReceived(p) \/ WaitReceived(p)

Done == mpc = "done" /\ UNCHANGED vars

Next == Main \/ (\E p \in Players : Thread(p)) \/ Done

Spec == Init /\ [][Next]_vars

(* The kernel schedules every thread that can run *)
FairSpec == Spec /\ WF_vars(Main) /\ \A p \in Players : WF_vars(Thread(p))
-----------------------------------------------------------------------------
(* Properties *)

ShootPcs == {"aim", "load", "store", "signal_shot"}
CountPcs == {"check", "die", "uncount", "signal_received", "gather_received",
             "release_received"}
Resolving == semaphores[ShotPass] > 0 \/ \E p \in Players : pc[p] \in CountPcs
Starting == \E p \in Players : pc[p] \in {"none", "start"}

(***************************************************************************)
(* While a thread still counts itself out or in, or the coordinator still  *)
(* gathers those that have, nobody shoots nor chooses the next coordinator.*)
(***************************************************************************)
PhasesApart == Resolving => \A p \in Players : pc[p] \notin ShootPcs \cup {"round"}

(* No release fails for exceeding the semaphore's maximum, which the       *)
(* program would not notice: there is always room for the round's signals.  *)
NoReleaseFails ==
    \A p \in Players :
        /\ pc[p] \in {"signal_ready", "signal_shot", "signal_received"}
              => semaphores[Gathered] < Maximum
        /\ pc[p] = "release_shot" => semaphores[ShotPass] + this_round[p] <= Maximum
        /\ pc[p] = "release_received" => semaphores[ReceivedPass] + this_round[p] <= Maximum

(* The id main returns is that of the one survivor, if there is one        *)
(* ("return last_alive_thread" in the README).                              *)
ReturnsSurvivor ==
    mpc = "done" =>
        IF Undead = {} THEN last_thread = N ELSE Undead = {last_thread}

(* Main gets all its threads back. *)
GameEnds == <>(mpc = "done")

(* The threads play the game: a shot takes place when the target's status  *)
(* is written, the round is resolved when the coordinator releases the      *)
(* first pass.                                                               *)
Shot == "DEAD_THIS_ROUND"
gameAlive ==
    IF Starting THEN Players
    ELSE {p \in Players : "DEAD" \notin statuses[p] /\ (Resolving => Shot \notin statuses[p])}
gameShot ==
    IF Resolving THEN {}
    ELSE {p \in gameAlive :
            pc[p] \in {"signal_shot", "gather_shot", "release_shot", "wait_shot"}}
gameHit ==
    IF Resolving \/ Starting THEN {}
    ELSE {p \in Players : Shot \in statuses[p] /\ "DEAD" \notin statuses[p]}

Game == INSTANCE ShootingGame WITH alive <- gameAlive, shot <- gameShot, hit <- gameHit

ImplementsGame == Game!Spec
=============================================================================
