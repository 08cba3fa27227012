------------------------------ MODULE Pistolos ------------------------------
(***************************************************************************)
(* ssooi/pistolos.c: the game of ShootingGame with one process per player, *)
(* a parent that referees, shared memory and POSIX signals only.  SIGUSR1  *)
(* orders a child to shoot, SIGTERM is the shot, SIGUSR2 tells the parent  *)
(* to look at the statuses again.  A standard signal that is already       *)
(* pending is not queued again, so what is pending is a set.  Both sides   *)
(* block their signals and take them only inside sigsuspend.               *)
(***************************************************************************)
EXTENDS Naturals, FiniteSets

CONSTANTS
    N,               (* count: the children main creates                              *)
    Victims,         (* Victims[p]: whom rand() may make p shoot, if they are alive   *)
    ForkFailsAt,     (* the children whose fork may fail                              *)
    InterruptAt      (* the places of the parent where SIGTERM or SIGINT may arrive   *)

Children == 0 .. N - 1

ParentPcs == {"create", "check_ready", "wait_ready", "resolve", "decide", "signal",
              "check_round", "wait_round", "dump", "kill_all", "release", "gone"}

ASSUME NAssumption == N \in Nat \ {0}
ASSUME VictimsAssumption == Victims \in [Children -> SUBSET Children]
ASSUME ForkAssumption == ForkFailsAt \subseteq Children
ASSUME InterruptAssumption == InterruptAt \subseteq ParentPcs \ {"dump", "gone"}

VARIABLES
    ppc,             (* where the parent is                                           *)
    next,            (* the index of its current loop over the children               *)
    failed,          (* it ends with an error: fork failed, or it was interrupted     *)
    usr2,            (* SIGUSR2 is pending for the parent                             *)
    released,        (* the file of the shared memory has been unlinked               *)
    rounds,          (* GameData                                                      *)
    alive_count,     (* GameData                                                      *)
    known,           (* the children whose Process.id is set                          *)
    status,          (* Process.status of each child: the set of its bits             *)
    target,          (* Process.target of each child, N for NULL                      *)
    pc,              (* where each child is                                           *)
    dying,           (* the children inside child_sigterm_catch                       *)
    pending          (* the signals pending for each child                            *)

parent == <<ppc, next, failed, released>>
game == <<rounds, alive_count>>
process == <<known, status, target>>
vars == <<parent, usr2, game, process, pc, dying, pending>>

Bits == {"READY", "SHOT", "DEAD_THIS_ROUND", "DEAD"}

ChildPcs == {"none", "start", "ready", "notify_ready", "suspend", "aim", "shot",
             "notify_shot", "dead", "notify_dead", "exit", "zombie", "reaped"}

TypeOK ==
    /\ ppc \in ParentPcs
    /\ next \in 0 .. N /\ (next = N => ppc = "create")
    /\ failed \in BOOLEAN /\ usr2 \in BOOLEAN /\ released \in BOOLEAN
    /\ rounds \in Nat
    /\ alive_count \in 0 .. N
    /\ known \subseteq Children
    /\ status \in [Children -> SUBSET Bits]
    /\ target \in [Children -> 0 .. N]
    /\ pc \in [Children -> ChildPcs]
    /\ dying \subseteq Children
    /\ pending \in [Children -> SUBSET {"USR1", "TERM", "KILL"}]

(* create_data and bind_parent_signals; the file is full of zeros.  The    *)
(* children are created from the last to the first.                         *)
Init ==
    /\ ppc = "create" /\ next = N
    /\ failed = FALSE /\ usr2 = FALSE /\ released = FALSE
    /\ rounds = 0 /\ alive_count = N
    /\ known = {}
    /\ status = [p \in Children |-> {}]
    /\ target = [p \in Children |-> N]
    /\ pc = [p \in Children |-> "none"]
    /\ dying = {}
    /\ pending = [p \in Children |-> {}]
-----------------------------------------------------------------------------
(* What the statuses say.  A "Wrong" definition is a mutation no action uses. *)

Exists(p) == pc[p] \notin {"none", "zombie", "reaped"}
Has(p, bit) == bit \in status[p]
Dead == {p \in Children : Has(p, "DEAD")}

all_ready == \A p \in Children : status[p] = {"READY"}

WrongRoundOver == \A p \in Children : Has(p, "SHOT")
round_over ==
    \A p \in Children :
        /\ Has(p, "SHOT")
        /\ Has(target[p], "DEAD_THIS_ROUND")

GameOver == Cardinality(Dead) >= N - 1

(* pending[q] after a kill: nothing if the process has exited *)
Sent(q, signal) == IF Exists(q) THEN pending[q] \cup {signal} ELSE pending[q]
-----------------------------------------------------------------------------
(* The parent: main and parent_proc *)

WrongLoop(here, there) == next' = next + 1 /\ ppc' = IF next = N - 1 THEN there ELSE here
Loop(here, there) ==
    /\ next' = IF next = N - 1 THEN 0 ELSE next + 1
    /\ ppc' = IF next = N - 1 THEN there ELSE here

Fork ==
    /\ ppc = "create" /\ next > 0
    /\ next' = next - 1
    /\ status' = [status EXCEPT ![next - 1] = {"DEAD"}]
    /\ pc' = [pc EXCEPT ![next - 1] = "start"]
    /\ UNCHANGED <<ppc, failed, released, usr2, game, known, target, dying, pending>>

ForkFails ==
    /\ ppc = "create" /\ next > 0
    /\ next - 1 \in ForkFailsAt
    /\ status' = [status EXCEPT ![next - 1] = {"DEAD"}]
    /\ failed' = TRUE
    /\ ppc' = "dump"
    /\ next' = 0
    /\ UNCHANGED <<released, usr2, game, known, target, pc, dying, pending>>

AllCreated ==
    /\ ppc = "create" /\ next = 0
    /\ ppc' = "check_ready"
    /\ UNCHANGED <<next, failed, released, usr2, game, process, pc, dying, pending>>

(* while (!condition()) sigsuspend(&set) *)
CheckUntil(here, condition, wait, there) ==
    /\ ppc = here
    /\ ppc' = IF condition THEN there ELSE wait
    /\ UNCHANGED <<next, failed, released, usr2, game, process, pc, dying, pending>>

Suspend(here, check) ==
    /\ ppc = here
    /\ usr2
    /\ usr2' = FALSE
    /\ ppc' = check
    /\ UNCHANGED <<next, failed, released, game, process, pc, dying, pending>>

CheckReady == CheckUntil("check_ready", all_ready, "wait_ready", "resolve")
WaitReady == Suspend("wait_ready", "check_ready")
CheckRound == CheckUntil("check_round", round_over, "wait_round", "resolve")
WaitRound == Suspend("wait_round", "check_round")

(* One turn of the loop that lets the hit die and reaps those that have    *)
(* exited: waitpid with WNOHANG.                                            *)
Resolve ==
    LET dead == Has(next, "DEAD") \/ Has(next, "DEAD_THIS_ROUND") IN
    /\ ppc = "resolve"
    /\ status' = [status EXCEPT ![next] = IF dead THEN @ \cup {"DEAD"} ELSE {"READY"}]
    /\ pc' = [pc EXCEPT ![next] = IF dead /\ @ = "zombie" THEN "reaped" ELSE @]
    /\ Loop("resolve", "decide")
    /\ UNCHANGED <<failed, released, usr2, game, known, target, dying, pending>>

WrongAliveNow == N
AliveNow == N - Cardinality(Dead)

Decide ==
    /\ ppc = "decide"
    /\ IF GameOver
       THEN ppc' = "kill_all" /\ UNCHANGED game
       ELSE /\ ppc' = "signal"
            /\ rounds' = rounds + 1
            /\ alive_count' = AliveNow
    /\ UNCHANGED <<next, failed, released, usr2, process, pc, dying, pending>>

Ordered(p) == ~Has(p, "DEAD")              \* who is ordered to shoot

(* One turn of the loop that orders those alive to shoot *)
Signal ==
    /\ ppc = "signal"
    /\ pending' = IF Ordered(next) THEN [pending EXCEPT ![next] = Sent(next, "USR1")]
                                   ELSE pending
    /\ Loop("signal", "check_round")
    /\ UNCHANGED <<failed, released, usr2, game, process, pc, dying>>

(* parent_sigterm_catch starts; everything is blocked until it ends *)
Interrupt ==
    /\ ppc \in InterruptAt
    /\ ppc' = "dump"
    /\ next' = 0
    /\ failed' = TRUE
    /\ UNCHANGED <<released, usr2, game, process, pc, dying, pending>>

(* __dump: only reads, see DumpFindsTargets *)
Dump ==
    /\ ppc = "dump"
    /\ ppc' = "kill_all"
    /\ UNCHANGED <<next, failed, released, usr2, game, process, pc, dying, pending>>

WrongAfterKills == "gone"
AfterKills == "release"

(* One turn of kill_all.  The id of a child that has not set it is 0, and  *)
(* kill(0, SIGKILL) kills the whole process group: this parent too.         *)
KillAll ==
    /\ ppc = "kill_all"
    /\ IF next \in known
       THEN /\ pending' = [pending EXCEPT ![next] = Sent(next, "KILL")]
            /\ Loop("kill_all", AfterKills)
       ELSE /\ pending' = [p \in Children |-> Sent(p, "KILL")]
            /\ ppc' = "gone"
            /\ UNCHANGED next
    /\ UNCHANGED <<failed, released, usr2, game, process, pc, dying>>

(* release_data, and the end of main or of the handler *)
ReleaseData ==
    /\ ppc = "release"
    /\ released' = TRUE
    /\ ppc' = "gone"
    /\ UNCHANGED <<next, failed, usr2, game, process, pc, dying, pending>>
-----------------------------------------------------------------------------
(* The children: child_proc and the handlers, which block every signal *)

Goto(p, l) == pc' = [pc EXCEPT ![p] = l]

SetId(p) ==
    /\ pc[p] = "start"
    /\ known' = known \cup {p}
    /\ Goto(p, "ready")
    /\ UNCHANGED <<parent, usr2, game, status, target, dying, pending>>

BecomeReady(p) ==
    /\ pc[p] = "ready"
    /\ status' = [status EXCEPT ![p] = {"READY"}]
    /\ Goto(p, "notify_ready")
    /\ UNCHANGED <<parent, usr2, game, known, target, dying, pending>>

Notified == TRUE                           \* usr2 after kill(data->parent_id, SIGUSR2)

Notify(p, from, to) ==
    /\ pc[p] = from
    /\ usr2' = Notified
    /\ Goto(p, to)
    /\ UNCHANGED <<parent, game, process, dying, pending>>

NotifyReady(p) == Notify(p, "notify_ready", "suspend")

(* sigsuspend runs the handler of one of the pending signals *)
Catch(p, signal, to) ==
    /\ pc[p] = "suspend"
    /\ signal \in pending[p]
    /\ pending' = [pending EXCEPT ![p] = @ \ {signal}]
    /\ Goto(p, to)
    /\ UNCHANGED <<parent, usr2, game, process>>

CatchOrder(p) == Catch(p, "USR1", "aim") /\ UNCHANGED dying

(* child_sigterm_catch fakes the shot unless this process has shot *)
WrongFakes(p) == FALSE
Fakes(p) == ~Has(p, "SHOT")

CatchShot(p) ==
    /\ Catch(p, "TERM", IF Fakes(p) THEN "aim" ELSE "dead")
    /\ dying' = dying \cup {p}

(* child_rand_proc counts off one of these *)
Choices(p) == Children \ (Dead \cup {p})

(* what the instance lets it count off *)
Allowed(p, choices) ==
    IF choices \cap Victims[p] # {} THEN choices \cap Victims[p] ELSE choices

(* The choice of the target, the shot and its record: nobody reads a target *)
(* before the SHOT that follows                                             *)
Shoot(p) ==
    /\ pc[p] = "aim"
    /\ \E t \in Allowed(p, Choices(p)) :
          /\ target' = [target EXCEPT ![p] = t]
          /\ pending' = [pending EXCEPT ![t] = Sent(t, "TERM")]
    /\ Goto(p, "shot")
    /\ UNCHANGED <<parent, usr2, game, known, status, dying>>

SetShot(p) ==
    /\ pc[p] = "shot"
    /\ status' = [status EXCEPT ![p] = @ \cup {"SHOT"}]
    /\ Goto(p, "notify_shot")
    /\ UNCHANGED <<parent, usr2, game, known, target, dying, pending>>

(* A shot that child_sigterm_catch faked returns to it *)
NotifyShot(p) == Notify(p, "notify_shot", IF p \in dying THEN "dead" ELSE "suspend")

SetDead(p) ==
    /\ pc[p] = "dead"
    /\ status' = [status EXCEPT ![p] = @ \cup {"DEAD_THIS_ROUND"}]
    /\ Goto(p, "notify_dead")
    /\ UNCHANGED <<parent, usr2, game, known, target, dying, pending>>

NotifyDead(p) == Notify(p, "notify_dead", "exit")

(* The end of a process drops what was pending for it.  init reaps orphans. *)
End(p) ==
    /\ Goto(p, "zombie")
    /\ pending' = [pending EXCEPT ![p] = {}]
    /\ dying' = dying \ {p}
    /\ UNCHANGED <<parent, usr2, game, process>>

Exit(p) == pc[p] = "exit" /\ End(p)
Killed(p) == "KILL" \in pending[p] /\ End(p)
-----------------------------------------------------------------------------
Parent ==
    \/ Fork \/ ForkFails \/ AllCreated \/ CheckReady \/ WaitReady \/ Resolve \/ Decide
    \/ Signal \/ CheckRound \/ WaitRound \/ Dump \/ KillAll \/ ReleaseData

Child(p) ==
    \/ SetId(p) \/ BecomeReady(p) \/ NotifyReady(p) \/ CatchOrder(p) \/ CatchShot(p)
    \/ Shoot(p) \/ SetShot(p) \/ NotifyShot(p)
    \/ SetDead(p) \/ NotifyDead(p) \/ Exit(p) \/ Killed(p)

Gone == ppc = "gone" /\ ~\E p \in Children : Exists(p)
Done == Gone /\ UNCHANGED vars

Next == Parent \/ Interrupt \/ (\E p \in Children : Child(p)) \/ Done

Spec == Init /\ [][Next]_vars

(* The kernel schedules every process that can run and delivers pending    *)
(* signals; the loops that create and kill go on.                           *)
FairSpec ==
    /\ Spec
    /\ WF_vars(Parent)
    /\ \A p \in Children : WF_vars(Child(p))
-----------------------------------------------------------------------------
(* Properties *)

InHandler == {"aim", "shot", "dead"}

(***************************************************************************)
(* The parent rewrites the statuses, and the players see who is dead, only *)
(* between rounds: while it does, no child is inside a handler that has a   *)
(* status still to write, and no order and no shot is left to be delivered  *)
(* to somebody who plays on (it would count for the next round).            *)
(***************************************************************************)
RoundsApart ==
    ppc \in {"resolve", "decide"} =>
        \A p \in Children :
            /\ pc[p] \notin InHandler
            /\ Exists(p) /\ ~Has(p, "DEAD_THIS_ROUND") => pending[p] \subseteq {"KILL"}

(***************************************************************************)
(* child_rand_proc counts off rand() % (alive_count - 1) others: there is  *)
(* always one to count, so it neither divides by zero nor returns NULL, and *)
(* the one it finds has not been reaped, whose pid could be another's.      *)
(***************************************************************************)
FindsTarget ==
    \A p \in Children :
        pc[p] = "aim" =>
            /\ alive_count > 1
            /\ Cardinality(Choices(p)) = alive_count - 1
            /\ \A t \in Choices(p) : pc[t] # "reaped"

(* __dump prints the target of every process after the first round: nobody *)
(* is without one then.                                                     *)
WrongDumpsTargets == rounds > 0
DumpsTargets == rounds > 1
DumpFindsTargets == ppc = "dump" /\ DumpsTargets => \A p \in Children : target[p] # N

(* "Our parent was interrupted, dump data for debugging and release all":  *)
(* the parent does not go without releasing the shared memory.              *)
ReleasedAtExit == ppc = "gone" => released

(* The game ends: no wake-up is lost.  However the parent ends, the shared *)
(* memory is released unless a fork failed or it was interrupted, and no     *)
(* child outlives it.                                                        *)
GameEnds == <>(Gone /\ (released \/ failed))

(* The children play the game: a shot takes place when the shooter's SHOT  *)
(* is written, the round is resolved when the parent finds it over.  Before *)
(* the first round all of them are alive, whatever the statuses say.        *)
Resolving == ppc \in {"resolve", "decide"}
Preparing == rounds = 0
gameAlive ==
    IF Preparing THEN Children
    ELSE {p \in Children : ~Has(p, "DEAD") /\ (Resolving => ~Has(p, "DEAD_THIS_ROUND"))}
gameShot == IF Preparing \/ Resolving THEN {} ELSE {p \in gameAlive : Has(p, "SHOT")}
gameHit == {target[p] : p \in gameShot}

Game == INSTANCE ShootingGame
            WITH Players <- Children, alive <- gameAlive, shot <- gameShot, hit <- gameHit

ImplementsGame == Game!Spec
=============================================================================
