------------------------------- MODULE Pist2 --------------------------------
(***************************************************************************)
(* ssooii/pist2/pist2.c: a parent forks one process per player.  The       *)
(* players share an anonymous mapping (struct GameData), a System V        *)
(* message queue and two System V semaphores used as a double barrier: in  *)
(* each round the coordinator, the last player of the array that is not    *)
(* dead, raises a semaphore by the number of players alive; everyone       *)
(* lowers it by one (W) and waits until it is zero (W0).  The first        *)
(* barrier closes the shooting, the second one the counting of the dead.   *)
(*                                                                         *)
(* A process is killed or exits at any instruction: "pc" stays where the   *)
(* process was and "proc" says how it ended.                               *)
(***************************************************************************)
EXTENDS Naturals, FiniteSets

CONSTANTS
    N,               (* count: the processes the parent creates                       *)
    Bypass,          (* compiled with BYPASS_STATEMENT: no message queue              *)
    Victims,         (* Victims[p]: whom the library may give p as a target           *)
    Faults,          (* the calls that may fail, by name                              *)
    InterruptAt      (* the parent's points where SIGINT or SIGTERM may arrive        *)

Players == 0 .. N - 1

ParentPcs == {"semget", "msgget", "inicio", "fork", "record", "w_ready", "reap",
              "fin", "kill", "rm_sem", "rm_queue", "gone"}

(* SETVAL of READY to N + 1 fails above SEMVMX, 32767 *)
ASSUME NAssumption == N \in Nat /\ 1 <= N /\ N < 32767
ASSUME BypassAssumption == Bypass \in BOOLEAN
ASSUME VictimsAssumption == Victims \in [Players -> SUBSET Players]
ASSUME FaultsAssumption ==
    Faults \subseteq {"semget", "msgget", "inicio", "fork", "nuevoPistolero", "msgsnd"}
ASSUME InterruptAssumption == InterruptAt \subseteq ParentPcs

VARIABLES
    ppc,             (* where the parent is                                           *)
    process_count,   (* GameData: children recorded by the parent                     *)
    alive_count,     (* GameData: players alive, an unsigned short                    *)
    rounds,          (* GameData: rounds started                                      *)
    status,          (* GameData.children[p].status, the set of its bits              *)
    ids,             (* the p whose GameData.children[p].id has been written          *)
    ipc,             (* the IPC objects that exist in the kernel: "sem", "queue"      *)
    all_shooted,     (* semaphore 1, SEMAPHORE_ALL_SHOOTED                            *)
    all_received,    (* semaphore 2, SEMAPHORE_ALL_RECEIVED and SEMAPHORE_READY       *)
    queue,           (* queue[p]: messages of p's type in the message queue           *)
    in_game,         (* external: the players the library counts as alive             *)
    pc,              (* where each child is, or was when it ended                     *)
    proc,            (* what the kernel knows of each child                           *)
    killed,          (* the children SIGKILL has been sent to                         *)
    reaped,          (* the children waitpid has returned                             *)
    last_dead,       (* last_dead_process, N before the last waitpid                  *)
    kill_i,          (* the index of kill_all's loop                                  *)
    im_coordinator,  (* local to each child                                           *)
    this_round,      (* local: this_round_alive_count                                 *)
    target,          (* local: the target of this round, N before the first           *)
    seen             (* local: the target's status as read by "|="                    *)

data == <<process_count, alive_count, rounds, status, ids>>
kernel == <<ipc, all_shooted, all_received, queue>>
local == <<im_coordinator, this_round, target, seen>>
family == <<proc, killed, reaped, last_dead, kill_i>>
vars == <<ppc, data, kernel, in_game, pc, family, local>>

Bits == {"READY", "DEAD_THIS_ROUND", "DEAD"}

ChildPcs == {"start", "register", "w_ready", "w0_ready", "round", "inc_shooted", "aim",
             "load", "store", "send", "w_shooted", "w0_shooted", "inc_received", "check",
             "drain", "die", "uncount", "w_received", "w0_received"}

UShort == {n \in Nat : n < 65536}

ProcStates == {"none", "live", "exit_0", "exit_100", "abort", "sigkill"}

TypeOK ==
    /\ ppc \in ParentPcs
    /\ process_count \in 0 .. N
    /\ alive_count \in UShort
    /\ rounds \in Nat
    /\ status \in [Players -> SUBSET Bits]
    /\ ids \subseteq Players
    /\ ipc \subseteq {"sem", "queue"}
    /\ all_shooted \in Nat
    /\ all_received \in Nat
    /\ queue \in [Players -> Nat]
    /\ in_game \subseteq Players
    /\ pc \in [Players -> ChildPcs]
    /\ proc \in [Players -> ProcStates]
    /\ killed \subseteq Players
    /\ reaped \subseteq Players
    /\ last_dead \in 0 .. N
    /\ kill_i \in 0 .. N
    /\ im_coordinator \in [Players -> BOOLEAN]
    /\ this_round \in [Players -> UShort]
    /\ target \in [Players -> 0 .. N]
    /\ seen \in [Players -> SUBSET Bits]

Init ==
    /\ ppc = "semget"
    /\ process_count = 0 /\ alive_count = 0 /\ rounds = 0
    /\ status = [p \in Players |-> {}]
    /\ ids = {}
    /\ ipc = {} /\ all_shooted = 0 /\ all_received = 0
    /\ queue = [p \in Players |-> 0]
    /\ in_game = {}
    /\ pc = [p \in Players |-> "start"]
    /\ proc = [p \in Players |-> "none"]
    /\ killed = {} /\ reaped = {} /\ last_dead = N /\ kill_i = 0
    /\ im_coordinator = [p \in Players |-> FALSE]
    /\ this_round = [p \in Players |-> 0]
    /\ target = [p \in Players |-> N]
    /\ seen = [p \in Players |-> {}]
-----------------------------------------------------------------------------
(***************************************************************************)
(* System V semaphores and the small computations of the code.  Each name  *)
(* that begins with "Wrong" is a mutation, used by no action: the variant  *)
(* of the definition below it that a bug would leave in the code.          *)
(***************************************************************************)
WrongMayWait(s) == s >= 0
MayWait(s) == s > 0                        \* semop -1 does not block

WrongIsZero(s) == s <= 1
IsZero(s) == s = 0                         \* semop 0 does not block

WrongReadyValue == N
ReadyValue == N + 1                        \* of SEMAPHORE_READY: the parent waits too

WrongNextIndex(i) == i
NextIndex(i) == i + 1                      \* of kill_all's loop

WrongRemoved(o) == IF process_count = N THEN ipc \ {o} ELSE ipc
Removed(o) == ipc \ {o}                    \* IPC_RMID

Decrement(n) == (n + 65535) % 65536        \* ATOMIC_DECREMENT of an unsigned short

WrongMarked(bits) == bits
Marked(bits) == bits \cup {"DEAD_THIS_ROUND"}

WrongAlone == alive_count = 0
Alone == alive_count = 1                   \* the coordinator is the survivor

-----------------------------------------------------------------------------
(* The parent: main, release_all_resources, kill_all, release_data, sig_exit *)

(* FATAL_ERROR and ERROR_EXIT in the parent: exit runs release_all_resources *)
ParentFails(call) == call \in Faults /\ ppc' = "fin"

(* semget; SysV values start at zero here, the SETVALs come in "inicio" *)
CreateSemaphores ==
    /\ ppc = "semget"
    /\ \/ ParentFails("semget") /\ UNCHANGED ipc
       \/ /\ ipc' = ipc \cup {"sem"}
          /\ ppc' = IF Bypass THEN "inicio" ELSE "msgget"
    /\ UNCHANGED <<data, all_shooted, all_received, queue, in_game, pc, family, local>>

CreateQueue ==
    /\ ppc = "msgget"
    /\ \/ ParentFails("msgget") /\ UNCHANGED ipc
       \/ ipc' = ipc \cup {"queue"} /\ ppc' = "inicio"
    /\ UNCHANGED <<data, all_shooted, all_received, queue, in_game, pc, family, local>>

(* PIST_inicio, then READY is given one unit per child and one for the parent *)
StartLibrary ==
    /\ ppc = "inicio"
    /\ \/ ParentFails("inicio") /\ UNCHANGED <<all_shooted, all_received>>
       \/ /\ ppc' = "fork"
          /\ all_received' = ReadyValue
          /\ all_shooted' = 0
    /\ UNCHANGED <<data, ipc, queue, in_game, pc, family, local>>

(* One turn of the creation loop up to the fork; i is process_count *)
Fork ==
    /\ ppc = "fork"
    /\ status' = [status EXCEPT ![process_count] = {"DEAD"}]
    /\ \/ ParentFails("fork") /\ UNCHANGED proc
       \/ /\ ppc' = "record"
          /\ proc' = [proc EXCEPT ![process_count] = "live"]
    /\ UNCHANGED <<process_count, alive_count, rounds, ids, kernel, in_game, pc, killed,
                   reaped, last_dead, kill_i, local>>

(* The rest of the turn; after the last one the signals are unblocked *)
Record ==
    /\ ppc = "record"
    /\ ids' = ids \cup {process_count}
    /\ process_count' = process_count + 1
    /\ alive_count' = (alive_count + 1) % 65536
    /\ ppc' = IF process_count' = N THEN "w_ready" ELSE "fork"
    /\ UNCHANGED <<rounds, status, kernel, in_game, pc, family, local>>

ParentReady ==
    /\ ppc = "w_ready"
    /\ MayWait(all_received)
    /\ all_received' = all_received - 1
    /\ ppc' = "reap"
    /\ UNCHANGED <<data, ipc, all_shooted, queue, in_game, pc, family, local>>

Ended(p) == proc[p] \notin {"none", "live"}

(* waitpid(0, ...), once per child; after the last one main returns *)
Reap(p) ==
    /\ ppc = "reap"
    /\ Ended(p)
    /\ p \notin reaped
    /\ reaped' = reaped \cup {p}
    /\ IF reaped' = Players THEN last_dead' = p /\ ppc' = "fin"
                            ELSE UNCHANGED <<last_dead, ppc>>
    /\ UNCHANGED <<data, kernel, in_game, pc, proc, killed, kill_i, local>>

(* PIST_fin *)
Finish ==
    /\ ppc = "fin"
    /\ ppc' = "kill"
    /\ UNCHANGED <<data, kernel, in_game, pc, family, local>>

(* One turn of kill_all's loop, or its end *)
KillNext ==
    /\ ppc = "kill"
    /\ IF kill_i < process_count
       THEN /\ killed' = IF kill_i \in ids THEN killed \cup {kill_i} ELSE killed
            /\ kill_i' = NextIndex(kill_i)
            /\ UNCHANGED ppc
       ELSE ppc' = "rm_sem" /\ UNCHANGED <<killed, kill_i>>
    /\ UNCHANGED <<data, kernel, in_game, pc, proc, reaped, last_dead, local>>

RemoveSemaphores ==
    /\ ppc = "rm_sem"
    /\ ipc' = Removed("sem")
    /\ ppc' = "rm_queue"
    /\ UNCHANGED <<data, all_shooted, all_received, queue, in_game, pc, family, local>>

RemoveQueue ==
    /\ ppc = "rm_queue"
    /\ ipc' = Removed("queue")
    /\ ppc' = "gone"
    /\ UNCHANGED <<data, all_shooted, all_received, queue, in_game, pc, family, local>>

(***************************************************************************)
(* SIGINT or SIGTERM: sig_exit calls exit.  While the parent is still in   *)
(* main, exit runs release_all_resources (with every signal blocked, since *)
(* the handler has not returned).  When exit is already running it,        *)
(* release_all_resources is not run again and the process ends there.      *)
(***************************************************************************)
Interrupt ==
    /\ ppc \in InterruptAt
    /\ \/ ppc \in {"w_ready", "reap"} /\ ppc' = "fin"
       \/ /\ ppc \in {"fin", "kill", "rm_sem", "rm_queue"}
          /\ reaped = Players     \* main returned: no handler is on the stack
          /\ ppc' = "gone"
    /\ UNCHANGED <<data, kernel, in_game, pc, family, local>>
-----------------------------------------------------------------------------
(* The children: child_proc and is_current_proc_coordinator *)

At(p, l) == proc[p] = "live" /\ pc[p] = l        \* p is about to execute step l
Goto(p, l) == pc' = [pc EXCEPT ![p] = l]
Exit(p, code) == proc' = [proc EXCEPT ![p] = code]

(* no child writes these *)
parents == <<ppc, process_count, ipc, killed, reaped, last_dead, kill_i>>

(* The child's side of the fork: its id, then its status *)
Start(p) ==
    /\ At(p, "start")
    /\ ids' = ids \cup {p}
    /\ status' = [status EXCEPT ![p] = {"READY"}]
    /\ Goto(p, "register")
    /\ UNCHANGED <<parents, alive_count, rounds, all_shooted, all_received, queue, in_game,
                   proc, local>>

(* PIST_nuevoPistolero *)
Register(p) ==
    /\ At(p, "register")
    /\ \/ /\ "nuevoPistolero" \in Faults
          /\ Exit(p, "exit_100")
          /\ UNCHANGED <<in_game, pc>>
       \/ /\ in_game' = in_game \cup {p}
          /\ Goto(p, "w_ready")
          /\ UNCHANGED proc
    /\ UNCHANGED <<parents, alive_count, rounds, status, ids, all_shooted, all_received,
                   queue, local>>

(* semaphore_wait on semaphore 2: READY before the first round, RECEIVED after *)
WaitReceived(p, from, to) ==
    /\ At(p, from)
    /\ "sem" \in ipc
    /\ MayWait(all_received)
    /\ all_received' = all_received - 1
    /\ Goto(p, to)
    /\ UNCHANGED <<parents, alive_count, rounds, status, ids, all_shooted, queue, in_game,
                   proc, local>>

WReady(p) == WaitReceived(p, "w_ready", "w0_ready")
WReceived(p) == WaitReceived(p, "w_received", "w0_received")

W0Ready(p) ==
    /\ At(p, "w0_ready")
    /\ "sem" \in ipc
    /\ IsZero(all_received)
    /\ Goto(p, "round")
    /\ UNCHANGED <<parents, alive_count, rounds, status, ids, all_shooted, all_received,
                   queue, in_game, proc, local>>

WrongUndead == {q \in 0 .. process_count - 1 : "DEAD_THIS_ROUND" \notin status[q]}
Undead == {q \in 0 .. process_count - 1 : "DEAD" \notin status[q]}

(* is_current_proc_coordinator: the scan starts at the end of the array *)
IsCoordinator(p) == p \in Undead /\ \A q \in Undead : q <= p

(***************************************************************************)
(* The head of the loop: everyone decides whether it coordinates; the      *)
(* coordinator exits if it is alone, or counts the round.  The scan is one *)
(* step here although it reads the array entry by entry: CoordinatorStable *)
(* says nobody changes what it reads meanwhile.                            *)
(***************************************************************************)
StartRound(p) ==
    /\ At(p, "round")
    /\ im_coordinator' = [im_coordinator EXCEPT ![p] = IsCoordinator(p)]
    /\ IF Undead = {}
       THEN Exit(p, "abort") /\ UNCHANGED <<pc, rounds, this_round>>     \* assert(0)
       ELSE IF ~IsCoordinator(p)
       THEN Goto(p, "aim") /\ UNCHANGED <<proc, rounds, this_round>>
       ELSE IF Alone
       THEN Exit(p, "exit_0") /\ UNCHANGED <<pc, rounds, this_round>>
       ELSE /\ rounds' = rounds + 1
            /\ this_round' = [this_round EXCEPT ![p] = alive_count]
            /\ Goto(p, "inc_shooted")
            /\ UNCHANGED proc
    /\ UNCHANGED <<parents, alive_count, status, ids, all_shooted, all_received, queue,
                   in_game, target, seen>>

IncShooted(p) ==
    /\ At(p, "inc_shooted")
    /\ "sem" \in ipc
    /\ all_shooted' = all_shooted + this_round[p]
    /\ Goto(p, "aim")
    /\ UNCHANGED <<parents, alive_count, rounds, status, ids, all_received, queue, in_game,
                   proc, local>>

(* PIST_vIctima gives another player the library counts as alive, '@' if none *)
Aim(p) ==
    /\ At(p, "aim")
    /\ IF in_game \ {p} = {}
       THEN Exit(p, "exit_100") /\ UNCHANGED <<target, pc>>
       ELSE /\ \E t \in (in_game \ {p}) \cap Victims[p] :
                   target' = [target EXCEPT ![p] = t]
            /\ Goto(p, "load")
            /\ UNCHANGED proc
    /\ UNCHANGED <<parents, alive_count, rounds, status, ids, all_shooted, all_received,
                   queue, in_game, im_coordinator, this_round, seen>>

(* status |= PID_STATUS_DEAD_THIS_ROUND, a read and a write that are not atomic *)
Load(p) ==
    /\ At(p, "load")
    /\ seen' = [seen EXCEPT ![p] = status[target[p]]]
    /\ Goto(p, "store")
    /\ UNCHANGED <<parents, alive_count, rounds, status, ids, all_shooted, all_received,
                   queue, in_game, proc, im_coordinator, this_round, target>>

Store(p) ==
    /\ At(p, "store")
    /\ status' = [status EXCEPT ![target[p]] = Marked(seen[p])]
    /\ Goto(p, "send")
    /\ UNCHANGED <<parents, alive_count, rounds, ids, all_shooted, all_received, queue,
                   in_game, proc, local>>

(* msgsnd, unless compiled out, and PIST_disparar, whose failure is only printed *)
Send(p) ==
    /\ At(p, "send")
    /\ IF Bypass
       THEN Goto(p, "w_shooted") /\ UNCHANGED <<queue, proc>>
       ELSE \/ /\ "queue" \notin ipc \/ "msgsnd" \in Faults
               /\ Exit(p, "exit_100")
               /\ UNCHANGED <<queue, pc>>
            \/ /\ "queue" \in ipc
               /\ queue' = [queue EXCEPT ![target[p]] = @ + 1]
               /\ Goto(p, "w_shooted")
               /\ UNCHANGED proc
    /\ UNCHANGED <<parents, alive_count, rounds, status, ids, all_shooted, all_received,
                   in_game, local>>

WShooted(p) ==
    /\ At(p, "w_shooted")
    /\ "sem" \in ipc
    /\ MayWait(all_shooted)
    /\ all_shooted' = all_shooted - 1
    /\ Goto(p, "w0_shooted")
    /\ UNCHANGED <<parents, alive_count, rounds, status, ids, all_received, queue, in_game,
                   proc, local>>

W0Shooted(p) ==
    /\ At(p, "w0_shooted")
    /\ "sem" \in ipc
    /\ IsZero(all_shooted)
    /\ Goto(p, IF im_coordinator[p] THEN "inc_received" ELSE "check")
    /\ UNCHANGED <<parents, alive_count, rounds, status, ids, all_shooted, all_received,
                   queue, in_game, proc, local>>

IncReceived(p) ==
    /\ At(p, "inc_received")
    /\ "sem" \in ipc
    /\ all_received' = all_received + this_round[p]
    /\ Goto(p, "check")
    /\ UNCHANGED <<parents, alive_count, rounds, status, ids, all_shooted, queue, in_game,
                   proc, local>>

HasMessage(p) == "queue" \in ipc /\ queue[p] > 0

(* Was p shot?  The first msgrcv, or the status when there is no queue *)
Check(p) ==
    /\ At(p, "check")
    /\ IF Bypass
       THEN IF "DEAD_THIS_ROUND" \in status[p]
            THEN Goto(p, "die") /\ UNCHANGED <<status, queue>>
            ELSE /\ status' = [status EXCEPT ![p] = {"READY"}]
                 /\ Goto(p, "w_received")
                 /\ UNCHANGED queue
       ELSE IF HasMessage(p)
            THEN /\ queue' = [queue EXCEPT ![p] = @ - 1]
                 /\ Goto(p, "drain")
                 /\ UNCHANGED status
            ELSE /\ status' = [status EXCEPT ![p] = {"READY"}]
                 /\ Goto(p, "w_received")
                 /\ UNCHANGED queue
    /\ UNCHANGED <<parents, alive_count, rounds, ids, all_shooted, all_received, in_game,
                   proc, local>>

WrongMoreMessages(p) == FALSE
MoreMessages(p) == HasMessage(p)           \* the condition of the draining loop

(* The rest of the messages, and the assertion on the status *)
Drain(p) ==
    /\ At(p, "drain")
    /\ IF MoreMessages(p)
       THEN queue' = [queue EXCEPT ![p] = @ - 1] /\ UNCHANGED <<pc, proc>>
       ELSE IF "DEAD_THIS_ROUND" \in status[p]
       THEN Goto(p, "die") /\ UNCHANGED <<queue, proc>>
       ELSE Exit(p, "abort") /\ UNCHANGED <<queue, pc>>
    /\ UNCHANGED <<parents, alive_count, rounds, status, ids, all_shooted, all_received,
                   in_game, local>>

Die(p) ==
    /\ At(p, "die")
    /\ status' = [status EXCEPT ![p] = @ \cup {"DEAD"}]
    /\ Goto(p, "uncount")
    /\ UNCHANGED <<parents, alive_count, rounds, ids, all_shooted, all_received, queue,
                   in_game, proc, local>>

(* ATOMIC_DECREMENT and PIST_morirme *)
Uncount(p) ==
    /\ At(p, "uncount")
    /\ alive_count' = Decrement(alive_count)
    /\ in_game' = in_game \ {p}
    /\ Goto(p, "w_received")
    /\ UNCHANGED <<parents, rounds, status, ids, all_shooted, all_received, queue, proc,
                   local>>

(* The end of the round: the dead exit, the others start over *)
W0Received(p) ==
    /\ At(p, "w0_received")
    /\ "sem" \in ipc
    /\ IsZero(all_received)
    /\ IF "DEAD" \in status[p] THEN Exit(p, "exit_0") /\ UNCHANGED pc
                               ELSE Goto(p, "round") /\ UNCHANGED proc
    /\ UNCHANGED <<parents, alive_count, rounds, status, ids, all_shooted, all_received,
                   queue, in_game, local>>

(* semop on a set that has been removed: FATAL_ERROR *)
SemaphoreGone(p) ==
    /\ proc[p] = "live"
    /\ pc[p] \in {"w_ready", "w0_ready", "inc_shooted", "w_shooted", "w0_shooted",
                  "inc_received", "w_received", "w0_received"}
    /\ "sem" \notin ipc
    /\ Exit(p, "exit_100")
    /\ UNCHANGED <<parents, alive_count, rounds, status, ids, all_shooted, all_received,
                   queue, in_game, pc, local>>

(* The kernel delivers the SIGKILL, sooner or later *)
Killed(p) ==
    /\ proc[p] = "live"
    /\ p \in killed
    /\ Exit(p, "sigkill")
    /\ UNCHANGED <<parents, alive_count, rounds, status, ids, all_shooted, all_received,
                   queue, in_game, pc, local>>
-----------------------------------------------------------------------------
Parent ==
    \/ CreateSemaphores \/ CreateQueue \/ StartLibrary \/ Fork \/ Record \/ ParentReady
    \/ Finish \/ KillNext \/ RemoveSemaphores \/ RemoveQueue
    \/ \E p \in Players : Reap(p)

Child(p) ==
    \/ Start(p) \/ Register(p) \/ WReady(p) \/ W0Ready(p) \/ StartRound(p) \/ IncShooted(p)
    \/ Aim(p) \/ Load(p) \/ Store(p) \/ Send(p) \/ WShooted(p) \/ W0Shooted(p)
    \/ IncReceived(p) \/ Check(p) \/ Drain(p) \/ Die(p) \/ Uncount(p)
    \/ WReceived(p) \/ W0Received(p) \/ SemaphoreGone(p) \/ Killed(p)

(* Parent and children have all ended; anything else that stops is a deadlock *)
AllGone == ppc = "gone" /\ \A p \in Players : proc[p] # "live"

Next == Parent \/ Interrupt \/ (\E p \in Players : Child(p)) \/ (AllGone /\ UNCHANGED vars)

Spec == Init /\ [][Next]_vars

(* The kernel schedules every process that can run *)
Fairness == WF_vars(Parent) /\ \A p \in Players : WF_vars(Child(p))

FairSpec == Spec /\ Fairness
-----------------------------------------------------------------------------
(* Properties *)

RoundPcs == {"inc_shooted", "aim", "load", "store", "send", "w_shooted"}
ResolvePcs == {"inc_received", "check", "drain", "die", "uncount", "w_received"}
(* someone may leave the first barrier when the others wait at the second one *)
Resolving == \E p \in Players : \/ pc[p] \in ResolvePcs
                                \/ pc[p] = "w0_shooted" /\ all_received > 0
Starting == \E p \in Players : pc[p] \in {"start", "register", "w_ready"}

(***************************************************************************)
(* The double barrier keeps the two halves of a round apart: while one     *)
(* process still counts the dead of a round, none chooses a coordinator,   *)
(* starts to shoot or still has to pass the first barrier.                 *)
(***************************************************************************)
PhasesApart ==
    Resolving => \A p \in Players : pc[p] \notin RoundPcs \cup {"round"}

(***************************************************************************)
(* Each process decides alone, from the shared array, whether it           *)
(* coordinates the round; no two of them conclude that they do, so the     *)
(* semaphores are raised once per round.                                   *)
(***************************************************************************)
UniqueCoordinator ==
    \A p, q \in Players :
        /\ {pc[p], pc[q]} \subseteq RoundPcs \cup {"w0_shooted", "inc_received"}
        /\ im_coordinator[p] /\ im_coordinator[q]
        => p = q

(***************************************************************************)
(* When a process is about to choose the coordinator, the counter, the     *)
(* status of the processes and the library agree on who is alive.          *)
(***************************************************************************)
AliveCountAgrees ==
    \A p \in Players : At(p, "round") =>
        /\ Cardinality(Undead) = alive_count
        /\ Undead = in_game

(***************************************************************************)
(* The scan of the statuses is made entry by entry; what it and the tests  *)
(* of alive_count read does not change while a process is at it.           *)
(***************************************************************************)
CoordinatorStable ==
    [][(\E p \in Players : At(p, "round")) => UNCHANGED <<Undead, alive_count>>]_vars

(***************************************************************************)
(* A shot that has been marked is not lost: the read and the write of      *)
(* "status |= DEAD_THIS_ROUND" are separate and several processes may      *)
(* shoot the same target, which is never one that died earlier.            *)
(***************************************************************************)
NoLostShot ==
    \A p \in Players :
        /\ pc[p] \in {"send", "w_shooted", "w0_shooted"}
              => "DEAD_THIS_ROUND" \in status[target[p]]
        /\ pc[p] \in {"load", "store"} => "DEAD" \notin status[target[p]]

(***************************************************************************)
(* The messages in the queue are those of the shots of this round: each    *)
(* round's victims drain theirs, none is left for a later round.           *)
(***************************************************************************)
MessagesOfThisRound ==
    ~Bypass /\ ~Resolving =>
        \A t \in Players :
            queue[t] = Cardinality({p \in Players : /\ pc[p] \in {"w_shooted", "w0_shooted"}
                                                    /\ target[p] = t})

(***************************************************************************)
(* The assertions of the code hold (a coordinator exists; who has a        *)
(* message is marked), and whatever fails the library finds a victim for   *)
(* whoever asks it ("This shit blew up"): the last player alive has left    *)
(* before.  If no call fails and no signal comes, no child fails at all:    *)
(* none finds the semaphores or the queue gone.                              *)
(***************************************************************************)
ChildFailed == \E p \in Players : proc[p] \in {"exit_100", "abort"}

NoChildFails ==
    /\ \A p \in Players : /\ proc[p] # "abort"
                          /\ pc[p] = "aim" => proc[p] # "exit_100"
    /\ Faults = {} /\ InterruptAt = {} => ~ChildFailed

(* The parent leaves no semaphore set and no message queue behind,         *)
(* whatever failed and wherever it was interrupted ("release everything").  *)
ReleasedAtExit == ppc = "gone" => ipc = {}

(* The game ends, unless a call of a child fails: some round has at most   *)
(* one survivor, all the processes exit, the parent reaps them, removes the *)
(* IPC objects and ends.  Without faults that is how every game ends, and   *)
(* none of its children has failed.                                          *)
GameEnds ==
    /\ []NoChildFails
    /\ <>((AllGone /\ ipc = {}) \/ (Faults # {} /\ ChildFailed))

(* Once the parent has begun to release the resources, it does release     *)
(* them all and no child outlives it for ever, even one blocked in a       *)
(* semaphore or one of a half-created family.                               *)
CleanupCompletes == ppc = "fin" ~> (AllGone /\ ipc = {})

(***************************************************************************)
(* What the family plays is the game: a shot takes place when the target's *)
(* status is written, and the round is resolved when the first process     *)
(* leaves the first barrier.                                                *)
(***************************************************************************)
Shot == "DEAD_THIS_ROUND"
gameAlive ==
    IF Starting THEN Players
    ELSE {p \in Players : "DEAD" \notin status[p] /\ (Resolving => Shot \notin status[p])}
gameShot ==
    IF Resolving THEN {}
    ELSE {p \in gameAlive : pc[p] \in {"send", "w_shooted", "w0_shooted"}}
gameHit ==
    IF Resolving \/ Starting THEN {}
    ELSE {p \in Players : Shot \in status[p] /\ "DEAD" \notin status[p]}

Game == INSTANCE ShootingGame WITH alive <- gameAlive, shot <- gameShot, hit <- gameHit

ImplementsGame == Game!Spec
=============================================================================
