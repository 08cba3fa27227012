-------------------------------- MODULE Cruce --------------------------------
(***************************************************************************)
(* ssooii/cruce/cruce.c: main forks a manager, which sets the traffic      *)
(* lights, and cars and walkers that cross a grid, at most MaxCount at a   *)
(* time.  Each has a slot of the shared memory for its pid, and one System *)
(* V semaphore, MAP_ACCESS, protects the grid.  Where they appear and what *)
(* cell comes next is up to a closed library.  Main only ends by a signal  *)
(* or a failed call, through an exit handler that kills and releases.      *)
(***************************************************************************)
EXTENDS Naturals, FiniteSets, Functions

CONSTANTS
    Pids,            (* what fork may return for cars and walkers: bounds the instance *)
    MaxCount,        (* max_count - 2: the slots                                       *)
    Cells,           (* points of the grid                                             *)
    WalkerBirths,    (* <<current, next>> of CRUCE_inicio_peatOn_ext                   *)
    CarBirths,       (* CRUCE_inicio_coche                                             *)
    Advance,         (* CRUCE_avanzar_...: what may come after each cell               *)
    Off              (* a point with y < 0: the way ends                               *)

Slots == 0 .. MaxCount - 1

ASSUME CountAssumption == MaxCount \in Nat \ {0}
ASSUME PidsAssumption == 0 \notin Pids /\ IsFiniteSet(Pids)
ASSUME BirthsAssumption ==
    /\ WalkerBirths \subseteq Cells \X Cells
    /\ CarBirths \subseteq Cells
ASSUME AdvanceAssumption ==
    /\ Advance \in [Cells -> SUBSET (Cells \cup {Off})]
    /\ Off \notin Cells
    /\ \A c \in Cells : c \notin Advance[c]
    /\ \A b \in WalkerBirths : b[1] # b[2]

VARIABLES
    main,            (* where main is                                                  *)
    index,           (* its i                                                          *)
    newborn,         (* its current_pid                                                *)
    manager,         (* "none", "starting", "idle" or "ended"                          *)
    manager_id,      (* GameData: 0 until main stores it                               *)
    alive_count,     (* GameData                                                       *)
    children,        (* GameData: the pid in each slot, 0 if it is free                *)
    grid,            (* GameData: the cells that are marked                            *)
    semaphores,      (* "none", "created" or "removed"                                 *)
    map_access,      (* SEMAPHORE_MAP_ACCESS                                           *)
    manager_ready,   (* SEMAPHORE_MANAGER_READY                                        *)
    child            (* each car and walker                                            *)

mains == <<main, index, newborn, manager, manager_id, alive_count, semaphores>>
vars == <<mains, children, grid, map_access, manager_ready, child>>

Running == {"start", "birth", "lock_mark", "mark", "wait", "lock", "check", "move",
            "lock_leave", "leave", "clear"}

TypeOK ==
    /\ main \in {"inicio", "fork_manager", "store_manager", "await", "count", "scan", "fork",
                 "store", "fin", "kill", "release", "gone"}
    /\ index \in 0 .. MaxCount
    /\ newborn \in Pids \cup {0}
    /\ manager \in {"none", "starting", "idle", "ended"}
    /\ manager_id \in {0, 1}
    /\ alive_count \in 0 .. MaxCount
    /\ children \in [Slots -> Pids \cup {0}]
    /\ grid \subseteq Cells
    /\ semaphores \in {"none", "created", "removed"}
    /\ map_access \in {0, 1}
    /\ manager_ready \in {0, 1}
    /\ child \in [Pids -> [at : Running \cup {"none", "zombie", "reaped"},
                           type : {"COCHE", "PEAToN"}, slot : Slots,
                           current : Cells \cup {Off}, next : Cells \cup {Off}]]

(* create_data: the shared memory is full of zeros *)
Init ==
    /\ main = "inicio" /\ index = 0 /\ newborn = 0
    /\ manager = "none" /\ manager_id = 0
    /\ alive_count = 0
    /\ children = [i \in Slots |-> 0]
    /\ grid = {}
    /\ semaphores = "none" /\ map_access = 0 /\ manager_ready = 0
    /\ child = [p \in Pids |-> [at |-> "none", type |-> "COCHE", slot |-> 0,
                                current |-> Off, next |-> Off]]

Is(p, l) == child[p].at = l
Alive(p) == child[p].at \in Running
Free == {i \in Slots : children[i] = 0}
-----------------------------------------------------------------------------
(* Main.  A "Wrong" definition is a mutation that no action uses. *)

(* semget, CRUCE_inicio and the three SETVAL *)
Inicio ==
    /\ main = "inicio"
    /\ main' = "fork_manager"
    /\ semaphores' = "created" /\ map_access' = 1 /\ manager_ready' = 0
    /\ UNCHANGED <<index, newborn, manager, manager_id, alive_count, children, grid, child>>

ForkManager ==
    /\ main = "fork_manager"
    /\ main' = "store_manager"
    /\ manager' = "starting"
    /\ UNCHANGED <<index, newborn, manager_id, alive_count, semaphores, children, grid,
                   map_access, manager_ready, child>>

StoreManager ==
    /\ main = "store_manager"
    /\ main' = "await"
    /\ manager_id' = 1
    /\ UNCHANGED <<index, newborn, manager, alive_count, semaphores, children, grid,
                   map_access, manager_ready, child>>

(* semaphore_lock(MANAGER_READY) *)
Await ==
    /\ main = "await" /\ manager_ready > 0
    /\ main' = "count"
    /\ manager_ready' = manager_ready - 1
    /\ UNCHANGED <<index, newborn, manager, manager_id, alive_count, semaphores, children,
                   grid, map_access, child>>

WrongFull == alive_count = MaxCount + 1
Full == alive_count = MaxCount

(* waitpid if there are as many as there may be *)
Count ==
    /\ main = "count"
    /\ main' = "scan"
    /\ IF Full
       THEN /\ \E p \in Pids : Is(p, "zombie") /\ child' = [child EXCEPT ![p].at = "reaped"]
            /\ alive_count' = alive_count - 1
       ELSE UNCHANGED <<alive_count, child>>
    /\ UNCHANGED <<index, newborn, manager, manager_id, semaphores, children, grid,
                   map_access, manager_ready>>

(* The first slot that is free; else the loop starts again *)
Scan ==
    /\ main = "scan"
    /\ IF Free = {}
       THEN main' = "count" /\ index' = MaxCount
       ELSE /\ main' = "fork"
            /\ index' \in Free /\ \A i \in Free : index' <= i
    /\ UNCHANGED <<newborn, manager, manager_id, alive_count, semaphores, children, grid,
                   map_access, manager_ready, child>>

(* CRUCE_nuevo_proceso and fork *)
Fork ==
    /\ main = "fork"
    /\ main' = "store"
    /\ \E p \in Pids, type \in {"COCHE", "PEAToN"} :
          /\ Is(p, "none")
          /\ newborn' = p
          /\ child' = [child EXCEPT ![p] = [@ EXCEPT !.at = "start", !.type = type, !.slot = index]]
    /\ UNCHANGED <<index, manager, manager_id, alive_count, semaphores, children, grid,
                   map_access, manager_ready>>

(* Main stores the pid too, whatever the child has done by now *)
Store ==
    /\ main = "store"
    /\ main' = "count"
    /\ children' = [children EXCEPT ![index] = newborn]
    /\ alive_count' = alive_count + 1
    /\ UNCHANGED <<index, newborn, manager, manager_id, semaphores, grid, map_access,
                   manager_ready, child>>
-----------------------------------------------------------------------------
(* The end of main: sig_exit, in which every signal is blocked, or exit    *)
(* after a call that failed, where a later interrupt is left out.           *)

Exit ==
    /\ main \notin {"fin", "kill", "release", "gone"}
    /\ main' = "fin"
    /\ UNCHANGED <<index, newborn, manager, manager_id, alive_count, semaphores, children,
                   grid, map_access, manager_ready, child>>

Dead(p) == IF Alive(p) THEN [child[p] EXCEPT !.at = "zombie"] ELSE child[p]

(* kill(0, SIGKILL): the whole process group, main included *)
KillGroup ==
    /\ main' = "gone"
    /\ manager' = "ended"
    /\ child' = [p \in Pids |-> Dead(p)]
    /\ UNCHANGED index

(* release_all_resources: CRUCE_fin; kill_all: the manager *)
KillManager ==
    /\ main = "fin"
    /\ IF manager_id = 0
       THEN KillGroup
       ELSE main' = "kill" /\ index' = 0 /\ manager' = "ended" /\ UNCHANGED child
    /\ UNCHANGED <<newborn, manager_id, alive_count, semaphores, children, grid, map_access,
                   manager_ready>>

WrongLastSlot == MaxCount - 2
LastSlot == MaxCount - 1

(* kill_all: the slots *)
KillSlot ==
    /\ main = "kill"
    /\ IF children[index] = 0
       THEN KillGroup
       ELSE /\ child' = [child EXCEPT ![children[index]] = Dead(children[index])]
            /\ IF index = LastSlot THEN main' = "release" /\ UNCHANGED index
                                       ELSE index' = index + 1 /\ UNCHANGED main
            /\ UNCHANGED manager
    /\ UNCHANGED <<newborn, manager_id, alive_count, semaphores, children, grid, map_access,
                   manager_ready>>

(* release_data *)
ReleaseData ==
    /\ main = "release"
    /\ main' = "gone"
    /\ semaphores' = "removed"
    /\ UNCHANGED <<index, newborn, manager, manager_id, alive_count, children, grid,
                   map_access, manager_ready, child>>
-----------------------------------------------------------------------------
(* manager_proc: the lights, semaphore_unlock(MANAGER_READY), then pausa for ever *)
ManagerReady ==
    /\ manager = "starting"
    /\ manager' = "idle"
    /\ manager_ready' = manager_ready + 1
    /\ UNCHANGED <<main, index, newborn, manager_id, alive_count, semaphores, children, grid,
                   map_access, child>>
-----------------------------------------------------------------------------
(* Cars and walkers.  What is written last under the semaphore and the     *)
(* semaphore_unlock that follows are one step.                              *)

Goto(p, l) == child' = [child EXCEPT ![p].at = l]

SetId(p) ==
    /\ Is(p, "start")
    /\ children' = [children EXCEPT ![child[p].slot] = p]
    /\ Goto(p, "birth")
    /\ UNCHANGED <<mains, grid, map_access, manager_ready>>

WalkerBirth(p) ==
    /\ Is(p, "birth") /\ child[p].type = "PEAToN"
    /\ \E b \in WalkerBirths :
          child' = [child EXCEPT ![p] = [@ EXCEPT !.at = "lock_mark", !.current = b[1], !.next = b[2]]]
    /\ UNCHANGED <<mains, children, grid, map_access, manager_ready>>

(* A car has its first cell still to enter: its next is the current one *)
CarBirth(p) ==
    /\ Is(p, "birth") /\ child[p].type = "COCHE"
    /\ \E c \in CarBirths :
          child' = [child EXCEPT ![p] = [@ EXCEPT !.at = "wait", !.current = c, !.next = c]]
    /\ UNCHANGED <<mains, children, grid, map_access, manager_ready>>

(* semaphore_wait_zero(MANAGER_READY) *)
CarWait(p) ==
    /\ Is(p, "wait") /\ manager_ready = 0
    /\ Goto(p, "lock")
    /\ UNCHANGED <<mains, children, grid, map_access, manager_ready>>

(* semaphore_lock(MAP_ACCESS): afterwards l holds *)
WrongLocked == TRUE
Locked == map_access > 0

Lock(p, from, to) ==
    /\ Is(p, from) /\ Locked
    /\ map_access' = 0
    /\ Goto(p, to)
    /\ UNCHANGED <<mains, children, grid, manager_ready>>

LockToMark(p) == Lock(p, "lock_mark", "mark")
LockToMove(p) == Lock(p, "lock", "check")
LockToLeave(p) == Lock(p, "lock_leave", "leave")

(* A walker marks the cell where it appears, whether it is free or not *)
Mark(p) ==
    /\ Is(p, "mark")
    /\ grid' = grid \cup {child[p].current}
    /\ map_access' = 1
    /\ Goto(p, "lock")
    /\ UNCHANGED <<mains, children, manager_ready>>

(* pausa fails: process pause fail, dying *)
PauseFails(p) ==
    /\ Is(p, "lock")
    /\ Goto(p, "lock_leave")
    /\ UNCHANGED <<mains, children, grid, map_access, manager_ready>>

WrongNextIsFree(p) == TRUE
NextIsFree(p) == child[p].next \notin grid

Check(p) ==
    /\ Is(p, "check")
    /\ IF NextIsFree(p)
       THEN Goto(p, "move") /\ UNCHANGED map_access
       ELSE Goto(p, "lock") /\ map_access' = 1
    /\ UNCHANGED <<mains, children, grid, manager_ready>>

Move(p) ==
    /\ Is(p, "move")
    /\ grid' = (grid \ {child[p].current}) \cup {child[p].next}
    /\ map_access' = 1
    /\ \E next \in Advance[child[p].next] :
          child' = [child EXCEPT ![p] = [@ EXCEPT !.at = IF next = Off THEN "lock_leave" ELSE "lock",
                                                  !.current = child[p].next, !.next = next]]
    /\ UNCHANGED <<mains, children, manager_ready>>

(* me->id = 0 *)
WrongCleared(p) == children
Cleared(p) == [children EXCEPT ![child[p].slot] = 0]

WalkerLeave(p) ==
    /\ Is(p, "leave") /\ child[p].type = "PEAToN"
    /\ grid' = grid \ {child[p].current}
    /\ children' = Cleared(p)
    /\ map_access' = 1
    /\ Goto(p, "zombie")
    /\ UNCHANGED <<mains, manager_ready>>

CarLeave(p) ==
    /\ Is(p, "leave") /\ child[p].type = "COCHE"
    /\ grid' = grid \ {child[p].current}
    /\ map_access' = 1
    /\ Goto(p, "clear")
    /\ UNCHANGED <<mains, children, manager_ready>>

CarClear(p) ==
    /\ Is(p, "clear")
    /\ children' = Cleared(p)
    /\ Goto(p, "zombie")
    /\ UNCHANGED <<mains, grid, map_access, manager_ready>>
-----------------------------------------------------------------------------
Main ==
    \/ Inicio \/ ForkManager \/ StoreManager \/ Await \/ Count \/ Scan \/ Fork \/ Store
    \/ KillManager \/ KillSlot \/ ReleaseData

Child(p) ==
    \/ SetId(p) \/ WalkerBirth(p) \/ CarBirth(p) \/ CarWait(p)
    \/ LockToMark(p) \/ LockToMove(p) \/ LockToLeave(p)
    \/ Mark(p) \/ PauseFails(p) \/ Check(p) \/ Move(p)
    \/ WalkerLeave(p) \/ CarLeave(p) \/ CarClear(p)

Next == Main \/ Exit \/ ManagerReady \/ (\E p \in Pids : Child(p))

Spec == Init /\ [][Next]_vars
-----------------------------------------------------------------------------
(* Properties *)

(* p stands on c, which it has entered or marked *)
StandsOn(p, c) ==
    /\ child[p].at \in {"lock", "check", "move", "lock_leave", "leave"}
    /\ child[p].current = c
    /\ child[p].next # c

(* pausa_coche has failed in a car that was not on the grid yet, and it    *)
(* clears the cell where it was to appear, whoever is there                 *)
Fled == \E p \in Pids : child[p].type = "COCHE" /\ child[p].current # Off
                        /\ child[p].current = child[p].next
                        /\ child[p].at \in {"lock_leave", "leave", "clear", "zombie", "reaped"}

(***************************************************************************)
(* Nobody is run over: a cell that is not one where walkers appear, which  *)
(* they mark without a look at it, has one occupant at most and is marked   *)
(* while it has one.                                                        *)
(***************************************************************************)
NobodyRunOver ==
    Fled \/ \A c \in Cells \ {b[1] : b \in WalkerBirths} :
        /\ \A p, q \in Pids : StandsOn(p, c) /\ StandsOn(q, c) => p = q
        /\ \A p \in Pids : StandsOn(p, c) => c \in grid

(* A slot is lost if it keeps the pid of a process that has ended by itself *)
Lost == {i \in Slots : children[i] # 0 /\ ~Alive(children[i])}

(* When fewer children than slots are there main finds a slot, unless one was lost *)
FindsSlot == main = "scan" /\ Lost = {} => Free # {}

(* The one way to lose a slot: main stores the pid after the child cleared it *)
LostByStore ==
    [][main \notin {"kill", "fin"} /\ ~(Lost' \subseteq Lost) => main = "store" /\ main' = "count"]_vars

(* "Kill all pending processes": when main has ended by an interrupt before *)
(* its clean-up or by a failed call, and although it may not have stored    *)
(* their pids yet, the manager, the cars and the walkers have ended; and it  *)
(* ends with the semaphores removed or killed by itself.  A second interrupt *)
(* during the clean-up that follows a failed call is left out.                *)
NobodyOutlivesMain ==
    main = "gone" =>
        /\ manager # "starting" /\ manager # "idle"
        /\ \A p \in Pids : ~Alive(p)
        /\ semaphores = "removed" => \A i \in Slots : children[i] # 0
=============================================================================
