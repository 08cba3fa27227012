--------------------------- MODULE CustomSemaphore --------------------------
(***************************************************************************)
(* ssooii/custom_semaphore: a semaphore in shared memory, made of a        *)
(* spinlock, a count, a ring of the pids that wait and SIGUSR1, which is   *)
(* blocked everywhere but inside sigsuspend; and test.c, whose parent and   *)
(* children all pass through it a number of times.                          *)
(***************************************************************************)
EXTENDS Integers, FiniteSets

CONSTANTS
    PROC_COUNT,        (* the children of test.c; 0 is its parent             *)
    Units,             (* the number semaphore_init receives                  *)
    ITERATIONS,        (* how often each process passes                       *)
    QUEUE_MAX_ITEMS    (* the capacity of the ring                            *)

ASSUME CountAssumption == PROC_COUNT \in Nat /\ ITERATIONS \in Nat \ {0}
ASSUME UnitsAssumption == Units \in Nat \ {0}
ASSUME RingAssumption == QUEUE_MAX_ITEMS \in Nat \ {0} /\ QUEUE_MAX_ITEMS >= PROC_COUNT

Procs == 0 .. PROC_COUNT
Slots == 0 .. QUEUE_MAX_ITEMS - 1

VARIABLES
    lock,              (* semaphore_t: the spinlock is taken                  *)
    count,             (* semaphore_t                                         *)
    items,             (* queue_t: the pid in each slot, -1 for an old zero   *)
    size,              (* queue_t                                             *)
    first,             (* queue_t                                             *)
    pending,           (* the processes for which SIGUSR1 is pending          *)
    created,           (* i of main's first loop                              *)
    pc,                (* where each process is                               *)
    left,              (* the iterations each process has left                *)
    unreaped,          (* i of main's last loop: the children to wait for     *)
    released           (* release_shared_semaphore has been called            *)

queue == <<items, size, first>>
test == <<created, unreaped, released>>
vars == <<lock, count, queue, pending, test, pc, left>>

Pcs == {"none", "fork", "acquire", "enter", "push", "release_wait", "suspend", "release_in",
        "critical", "acquire_out", "leave", "kill", "pop", "release_out", "wait", "ended",
        "reaped"}

TypeOK ==
    /\ lock \in BOOLEAN
    /\ count \in Int /\ count <= Units /\ count >= -PROC_COUNT
    /\ items \in [Slots -> Procs \cup {-1}]
    /\ size \in 0 .. QUEUE_MAX_ITEMS
    /\ first \in Slots
    /\ pending \subseteq Procs
    /\ created \in 0 .. PROC_COUNT
    /\ pc \in [Procs -> Pcs]
    /\ left \in [Procs -> 0 .. ITERATIONS]
    /\ unreaped \in 0 .. PROC_COUNT
    /\ released \in BOOLEAN

Init ==
    /\ lock = FALSE /\ count = Units
    /\ items = [s \in Slots |-> -1] /\ size = 0 /\ first = 0
    /\ pending = {}
    /\ created = 0 /\ unreaped = PROC_COUNT /\ released = FALSE
    /\ pc = [p \in Procs |-> IF p = 0 THEN "fork" ELSE "none"]
    /\ left = [p \in Procs |-> ITERATIONS]
-----------------------------------------------------------------------------
(* A "Wrong" definition is a mutation that no action uses. *)

Goto(p, l) == pc' = [pc EXCEPT ![p] = l]

(* main creates its children *)
Fork ==
    /\ pc[0] = "fork"
    /\ IF created = PROC_COUNT
       THEN Goto(0, "acquire") /\ UNCHANGED created
       ELSE created' = created + 1 /\ pc' = [pc EXCEPT ![created + 1] = "acquire"]
    /\ UNCHANGED <<lock, count, queue, pending, unreaped, released, left>>

WrongFree == TRUE
Free == ~lock                              \* what the compare and swap finds

Acquire(p, from, to) ==
    /\ pc[p] = from
    /\ Free
    /\ lock' = TRUE
    /\ Goto(p, to)
    /\ UNCHANGED <<count, queue, pending, test, left>>

Release(p, from, to) ==
    /\ pc[p] = from
    /\ lock' = FALSE
    /\ Goto(p, to)
    /\ UNCHANGED <<count, queue, pending, test, left>>
-----------------------------------------------------------------------------
(* semaphore_lock *)

AcquireIn(p) == Acquire(p, "acquire", "enter")

Full(n) == n < 0

Enter(p) ==
    /\ pc[p] = "enter"
    /\ count' = count - 1
    /\ Goto(p, IF Full(count') THEN "push" ELSE "release_in")
    /\ UNCHANGED <<lock, queue, pending, test, left>>

WrongLastIndex == first + size
LastIndex == (first + size) % QUEUE_MAX_ITEMS
WrongNextIndex(i) == i + 1
NextIndex(i) == (i + 1) % QUEUE_MAX_ITEMS

(* queue_push; see QueueHasRoom for its assertion *)
Push(p) ==
    /\ pc[p] = "push"
    /\ items' = [items EXCEPT ![LastIndex] = p]
    /\ size' = size + 1
    /\ Goto(p, "release_wait")
    /\ UNCHANGED <<lock, count, first, pending, test, left>>

ReleaseWait(p) == Release(p, "release_wait", "suspend")

WrongResumed(p) == TRUE
Resumed(p) == p \in pending

(* sigsuspend returns when the signal has arrived, before or after the call *)
Suspend(p) ==
    /\ pc[p] = "suspend"
    /\ Resumed(p)
    /\ pending' = pending \ {p}
    /\ Goto(p, "critical")
    /\ UNCHANGED <<lock, count, queue, test, left>>

ReleaseIn(p) == Release(p, "release_in", "critical")
-----------------------------------------------------------------------------
(* critical_section and semaphore_unlock *)

Critical(p) ==
    /\ pc[p] = "critical"
    /\ Goto(p, "acquire_out")
    /\ UNCHANGED <<lock, count, queue, pending, test, left>>

AcquireOut(p) == Acquire(p, "acquire_out", "leave")

WrongSomeWait(n) == n < 0
SomeWait(n) == n <= 0                      \* ++sem->count <= 0

Leave(p) ==
    /\ pc[p] = "leave"
    /\ count' = count + 1
    /\ Goto(p, IF SomeWait(count') THEN "kill" ELSE "release_out")
    /\ UNCHANGED <<lock, queue, pending, test, left>>

(* kill(queue_front(...)); see FrontWaits for what it reads *)
Kill(p) ==
    /\ pc[p] = "kill"
    /\ pending' = pending \cup {items[first]}
    /\ Goto(p, "pop")
    /\ UNCHANGED <<lock, count, queue, test, left>>

Pop(p) ==
    /\ pc[p] = "pop"
    /\ first' = NextIndex(first)
    /\ size' = size - 1
    /\ Goto(p, "release_out")
    /\ UNCHANGED <<lock, count, items, pending, test, left>>

(* The end of semaphore_unlock and of a turn of main's loop *)
ReleaseOut(p) ==
    /\ pc[p] = "release_out"
    /\ lock' = FALSE
    /\ left' = [left EXCEPT ![p] = @ - 1]
    /\ Goto(p, IF left[p] > 1 THEN "acquire" ELSE IF p = 0 THEN "wait" ELSE "ended")
    /\ UNCHANGED <<count, queue, pending, test>>
-----------------------------------------------------------------------------
AllReaped == unreaped = 0                  \* while (i)

(* main waits for each child and then releases the shared memory *)
Wait ==
    /\ pc[0] = "wait"
    /\ ~AllReaped
    /\ \E p \in Procs \ {0} : pc[p] = "ended" /\ Goto(p, "reaped")
    /\ unreaped' = unreaped - 1
    /\ UNCHANGED <<lock, count, queue, pending, created, released, left>>

ReleaseShared ==
    /\ pc[0] = "wait"
    /\ AllReaped
    /\ released' = TRUE
    /\ Goto(0, "ended")
    /\ UNCHANGED <<lock, count, queue, pending, created, unreaped, left>>

Main == Fork \/ Wait \/ ReleaseShared

Pass(p) ==
    \/ AcquireIn(p) \/ Enter(p) \/ Push(p) \/ ReleaseWait(p) \/ Suspend(p) \/ ReleaseIn(p)
    \/ Critical(p) \/ AcquireOut(p) \/ Leave(p) \/ Kill(p) \/ Pop(p) \/ ReleaseOut(p)

Done == pc[0] = "ended" /\ UNCHANGED vars

Next == Main \/ (\E p \in Procs : Pass(p)) \/ Done

Spec == Init /\ [][Next]_vars

(* The kernel schedules every process; nobody is promised the spinlock *)
FairSpec == Spec /\ WF_vars(Main) /\ \A p \in Procs : WF_vars(Pass(p))
-----------------------------------------------------------------------------
(* Properties *)

Locked == {"enter", "push", "release_wait", "release_in", "leave", "kill", "pop",
           "release_out"}
InLock == {p \in Procs : pc[p] \in Locked}
Inside == {p \in Procs : pc[p] \in {"release_in", "critical", "acquire_out", "leave"}}

(* Never more processes than units are between semaphore_lock and           *)
(* semaphore_unlock, whatever the queue and the signals do.                  *)
AtMostUnits == Cardinality(Inside) <= Units

(* queue_push's assertion holds: the ring has room for whoever must wait.    *)
QueueHasRoom == \A p \in Procs : pc[p] = "push" => size # QUEUE_MAX_ITEMS

(* The pid semaphore_unlock wakes is that of a process that waits and that   *)
(* nobody has woken: the signal is neither lost nor merged with another.     *)
FrontWaits ==
    \A p \in Procs :
        pc[p] = "kill" =>
            /\ size > 0
            /\ items[first] \in Procs \ pending
            /\ pc[items[first]] \in {"release_wait", "suspend"}

(* Everybody passes as many times as it must, and main ends.                 *)
Ends == <>(pc[0] = "ended")

(***************************************************************************)
(* What the processes see is a fair semaphore: the units change hands when *)
(* count is decremented and incremented.                                    *)
(***************************************************************************)
Handing == {p \in Procs : pc[p] \in {"kill", "pop"}}      \* the front is being woken
Pushing == {p \in Procs : pc[p] = "push"}
Gone == IF Handing = {} THEN 0 ELSE 1
Queued == size - Gone
waiters ==
    [i \in 1 .. Queued + Cardinality(Pushing) |->
        IF i <= Queued THEN items[(first + Gone + i - 1) % QUEUE_MAX_ITEMS]
        ELSE CHOOSE p \in Pushing : TRUE]
holders ==
    Inside \cup {p \in Procs : /\ pc[p] \in {"release_wait", "suspend"}
                               /\ ~\E i \in DOMAIN waiters : waiters[i] = p}

Fair == INSTANCE Semaphore

ImplementsSemaphore == Fair!Spec
=============================================================================
