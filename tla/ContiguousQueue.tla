--------------------------- MODULE ContiguousQueue ---------------------------
(***************************************************************************)
(* eda-2/src/c/queue-contiguous/lib/queue.c (graph/lib/queue.c is a copy): *)
(* a queue in one block of memory, a window of size elements that starts   *)
(* at first_index.  When the window reaches the end of the block,          *)
(* queue_grow moves it to the front if there is enough unused space there, *)
(* or else doubles the block.                                              *)
(***************************************************************************)
EXTENDS Integers, Sequences

CONSTANTS
    Values,                    (* what is stored                                      *)
    QUEUE_INITIAL_SIZE,        (* 10 in the code                                      *)
    QUEUE_MAX_ITEMS_UNUSED,    (* 10 in the code                                      *)
    MaxCapacity                (* bound of the instance: no push needs a larger block *)

QueueAssumption ==
    /\ QUEUE_INITIAL_SIZE \in Nat \ {0}
    /\ QUEUE_MAX_ITEMS_UNUSED \in Nat
    /\ MaxCapacity \in Nat

VARIABLE queue                 (* queue_t; data is a function of the indices 0 ..     *)

Cells(n) == 0 .. n - 1

(* queue_new_ *)
Init == queue = [data |-> <<>>, first_index |-> 0, size |-> 0, capacity |-> 0]

AtTheEnd == queue.first_index + queue.size = queue.capacity
MovesToTheFront == queue.first_index > QUEUE_MAX_ITEMS_UNUSED
NextCapacity == IF queue.capacity = 0 THEN QUEUE_INITIAL_SIZE ELSE queue.capacity * 2

(* The regions of the memcpy of queue_grow overlap: its outcome is         *)
(* undefined.  A build copies upwards, which leaves the elements right, or  *)
(* downwards, which reads elements it has already written over.             *)
Overlaps == AtTheEnd /\ MovesToTheFront /\ queue.size > queue.first_index

CopiedUpwards ==
    [i \in Cells(queue.capacity) |->
        IF i < queue.size THEN queue.data[queue.first_index + i] ELSE queue.data[i]]

WrittenOver[i \in Cells(queue.size)] ==
    IF queue.first_index + i < queue.size THEN WrittenOver[queue.first_index + i]
    ELSE queue.data[queue.first_index + i]
CopiedDownwards ==
    [i \in Cells(queue.capacity) |-> IF i < queue.size THEN WrittenOver[i] ELSE queue.data[i]]

WrongMoved == {queue.data}
Moved == IF Overlaps THEN {CopiedUpwards, CopiedDownwards} ELSE {CopiedUpwards}

(* realloc: the new cells hold anything, here what no push stored *)
Uninitialized == "uninitialized"
Reallocated(n) ==
    [i \in Cells(n) |-> IF i < queue.capacity THEN queue.data[i] ELSE Uninitialized]

queue_grow ==
    IF MovesToTheFront
    THEN {[queue EXCEPT !.data = d, !.first_index = 0] : d \in Moved}
    ELSE {[queue EXCEPT !.data = Reallocated(NextCapacity), !.capacity = NextCapacity]}

queue_push(v) ==
    /\ AtTheEnd /\ ~MovesToTheFront => NextCapacity <= MaxCapacity
    /\ \E q \in (IF AtTheEnd THEN queue_grow ELSE {queue}) :
          queue' = [q EXCEPT !.data = [@ EXCEPT ![q.first_index + q.size] = v], !.size = @ + 1]

(* Behind its assertion: the caller looks at queue_empty first *)
queue_pop ==
    /\ queue.size # 0
    /\ queue' = [queue EXCEPT !.first_index = @ + 1, !.size = @ - 1]

queue_front == queue.data[queue.first_index]

Next == (\E v \in Values : queue_push(v)) \/ queue_pop

Spec == Init /\ [][Next]_queue
-----------------------------------------------------------------------------
(* The elements, oldest first *)
Contents == [i \in 1 .. queue.size |-> queue.data[queue.first_index + i - 1]]

(* "first_index + size <= capacity, always" (queue.h) *)
WithinCapacity == queue.first_index + queue.size <= queue.capacity

(* So it is, and what is stored in the window has been written by a push *)
Sound == WithinCapacity /\ \A i \in 1 .. queue.size : Contents[i] \in Values

Fifo == INSTANCE Fifo WITH contents <- Contents

(* A step is one of an unbounded queue, unless the regions overlap *)
InOrder == Overlaps \/ Fifo!Next \/ UNCHANGED Contents
=============================================================================
