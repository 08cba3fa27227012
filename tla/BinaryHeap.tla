------------------------------ MODULE BinaryHeap ------------------------------
(***************************************************************************)
(* A binary heap in use: insertions, the lowest priority taken, priorities *)
(* changed, the heap made valid or sorted.                                   *)
(***************************************************************************)
EXTENDS HeapArray, FiniteSets

CONSTANTS
    Values,
    Priorities,
    BINARY_HEAP_INITIAL_CAPACITY,   (* 8: grow never records it, what comes after is lost *)
    MaxSize                         (* bound of the instance                            *)

Items == [value : Values, priority : Priorities]

VARIABLE heap      (* library: which of the two; h: the array; held: how many of each are *)
                   (* in it, by definition; heaped: nothing came into the heap from below *)
                   (* since it was last valid; overflowed: written past its block          *)

Init ==
    \E library \in {"library", "graph"} :
        heap = [library |-> library, h |-> NewHeap, held |-> [e \in Items |-> 0],
                heaped |-> TRUE, overflowed |-> FALSE]

Usable == ~heap.h.endless /\ ~heap.overflowed
Filled == Usable /\ heap.h.size # 0

(* grow gives room for INITIAL_CAPACITY, every time the heap is empty *)
Insert(value, priority) ==
    /\ Usable /\ heap.h.size < MaxSize
    /\ heap' = [heap EXCEPT
                  !.h = insert(heap.library, @, value, priority),
                  !.held[[value |-> value, priority |-> priority]] = @ + 1,
                  !.heaped = heap.h.size = 0,
                  !.overflowed = heap.h.size >= BINARY_HEAP_INITIAL_CAPACITY]

Pop ==
    /\ Filled
    /\ heap' = [heap EXCEPT !.h = pop(heap.library, @),
                            !.held[front(heap.h)] = @ - 1]

HeapifiedFrom(h, elements) ==
    LET turn[n \in 0 .. elements] ==
            IF n = 0 THEN h ELSE heapify_from(heap.library, turn[n - 1], elements - n)
    IN  turn[elements]
heapify ==
    /\ Filled
    /\ heap' = [heap EXCEPT !.h = HeapifiedFrom(@, @.size \div 2), !.heaped = TRUE]

Recounted(held, old, new) == [[held EXCEPT ![old] = @ - 1] EXCEPT ![new] = @ + 1]

(* set_priority; change_priority gives it a difference *)
set_priority(index, priority) ==
    LET old == heap.h.elements[index]
        set == [heap.h EXCEPT !.elements[index].priority = priority] IN
    /\ Filled
    /\ heap' = [heap EXCEPT
                  !.h = IF priority < old.priority THEN heapify_to(heap.library, set, index)
                        ELSE heapify_from(heap.library, set, index),
                  !.held = Recounted(@, old, set.elements[index]),
                  !.heaped = @ /\ priority >= old.priority]

Reinserted(h, s) ==
    LET turn[n \in 0 .. Len(s)] ==
            IF n = 0 THEN h
            ELSE IF turn[n - 1].endless THEN turn[n - 1]
            ELSE insert(heap.library, turn[n - 1], s[n].value, s[n].priority)
    IN  turn[Len(s)]
heapsorted ==
    /\ Filled
    /\ heap' = [heap EXCEPT !.h = Reinserted([@ EXCEPT !.size = 0], Drained(heap.library, @))]

Next ==
    \/ \E value \in Values, priority \in Priorities : Insert(value, priority)
    \/ Pop \/ heapify \/ heapsorted
    \/ \E index \in 0 .. heap.h.size - 1, priority \in Priorities : set_priority(index, priority)

Spec == Init /\ [][Next]_heap
-----------------------------------------------------------------------------
Copies(h, e) == Cardinality({i \in 0 .. h.size - 1 : h.elements[i] = e})
Holds(h, held) ==
    /\ \A i \in 0 .. h.size - 1 : h.elements[i] \in Items
    /\ \A e \in Items : Copies(h, e) = held[e]

(***************************************************************************)
(* No element is lost or doubled.  A heap that was heapified stays valid   *)
(* while elements are taken and priorities raised, and is sorted by them:   *)
(* an insertion may spoil it.                                                *)
(***************************************************************************)
Sorted(s) == \A i, j \in DOMAIN s : i < j => s[i].priority <= s[j].priority
Sound ==
    ~heap.overflowed /\ ~heap.h.endless =>
        /\ Holds(heap.h, heap.held)
        /\ heap.heaped => is_valid(heap.h) /\ Sorted(Drained(heap.library, heap.h))
=============================================================================
