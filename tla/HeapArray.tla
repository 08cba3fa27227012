------------------------------ MODULE HeapArray ------------------------------
(***************************************************************************)
(* A binary heap in an array, as operators: eda-2/src/c/binary-heap/lib,   *)
(* the library, and eda-2/src/c/graph/lib, the copy of it that the graphs   *)
(* use.  The left child of i is 2 i + 1, but PARENT_INDEX is the parent in  *)
(* an array that begins at 1: that of element 1 is element 1.                *)
(***************************************************************************)
EXTENDS Integers, Sequences

B_HEAP_PARENT_INDEX(i) == (i + 1) \div 2
B_HEAP_LEFT_INDEX(i) == (i + 1) * 2 - 1

NewHeap == [elements |-> <<>>, size |-> 0, endless |-> FALSE]
Swapped(h, i, j) ==
    [h EXCEPT !.elements[i] = h.elements[j], !.elements[j] = h.elements[i]]
Priority(h, i) == h.elements[i].priority

(* The loop of the library goes on at equal priorities, its copy stops *)
Rises(library, h, i) ==
    LET parent == B_HEAP_PARENT_INDEX(i) IN
    /\ i # 0 /\ Priority(h, parent) >= Priority(h, i)
    /\ library = "graph" => Priority(h, parent) > Priority(h, i)

(* One turn of the loop: at element 1, its own parent, the library never ends *)
Up(library, at) ==
    LET parent == B_HEAP_PARENT_INDEX(at.i) IN
    IF ~Rises(library, at.h, at.i) THEN at
    ELSE IF parent = at.i THEN [at EXCEPT !.h.endless = TRUE]
    ELSE [h |-> Swapped(at.h, parent, at.i), i |-> parent]

(* Every turn lowers the index until the loop ends *)
heapify_to(library, h, i) ==
    LET turn[n \in 0 .. i] == IF n = 0 THEN [h |-> h, i |-> i] ELSE Up(library, turn[n - 1])
    IN  turn[i].h

LowestChild(h, i) ==
    LET left == B_HEAP_LEFT_INDEX(i) IN
    IF left + 1 < h.size /\ Priority(h, left) > Priority(h, left + 1) THEN left + 1 ELSE left

(* One turn of the loop: the copy goes on down after it has found nothing *)
(* to exchange                                                               *)
Down(library, at) ==
    LET child == LowestChild(at.h, at.i)
        below == Priority(at.h, child)
        here == Priority(at.h, at.i) IN
    IF B_HEAP_LEFT_INDEX(at.i) >= at.h.size \/ (library = "library" /\ below > here) THEN at
    ELSE [h |-> IF library = "library" \/ below < here THEN Swapped(at.h, child, at.i) ELSE at.h,
          i |-> child]

heapify_from(library, h, i) ==
    LET turn[n \in 0 .. h.size] ==
            IF n = 0 THEN [h |-> h, i |-> i] ELSE Down(library, turn[n - 1])
    IN  turn[h.size].h

pop(library, h) ==
    LET shorter == [h EXCEPT !.size = @ - 1] IN
    IF h.size = 1 THEN shorter
    ELSE heapify_from(library, [shorter EXCEPT !.elements[0] = h.elements[h.size - 1]], 0)

insert(library, h, value, priority) ==
    heapify_to(library,
               [h EXCEPT !.elements = [i \in DOMAIN @ \cup {h.size} |->
                                         IF i = h.size THEN [value |-> value, priority |-> priority]
                                         ELSE @[i]],
                         !.size = @ + 1],
               h.size)

front(h) == h.elements[0]

(* b_heap_sort, and what b_heap_heapsorted takes out before it reinserts it *)
Drained(library, h) ==
    LET popped[n \in 0 .. h.size] == IF n = 0 THEN h ELSE pop(library, popped[n - 1])
    IN  [n \in 1 .. h.size |-> front(popped[n - 1])]

is_valid(h) ==
    \A i \in 0 .. h.size - 1 :
        \A child \in {B_HEAP_LEFT_INDEX(i), B_HEAP_LEFT_INDEX(i) + 1} :
            child < h.size => Priority(h, i) <= Priority(h, child)
=============================================================================
