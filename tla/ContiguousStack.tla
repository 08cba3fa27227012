--------------------------- MODULE ContiguousStack ---------------------------
(***************************************************************************)
(* eda-2/src/c/stack-contiguous/lib/stack.h and eda-2/src/cpp/stack/lib:   *)
(* a stack in one block of memory that is doubled when it is full.  In C++ *)
(* the block is copied, not reallocated, and may be reserved beforehand.     *)
(***************************************************************************)
EXTENDS Integers, Sequences

CONSTANTS
    Values,
    STACK_INITIAL_SIZE,        (* 10; initial_capacity in stack.hpp                    *)
    MaxCapacity                (* bound of the instance                                *)

Uninitialized == "uninitialized"

VARIABLE stack                 (* language, data (NULL or a function of 0 ..), size, capacity *)

NULL == <<>>
Cells(n) == 0 .. n - 1

Init ==
    \E language \in {"C", "C++"} :
        stack = [language |-> language, data |-> NULL, size |-> 0, capacity |-> 0]

(* realloc: what was there, all of it *)
Reallocated(n) ==
    [i \in Cells(n) |-> IF i < stack.capacity THEN stack.data[i] ELSE Uninitialized]

(* std::copy of the size_ elements into the new block *)
Copied(n) == [i \in Cells(n) |-> IF i < stack.size THEN stack.data[i] ELSE Uninitialized]

reserve(n) ==
    IF stack.capacity = 0 \/ stack.capacity < n
    THEN [stack EXCEPT !.data = IF stack.language = "C" THEN Reallocated(n) ELSE Copied(n),
                       !.capacity = n]
    ELSE stack

Full == stack.size = stack.capacity
NextCapacity == IF stack.capacity = 0 THEN STACK_INITIAL_SIZE ELSE stack.capacity * 2
grow == reserve(NextCapacity)

push(val) ==
    LET s == IF Full THEN grow ELSE stack IN
    /\ s.capacity <= MaxCapacity
    /\ stack' = [s EXCEPT !.data = [i \in DOMAIN @ \cup {s.size} |->
                                      IF i = s.size THEN val ELSE @[i]],
                          !.size = @ + 1]

(* pop and top are behind the assertion size != 0; the caller's, in C++ *)
pop == stack.size # 0 /\ stack' = [stack EXCEPT !.size = @ - 1]
top == stack.data[stack.size - 1]

Reserve == stack.language = "C++" /\ \E n \in 1 .. MaxCapacity : stack' = reserve(n)

Next == (\E val \in Values : push(val)) \/ pop \/ Reserve

Spec == Init /\ [][Next]_stack
-----------------------------------------------------------------------------
Contents == [i \in 1 .. stack.size |-> stack.data[i - 1]]

(* Nothing is written outside the block, and the stack holds what was pushed *)
Sound ==
    /\ DOMAIN stack.data = Cells(stack.capacity)
    /\ stack.size <= stack.capacity
    /\ \A i \in DOMAIN Contents : Contents[i] \in Values

(* A step pushes one on top, takes the top or leaves the elements as they are *)
Keeps ==
    \/ \E val \in Values : Contents' = Append(Contents, val) /\ top' = val
    \/ stack.size # 0 /\ Contents = Append(Contents', top)
    \/ UNCHANGED Contents
=============================================================================
