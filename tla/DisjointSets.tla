----------------------------- MODULE DisjointSets -----------------------------
(***************************************************************************)
(* eda-2/src/c/disjoint-sets/lib/disjoint-sets.c: disjoint sets as a       *)
(* forest in an array, whose paths a question shortens.                      *)
(***************************************************************************)
EXTENDS Integers, FiniteSets

CONSTANTS
    DISJOINT_SETS_INITIAL_CAPACITY,    (* 10 *)
    MaxSets                            (* bound of the instance *)

VARIABLE disjoint      (* sets, size, capacity; blocks: what was joined, by definition *)

Cells(n) == 0 .. n - 1

(* new is new_with_size(0) *)
new_with_size(n) ==
    disjoint = [sets |-> [i \in Cells(n) |-> i], size |-> n, capacity |-> n,
                blocks |-> {{i} : i \in Cells(n)}]
Init == \E n \in 0 .. MaxSets : new_with_size(n)

(* The sets on the way from one to its root: what following the array from *)
(* it leads to.  The root is the one there that is its own parent: the walk   *)
(* would not end if there were none                                            *)
IsClosed(sets, S) == \A i \in S : sets[i] \in S
Path(sets, set) ==
    {i \in DOMAIN sets :
        \A S \in SUBSET DOMAIN sets : set \in S /\ IsClosed(sets, S) => i \in S}
RootIn(sets, set) == CHOOSE root \in Path(sets, set) : sets[root] = root
root_of(set) == RootIn(disjoint.sets, set)

(* root_of points every set on the way at the root *)
Compressed(asked) ==
    [i \in DOMAIN disjoint.sets |->
        IF i < disjoint.size /\ \E s \in asked : i \in Path(disjoint.sets, s)
        THEN root_of(i) ELSE disjoint.sets[i]]

grow ==
    IF disjoint.size # disjoint.capacity THEN disjoint.capacity
    ELSE IF disjoint.capacity = 0 THEN DISJOINT_SETS_INITIAL_CAPACITY ELSE disjoint.capacity * 2

add_set ==
    /\ disjoint.size < MaxSets
    /\ disjoint' = [sets |-> [i \in Cells(disjoint.size + 1) |->
                                IF i = disjoint.size THEN i ELSE disjoint.sets[i]],
                    size |-> disjoint.size + 1, capacity |-> grow,
                    blocks |-> disjoint.blocks \cup {{disjoint.size}}]

are_same_set(set_1, set_2) ==
    disjoint' = [disjoint EXCEPT !.sets = Compressed({set_1, set_2})]

Joined(set_1) == root_of(set_1)
join(set_1, set_2) ==
    LET of(s) == CHOOSE b \in disjoint.blocks : s \in b IN
    disjoint' = [disjoint EXCEPT
                   !.sets = [Compressed({set_1, set_2}) EXCEPT ![Joined(set_1)] = root_of(set_2)],
                   !.blocks = (@ \ {of(set_1), of(set_2)}) \cup {of(set_1) \cup of(set_2)}]

Next ==
    \/ add_set
    \/ \E set_1, set_2 \in Cells(disjoint.size) :
          are_same_set(set_1, set_2) \/ join(set_1, set_2)

Spec == Init /\ [][Next]_disjoint
-----------------------------------------------------------------------------
(* Two sets have one root if and only if they were joined, whatever was    *)
(* asked in between; every path ends, and lies in the array                  *)
Sound ==
    /\ disjoint.size <= disjoint.capacity
    /\ \A a \in Cells(disjoint.size) :
          \E root \in Path(disjoint.sets, a) : disjoint.sets[root] = root
    /\ \A a, b \in Cells(disjoint.size) :
          (root_of(a) = root_of(b)) <=> \E block \in disjoint.blocks : {a, b} \subseteq block
=============================================================================
