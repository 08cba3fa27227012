-------------------------------- MODULE Bolos --------------------------------
(***************************************************************************)
(* ssooi/bolos.c: a process forks A and leaves.  A forks H, I, E, B and C, *)
(* B and C fork D and F, those fork G and J: ten pins in four rows.  Each   *)
(* is told on its command line the pids it needs, taken from a table that  *)
(* A fills as it goes, and waits for ever for signals about its two pins.   *)
(* A process is named here by its letter; "0" is no process.                *)
(***************************************************************************)
EXTENDS Naturals, Sequences

CONSTANT CallsFail        (* whether fork and execl may fail *)

Letters == {"A", "B", "C", "D", "E", "F", "G", "H", "I", "J"}
None == "0"

VARIABLES
    bolo,                 (* where each process is                              *)
    args,                 (* its argv: left, right and bottom                   *)
    pins,                 (* the left and right it waits for                    *)
    table,                (* A's children                                       *)
    turn                  (* A's i                                              *)

vars == <<bolo, args, pins, table, turn>>

(* A has been forked by build_tree: it has stored its own pid *)
Init ==
    /\ bolo = [p \in Letters |-> IF p = "A" THEN "tree" ELSE "none"]
    /\ args = [p \in Letters |-> [left |-> None, right |-> None, bottom |-> None]]
    /\ pins = [p \in Letters |-> <<None, None>>]
    /\ table = [p \in Letters |-> IF p = "A" THEN "A" ELSE None]
    /\ turn = 3

WrongOrdered == <<"A", "A", "A", "H", "I", "E", "C", "B">>
ordered_childs == <<"A", "A", "A", "H", "I", "E", "B", "C">>
Child(i) == ordered_childs[i + 1]

Fail(p) ==
    /\ CallsFail
    /\ bolo' = [bolo EXCEPT ![p] = "failed"]
    /\ UNCHANGED <<args, pins, table, turn>>

(* build_tree_a: one turn of its loop; the child has what the table holds now *)
ForkInTree ==
    /\ bolo["A"] = "tree" /\ turn < Len(ordered_childs)
    /\ bolo' = [bolo EXCEPT ![Child(turn)] = "exec"]
    /\ args' = [args EXCEPT ![Child(turn)] = [left |-> table[Child(turn - 2)],
                                              right |-> table[Child(turn - 1)],
                                              bottom |-> table[Child(turn - 3)]]]
    /\ table' = [table EXCEPT ![Child(turn)] = Child(turn)]
    /\ turn' = turn + 1
    /\ UNCHANGED pins

ForkInTreeFails == bolo["A"] = "tree" /\ turn < Len(ordered_childs) /\ Fail("A")

(* After its loop A executes the program again *)
ExecA ==
    /\ bolo["A"] = "tree" /\ turn = Len(ordered_childs)
    /\ bolo' = [bolo EXCEPT !["A"] = "exec"]
    /\ args' = [args EXCEPT !["A"] = [left |-> table["B"], right |-> table["C"], bottom |-> None]]
    /\ UNCHANGED <<pins, table, turn>>

ExecFails(p) == bolo[p] = "exec" /\ Fail(p)

(* main: the letters that wait at once; those of a branch do not look at   *)
(* the argument they will create                                             *)
IsLeaf(p) == p \in {"G", "H", "I", "J"}
IsBranch(p) == p \in {"B", "C", "D", "F"}

Main(p) ==
    /\ bolo[p] = "exec"
    /\ bolo' = [bolo EXCEPT ![p] = IF IsBranch(p) THEN "branch" ELSE "wait"]
    /\ pins' = [pins EXCEPT ![p] =
                   CASE IsLeaf(p) -> <<None, None>>
                     [] p \in {"A", "E"} -> <<args[p].left, args[p].right>>
                     [] p \in {"B", "D"} -> <<None, args[p].right>>
                     [] p \in {"C", "F"} -> <<args[p].left, None>>]
    /\ UNCHANGED <<args, table, turn>>

child_name == [p \in {"B", "C", "D", "F"} |->
                  CASE p = "B" -> "D" [] p = "C" -> "F" [] p = "D" -> "G" [] p = "F" -> "J"]

(* main passes 0 for the bottom of D and of F *)
Bottom(p) == IF p \in {"B", "C"} THEN args[p].bottom ELSE None

(* build_branch: the new one's other pin is the bottom one *)
ForkBranch(p) ==
    LET q == child_name[p]
        new_left == pins[p][1] = None IN
    /\ bolo[p] = "branch"
    /\ bolo' = [bolo EXCEPT ![p] = "wait", ![q] = "exec"]
    /\ args' = [args EXCEPT ![q] = [left |-> IF new_left THEN None ELSE Bottom(p),
                                    right |-> IF new_left THEN Bottom(p) ELSE None,
                                    bottom |-> None]]
    /\ pins' = [pins EXCEPT ![p] = IF new_left THEN <<q, @[2]>> ELSE <<@[1], q>>]
    /\ UNCHANGED <<table, turn>>

ForkBranchFails(p) == bolo[p] = "branch" /\ Fail(p)

Next ==
    \/ ForkInTree \/ ForkInTreeFails \/ ExecA
    \/ \E p \in Letters : ExecFails(p) \/ Main(p) \/ ForkBranch(p) \/ ForkBranchFails(p)

Spec == Init /\ [][Next]_vars
-----------------------------------------------------------------------------
(* The statement's pyramid: the two pins behind each one *)
Behind == [A |-> <<"B", "C">>, B |-> <<"D", "E">>, C |-> <<"E", "F">>, D |-> <<"G", "H">>,
           E |-> <<"H", "I">>, F |-> <<"I", "J">>, G |-> <<None, None>>, H |-> <<None, None>>,
           I |-> <<None, None>>, J |-> <<None, None>>]

(***************************************************************************)
(* Whoever waits knows the pids of the two pins behind it, which do exist, *)
(* in whatever order the branches run and whatever fails elsewhere; so the *)
(* assertions of just_wait and build_branch ("Or both or none") hold.        *)
(***************************************************************************)
KnowsItsPins ==
    \A p \in Letters :
        /\ bolo[p] = "wait" => pins[p] = Behind[p]
        /\ bolo[p] = "branch" => None \in {pins[p][1], pins[p][2]}
        /\ \A i \in 1 .. 2 : bolo[p] = "wait" /\ pins[p][i] # None => bolo[pins[p][i]] # "none"
=============================================================================
