------------------------------ MODULE BinaryTree ------------------------------
(***************************************************************************)
(* eda-2/src/c/binary-tree: the walks and counts of a binary tree, and the *)
(* program that reconstructs one from its preorder and its order, trying    *)
(* every place where a repeated value may be the root.                       *)
(***************************************************************************)
EXTENDS Integers, Sequences, SequencesExt

CONSTANTS
    Values,
    MaxLength              (* bound of the instance: characters of an argument         *)

Nil == <<>>                (* NULL                                                     *)
NPOS == -1                 (* (size_t) -1                                              *)

VARIABLE tree              (* preorder, order: argv; head; easy: what the easy version *)
                           (* returns; replaced; pc: what main has done                *)

b_tree_node_new(val, left, right) == [value |-> val, left |-> left, right |-> right]

Init ==
    \E preorder, order \in SeqOf(Values, MaxLength) :
        /\ Len(preorder) = Len(order)
        /\ tree = [preorder |-> preorder, order |-> order, head |-> Nil, easy |-> Nil,
                   replaced |-> 0, pc |-> "start"]

RECURSIVE b_tree_preorder(_), b_tree_order(_), b_tree_postorder(_), b_tree_height(_), b_tree_level(_, _)
b_tree_preorder(t) == IF t = Nil THEN <<>> ELSE <<t.value>> \o b_tree_preorder(t.left) \o b_tree_preorder(t.right)
b_tree_order(t) == IF t = Nil THEN <<>> ELSE b_tree_order(t.left) \o <<t.value>> \o b_tree_order(t.right)
b_tree_postorder(t) == IF t = Nil THEN <<>> ELSE b_tree_postorder(t.left) \o b_tree_postorder(t.right) \o <<t.value>>
b_tree_height(t) ==
    IF t = Nil THEN 0
    ELSE LET left == b_tree_height(t.left) right == b_tree_height(t.right) IN
         1 + (IF left > right THEN left ELSE right)

(* the nodes, not their values: the counts look at their children *)
b_tree_level(t, n) == IF t = Nil THEN <<>> ELSE IF n = 0 THEN <<t>> ELSE b_tree_level(t.left, n - 1) \o b_tree_level(t.right, n - 1)
b_tree_levelorder(t) == FlattenSeq([i \in 1 .. b_tree_height(t) |-> b_tree_level(t, i - 1)])

Children(t) == (IF t.left = Nil THEN 0 ELSE 1) + (IF t.right = Nil THEN 0 ELSE 1)
CountOf(t, numbers) == Len(SelectSeq(b_tree_levelorder(t), LAMBDA n : Children(n) \in numbers))
node_count(t) == CountOf(t, 0 .. 2)
leaf_count(t) == CountOf(t, {0})
non_leaf_count(t) == CountOf(t, {1, 2})
one_child_count(t) == CountOf(t, {1})

(* the first place of the value at or after from_index, counting from 0 *)
index_of(arr, val, from_index) ==
    LET found == {i \in from_index .. Len(arr) - 1 : arr[i + 1] = val} IN
    IF found = {} THEN NPOS ELSE CHOOSE i \in found : \A j \in found : i <= j

(* b_tree_reconstruct: the first place only *)
RECURSIVE b_tree_reconstruct(_, _)
b_tree_reconstruct(pre, in) ==
    LET parent == IF pre = <<>> THEN NPOS ELSE index_of(in, pre[1], 0) IN
    IF parent = NPOS THEN Nil
    ELSE LET left == b_tree_reconstruct(SubSeq(pre, 2, 1 + parent), SubSeq(in, 1, parent))
             right == b_tree_reconstruct(SubSeq(pre, 2 + parent, Len(pre)),
                                         SubSeq(in, 2 + parent, Len(in))) IN
         IF (parent # 0 /\ left = Nil) \/ (parent # Len(in) - 1 /\ right = Nil) THEN Nil
         ELSE b_tree_node_new(pre[1], left, right)

(* b_tree_reconstruct_bulletproof, and its loop from a place on *)
SearchFrom(parent) == parent + 1

RECURSIVE Attempt(_, _, _)
Attempt(pre, in, search_from) ==
    IF pre = <<>> THEN Nil
    ELSE LET parent == index_of(in, pre[1], search_from) IN
         IF parent = NPOS THEN Nil
         ELSE LET left == Attempt(SubSeq(pre, 2, 1 + parent), SubSeq(in, 1, parent), 0)
                  right == Attempt(SubSeq(pre, 2 + parent, Len(pre)),
                                   SubSeq(in, 2 + parent, Len(in)), 0) IN
              IF (parent # 0 /\ left = Nil) \/ (parent # Len(in) - 1 /\ right = Nil)
              THEN Attempt(pre, in, SearchFrom(parent))
              ELSE b_tree_node_new(pre[1], left, right)
b_tree_reconstruct_bulletproof(pre, in) == Attempt(pre, in, 0)

RECURSIVE Replaced(_, _, _)
Replaced(t, search, replace) ==
    IF t = Nil THEN Nil
    ELSE b_tree_node_new(IF t.value = search THEN replace ELSE t.value,
                         Replaced(t.left, search, replace), Replaced(t.right, search, replace))

main ==
    /\ tree.pc = "start"
    /\ LET head == b_tree_reconstruct_bulletproof(tree.preorder, tree.order) IN
       tree' = [tree EXCEPT !.head = head, !.pc = IF head = Nil THEN "error" ELSE "done",
                            !.easy = b_tree_reconstruct(tree.preorder, tree.order)]

search_and_replace(search, replace) ==
    /\ tree.pc = "done"
    /\ tree' = [tree EXCEPT !.head = Replaced(@, search, replace),
                            !.replaced = Len(SelectSeq(b_tree_preorder(tree.head), LAMBDA v : v = search)),
                            !.pc = "replaced"]

Next == main \/ \E search, replace \in Values : search_and_replace(search, replace)

Spec == Init /\ [][Next]_tree
-----------------------------------------------------------------------------
RECURSIVE Shapes(_)
Shapes(n) ==
    IF n = 0 THEN {Nil}
    ELSE UNION {{b_tree_node_new(v, left, right) :
                   v \in Values, left \in Shapes(k), right \in Shapes(n - 1 - k)} : k \in 0 .. n - 1}

(***************************************************************************)
(* A tree with this preorder and this order is found if there is one, its  *)
(* walks are the arguments of the program, and the counts agree.  The easy  *)
(* version finds no other, and misses none if no value is repeated.          *)
(***************************************************************************)
Fits(t) == b_tree_preorder(t) = tree.preorder /\ b_tree_order(t) = tree.order
Counted(t) ==
    /\ node_count(t) = leaf_count(t) + non_leaf_count(t)
    /\ non_leaf_count(t) = one_child_count(t) + leaf_count(t) - 1
    /\ Len(b_tree_postorder(t)) = node_count(t)
Sound ==
    /\ tree.pc = "done" => Fits(tree.head) /\ Counted(tree.head)
    /\ tree.pc = "error" => \A t \in Shapes(Len(tree.preorder)) \ {Nil} : ~Fits(t)
    /\ tree.easy # Nil => Fits(tree.easy)
    /\ tree.pc = "done" /\ IsInjective(tree.order) => tree.easy = tree.head
    /\ tree.pc = "replaced" => tree.replaced <= node_count(tree.head)
=============================================================================
