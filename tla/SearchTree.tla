------------------------------ MODULE SearchTree ------------------------------
(***************************************************************************)
(* eda-2/src/c/binary-search-tree/lib/binary-search-tree.c: a search tree  *)
(* that means to be balanced.  A rotation exchanges the values of two       *)
(* nodes, and adds to their balance factors; after a double one they are    *)
(* wrong, and a later insertion may fail an assertion.                       *)
(***************************************************************************)
EXTENDS Integers, Sequences

CONSTANTS
    Values,
    MaxNodes               (* bound of the instance                                    *)

Nil == <<>>                (* NULL                                                     *)

VARIABLE bst               (* head; history: what was inserted, sorted; doubled: a     *)
                           (* double rotation took place; aborted: an assertion failed *)

Init == bst = [head |-> Nil, inserted |-> <<>>, doubled |-> FALSE, aborted |-> FALSE]

bst_node_new(val) == [left |-> Nil, right |-> Nil, balance_factor |-> 0, value |-> val]

Other(side) == IF side = "left" THEN "right" ELSE "left"
Sign(side) == IF side = "left" THEN -1 ELSE 1

(* bst_node_rotate_left and _right: the node on this side rises; the one   *)
(* that held its value goes down on the other side                           *)
Rotated(t, side) ==
    LET risen == t[side] IN
    [t EXCEPT !.value = risen.value,
              !.balance_factor = @ - Sign(side),
              ![side] = risen[side],
              ![Other(side)] = [risen EXCEPT !.value = t.value,
                                             !.balance_factor = @ - Sign(side),
                                             ![side] = risen[Other(side)],
                                             ![Other(side)] = t[Other(side)]]]

(* bst_node_reestructure; a rotation asserts that the node to rise exists *)
Restructured(t, side) ==
    LET child == t[side] IN
    IF child.balance_factor = Sign(side)
    THEN [tree |-> Rotated(t, side), changed |-> FALSE, doubled |-> FALSE, aborted |-> FALSE]
    ELSE IF child[Other(side)] = Nil
    THEN [tree |-> t, changed |-> FALSE, doubled |-> FALSE, aborted |-> TRUE]
    ELSE [tree |-> Rotated([t EXCEPT ![side] = Rotated(child, Other(side))], side),
          changed |-> FALSE, doubled |-> TRUE, aborted |-> FALSE]

(* bst_node_insert, whose branches mirror each other *)
RECURSIVE bst_node_insert(_, _)
bst_node_insert(t, val) ==
    LET side == IF val < t.value THEN "left" ELSE "right" IN
    IF t[side] = Nil
    THEN [tree |-> [t EXCEPT ![side] = bst_node_new(val), !.balance_factor = @ + Sign(side)],
          changed |-> t[Other(side)] = Nil, doubled |-> FALSE, aborted |-> FALSE]
    ELSE LET r == bst_node_insert(t[side], val)
             u == [t EXCEPT ![side] = r.tree]
             leant == [u EXCEPT !.balance_factor = @ + Sign(side)] IN
         IF ~r.changed THEN [r EXCEPT !.tree = u]
         ELSE CASE t.balance_factor = -Sign(side) -> [r EXCEPT !.tree = leant, !.changed = FALSE]
                [] t.balance_factor = 0 -> [r EXCEPT !.tree = leant]
                [] t.balance_factor = Sign(side) -> Restructured(u, side)
                [] OTHER -> [r EXCEPT !.tree = u]

SortedInsert(s, val) ==
    SelectSeq(s, LAMBDA x : x <= val) \o <<val>> \o SelectSeq(s, LAMBDA x : x > val)

bst_insert(val) ==
    /\ ~bst.aborted /\ Len(bst.inserted) < MaxNodes
    /\ LET r == IF bst.head = Nil
                THEN [tree |-> bst_node_new(val), doubled |-> FALSE, aborted |-> FALSE]
                ELSE bst_node_insert(bst.head, val) IN
       bst' = [head |-> r.tree, inserted |-> SortedInsert(bst.inserted, val),
               doubled |-> bst.doubled \/ r.doubled, aborted |-> r.aborted]

Next == \E val \in Values : bst_insert(val)

Spec == Init /\ [][Next]_bst
-----------------------------------------------------------------------------
RECURSIVE InOrder(_)
InOrder(t) == IF t = Nil THEN <<>> ELSE InOrder(t.left) \o <<t.value>> \o InOrder(t.right)

RECURSIVE Height(_)
Height(t) ==
    IF t = Nil THEN 0
    ELSE LET l == Height(t.left) r == Height(t.right) IN 1 + (IF l > r THEN l ELSE r)

RECURSIVE Balanced(_)
Balanced(t) ==
    t # Nil =>
        /\ t.balance_factor = Height(t.right) - Height(t.left)
        /\ t.balance_factor \in -1 .. 1
        /\ Balanced(t.left) /\ Balanced(t.right)

(***************************************************************************)
(* The tree holds what was inserted, in order.  As long as no double       *)
(* rotation has taken place the balance factors are right, the tree is      *)
(* balanced and the assertions of the rotations hold.                        *)
(***************************************************************************)
Sound ==
    /\ ~bst.aborted => InOrder(bst.head) = bst.inserted
    /\ ~bst.doubled => Balanced(bst.head) /\ ~bst.aborted
=============================================================================
