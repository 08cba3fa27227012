----------------------------- MODULE LinkedNodes -----------------------------
(***************************************************************************)
(* eda-2/src/c/queue-list/lib/queue.c and stack-list/lib/stack.c: a queue  *)
(* and a stack of nodes allocated one by one.  The link of a node is next   *)
(* in the queue and prev in the stack.                                        *)
(***************************************************************************)
EXTENDS Integers, Sequences, FiniteSets

CONSTANTS
    Addresses,            (* what malloc may return: bounds the instance                   *)
    Values

NULL == "NULL"
Garbage == "garbage"      (* what a member that was never written holds                    *)

VARIABLE linked           (* kind, the nodes in use, value, link, first (the queue's), last, *)
                          (* size; crashed: garbage has been followed                      *)

Init ==
    \E kind \in {"queue", "stack"} :
        linked = [kind |-> kind, used |-> {}, value |-> [a \in Addresses |-> Garbage],
                  link |-> [a \in Addresses |-> Garbage],
                  first |-> NULL, last |-> NULL, size |-> 0, crashed |-> FALSE]

(* The caller looks at queue_empty or stack_empty first *)
empty == linked.size = 0

LastAfter(popped) == IF linked.last = popped THEN NULL ELSE linked.last

(* The first node may have a next that nobody wrote: what it reads is NULL *)
(* or anything else                                                          *)
queue_pop ==
    /\ linked.kind = "queue" /\ ~linked.crashed /\ ~empty
    /\ IF linked.first = Garbage
       THEN linked' = [linked EXCEPT !.crashed = TRUE]
       ELSE \E next \in (IF linked.link[linked.first] = Garbage THEN {NULL, Garbage}
                         ELSE {linked.link[linked.first]}) :
               linked' = [linked EXCEPT !.first = next, !.last = LastAfter(linked.first),
                                        !.size = @ - 1, !.used = @ \ {linked.first}]

queue_push(val) ==
    /\ linked.kind = "queue" /\ ~linked.crashed
    /\ \E item \in Addresses \ linked.used :
          linked' = [linked EXCEPT
              !.used = @ \cup {item},
              !.value[item] = val,
              !.link = [a \in Addresses |-> IF a = item THEN Garbage
                                            ELSE IF a = linked.last THEN item ELSE @[a]],
              !.first = IF @ = NULL THEN item ELSE @,
              !.last = item,
              !.size = @ + 1]

stack_pop ==
    /\ linked.kind = "stack" /\ ~empty
    /\ linked' = [linked EXCEPT !.last = linked.link[@], !.size = @ - 1, !.used = @ \ {linked.last}]

stack_push(val) ==
    /\ linked.kind = "stack"
    /\ \E item \in Addresses \ linked.used :
          linked' = [linked EXCEPT !.used = @ \cup {item}, !.value[item] = val,
                                   !.link[item] = linked.last, !.last = item, !.size = @ + 1]

Next ==
    \/ queue_pop \/ stack_pop
    \/ \E val \in Values : queue_push(val) \/ stack_push(val)

Spec == Init /\ [][Next]_linked
-----------------------------------------------------------------------------
(* The nodes and their values, from the first of the queue, from the top of *)
(* the stack                                                                 *)
Start == IF linked.kind = "queue" THEN linked.first ELSE linked.last
Chain[n \in 1 .. linked.size] == IF n = 1 THEN Start ELSE linked.link[Chain[n - 1]]
Contents == [n \in 1 .. linked.size |-> linked.value[Chain[n]]]

(* A pop emptied the queue and read a next that was never written *)
Astray == linked.first = Garbage

(* As many nodes are in use as the size says, and last is none or one of them *)
Sound ==
    /\ linked.size = Cardinality(linked.used)
    /\ linked.last \in linked.used \cup {NULL} /\ (empty <=> linked.last = NULL)
    /\ linked.crashed => Astray

Fifo == INSTANCE Fifo WITH contents <- Contents

(***************************************************************************)
(* Elements leave the queue in the order they came, and the stack in the   *)
(* reverse one, until the queue is emptied and what malloc left in the next *)
(* of the last node is not NULL.                                             *)
(***************************************************************************)
Keeps ==
    Astray' \/ IF linked.kind = "queue"
               THEN Fifo!Next
               ELSE \/ Contents # <<>> /\ Contents' = Tail(Contents)
                    \/ \E val \in Values : Contents' = <<val>> \o Contents
=============================================================================
