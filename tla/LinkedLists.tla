----------------------------- MODULE LinkedLists -----------------------------
(***************************************************************************)
(* eda-1/list/list.c and eda-1/listaEnterosAlumnos2014/tipoLista.c: a list *)
(* of nodes after a fake one.  A position is the node before the element.   *)
(* The second has no size; pruebaLista.c purges and sorts its lists.        *)
(***************************************************************************)
EXTENDS Integers, Sequences, SequencesExt, FiniteSets, TLC

CONSTANTS
    Addresses,            (* what malloc may return: a set of numbers, bounds the instance *)
    Values                (* the elements, of Nat                                          *)

NULL == 0

VARIABLE list             (* kind, the nodes in use, next, value, fake, end (fondo), size  *)

(* list_init, creaVacia *)
Fresh(l) == CHOOSE a \in Addresses \ l.used : \A b \in Addresses \ l.used : a <= b
Empty(kind) ==
    LET a == CHOOSE x \in Addresses : \A b \in Addresses : x <= b IN
    [kind |-> kind, used |-> {a}, next |-> [x \in Addresses |-> NULL],
     value |-> [x \in Addresses |-> 0], fake |-> a, end |-> a, size |-> 0]

Init == list \in {Empty("list"), Empty("tipoLista")}

primero(l) == l.fake
fin(l) == l.end
siguiente(p, l) == IF l.next[p] # NULL THEN l.next[p] ELSE l.end
recupera(p, l) == IF p = l.end THEN -3 ELSE l.value[l.next[p]]
compara(a, b) == IF a = b THEN 0 ELSE IF a < b THEN -1 ELSE 1

EndAfterInsert(l, p, n) == IF p = l.end THEN n ELSE l.end

(* insert, inserta.  If malloc fails they change nothing. *)
inserta(x, p, l) ==
    IF l.used = Addresses THEN l
    ELSE LET n == Fresh(l) IN
         [l EXCEPT !.used = @ \cup {n},
                   !.next = [@ EXCEPT ![n] = l.next[p], ![p] = n],
                   !.value[n] = x,
                   !.end = EndAfterInsert(l, p, n),
                   !.size = @ + (IF l.kind = "list" THEN 1 ELSE 0)]

(* delete, elimina; free *)
EndAfterErase(l, p) == IF l.next[p] = l.end THEN p ELSE l.end

elimina(p, l) ==
    [l EXCEPT !.used = @ \ {l.next[p]},
              !.next[p] = l.next[l.next[p]],
              !.end = EndAfterErase(l, p),
              !.size = @ - (IF l.kind = "list" THEN 1 ELSE 0)]

(* prev: NULL before the first.  anterior: only of a node after the fake one *)
RECURSIVE PrevFrom(_, _, _)
PrevFrom(it, iter, l) ==
    IF it = l.end \/ l.next[it] = iter THEN it ELSE PrevFrom(l.next[it], iter, l)
prev(l, iter) == IF iter = l.fake THEN NULL ELSE PrevFrom(l.fake, iter, l)

RECURSIVE AnteriorFrom(_, _, _)
AnteriorFrom(a, p, l) == IF l.next[a] = p THEN a ELSE AnteriorFrom(l.next[a], p, l)
anterior(p, l) == AnteriorFrom(l.fake, p, l)

(* find, localiza: end if there is none *)
RECURSIVE FindFrom(_, _, _)
FindFrom(it, x, l) ==
    IF it = l.end \/ l.value[l.next[it]] = x THEN it ELSE FindFrom(l.next[it], x, l)
find(l, x) == FindFrom(l.fake, x, l)

RECURSIVE LocalizaFrom(_, _, _)
LocalizaFrom(a, x, l) ==
    IF l.next[a] = NULL \/ l.value[l.next[a]] = x THEN a ELSE LocalizaFrom(l.next[a], x, l)
localiza(x, l) == IF x < 0 THEN l.end ELSE LocalizaFrom(l.fake, x, l)

(* list_destroy's loop, anulaLista *)
RECURSIVE anulaLista(_)
anulaLista(l) == IF l.fake = l.end THEN l ELSE anulaLista(elimina(l.fake, l))

(* purga: the loops over sig and over act *)
RECURSIVE PurgeAfter(_, _, _)
PurgeAfter(act, sig, l) ==
    IF sig = fin(l) THEN l
    ELSE IF compara(recupera(act, l), recupera(sig, l)) = 0
         THEN PurgeAfter(act, sig, elimina(sig, l))
         ELSE PurgeAfter(act, siguiente(sig, l), l)
RECURSIVE PurgeFrom(_, _)
PurgeFrom(act, l) ==
    IF act = fin(l) THEN l
    ELSE LET m == PurgeAfter(act, siguiente(act, l), l) IN PurgeFrom(siguiente(act, m), m)
purga(l) == PurgeFrom(primero(l), l)

(* duplicaOrdenada: the loops over ins and over act *)
RECURSIVE PlaceFrom(_, _, _)
PlaceFrom(ins, valor, res) ==
    IF ins # fin(res) /\ 0 < compara(valor, recupera(ins, res))
    THEN PlaceFrom(siguiente(ins, res), valor, res) ELSE ins
RECURSIVE DuplicateFrom(_, _, _)
DuplicateFrom(act, res, l) ==
    IF act = fin(l) THEN res
    ELSE LET valor == recupera(act, l) IN
         DuplicateFrom(siguiente(act, l),
                       inserta(valor, PlaceFrom(primero(res), valor, res), res), l)
duplicaOrdenada(l) ==
    LET res == Empty("tipoLista") IN
    DuplicateFrom(siguiente(primero(l), l),
                  inserta(recupera(primero(l), l), primero(res), res), l)
-----------------------------------------------------------------------------
(* The operations on any position; to erase, not the last one *)
Next ==
    \/ \E p \in list.used, x \in Values : list' = inserta(x, p, list)
    \/ \E p \in list.used \ {list.end} : list' = elimina(p, list)
    \/ list' = anulaLista(list)
    \/ list.kind = "tipoLista" /\ list' = purga(list)

Spec == Init /\ [][Next]_list
-----------------------------------------------------------------------------
(* The elements *)
RECURSIVE ElementsFrom(_, _)
ElementsFrom(p, l) ==
    IF l.next[p] = NULL THEN <<>>
    ELSE <<l.value[l.next[p]]>> \o ElementsFrom(l.next[p], l)
Elements(l) == ElementsFrom(l.fake, l)

RECURSIVE NodesFrom(_, _)
NodesFrom(p, l) == IF p = NULL THEN <<>> ELSE <<p>> \o NodesFrom(l.next[p], l)
Nodes(l) == NodesFrom(l.fake, l)

Indices == DOMAIN Nodes(list)                            \* one more than the elements

WithoutDuplicates(s) ==
    FoldLeft(LAMBDA seen, x : IF Contains(seen, x) THEN seen ELSE Append(seen, x), <<>>, s)

(* Every node in use is in the list and no other, end is the last of them, *)
(* and size their number: nothing is leaked, nothing is used that was freed. *)
Sound ==
    LET nodes == Nodes(list) IN
    /\ ToSet(nodes) = list.used /\ Len(nodes) = Cardinality(list.used)
    /\ Last(nodes) = list.end
    /\ list.kind = "list" => list.size = Len(nodes) - 1

(***************************************************************************)
(* The operations are those of a sequence: the k-th position is the one    *)
(* before the k-th element, and the position of a value that is not there   *)
(* is the end.  purga leaves the first of those that are equal, and          *)
(* duplicaOrdenada sorts, but for an empty list: it gives one element, -3.   *)
(***************************************************************************)
IsASequence ==
    LET s == Elements(list)
        at == Nodes(list) IN
    /\ \A k \in Indices, x \in Values :
          list.used # Addresses => Elements(inserta(x, at[k], list)) = InsertAt(s, k, x)
    /\ \A k \in DOMAIN s :
          /\ Elements(elimina(at[k], list)) = RemoveAt(s, k)
          /\ prev(list, at[k + 1]) = at[k] /\ anterior(at[k + 1], list) = at[k]
    /\ \A x \in Values :
          LET k == SelectInSeq(s, LAMBDA y : y = x) IN
          find(list, x) = (IF k = 0 THEN list.end ELSE at[k]) /\ localiza(x, list) = find(list, x)
    /\ Elements(purga(list)) = WithoutDuplicates(s)
    /\ Elements(duplicaOrdenada(list)) =
          IF s = <<>> THEN <<-3>> ELSE SortSeq(s, LAMBDA a, b : a < b)
=============================================================================
