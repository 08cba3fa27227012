-------------------------------- MODULE Store --------------------------------
(***************************************************************************)
(* programming/Store: clients, providers, spare parts (refills), purchases *)
(* and sales, in memory and in a file for each kind.  A sale takes from the *)
(* stock of its refill and a purchase adds to it; the files are saved one    *)
(* after another, and a save that fails is ignored.  faults counts the saves  *)
(* that fail, the ends between two of them, and the edits cut short.           *)
(***************************************************************************)
EXTENDS Integers, Sequences, FiniteSets, SequencesExt

CONSTANTS
    RefillIds,
    Counts,                (* what is typed for a count, which may be negative         *)
    Stocks,                (* of an imported refill                                    *)
    MaxRefills, MaxPurchases, MaxSales, MaxFaults      (* bounds of the instance       *)

VARIABLE store             (* menu; memory and disk: what the repositories and their    *)
                           (* files hold; saves still to do; dirty: the files that are  *)
                           (* known to be behind; faults; negative: one was typed        *)

Nothing == [clients |-> FALSE, providers |-> FALSE, refills |-> <<>>,
            purchases |-> <<>>, sales |-> <<>>]
Init ==
    store = [menu |-> "main", memory |-> Nothing, disk |-> Nothing, saves |-> <<>>,
             dirty |-> {}, faults |-> 0, negative |-> FALSE]

refills == store.memory.refills
sales == store.memory.sales
purchases == store.memory.purchases

At(menu) == store.menu = menu /\ store.saves = <<>>

(* findFirstBy: a refill may have been imported twice, the first one counts *)
Refill(id) == {i \in DOMAIN refills : refills[i].id = id /\ \A j \in 1 .. i - 1 : refills[j].id # id}
AddStock(rs, id, n) ==
    [i \in DOMAIN rs |-> IF i \in Refill(id) THEN [rs[i] EXCEPT !.stock = @ + n] ELSE rs[i]]
Stock(rs, id) == LET i == CHOOSE i \in Refill(id) : TRUE IN rs[i].stock

getNewId(all) == 1 + Max({0} \cup {all[i].id : i \in DOMAIN all})
Record(all, refill, count) == [id |-> getNewId(all), refill |-> refill, count |-> count]

(* What an action does to the memory, and the files it saves, in their order *)
Does(memory, saves, count) ==
    store' = [store EXCEPT !.memory = memory, !.saves = saves, !.negative = @ \/ count < 0]

(* Application.execute: an exception in an action closes the menu it was in *)
Throws(memory, dirty) ==
    store' = [store EXCEPT !.memory = memory, !.menu = "main", !.dirty = @ \cup dirty]

sales_valid(refill, count) ==
    /\ store.memory.clients
    /\ Refill(refill) # {} /\ Stock(refills, refill) >= count
sales_create(refill, count) ==
    /\ At("sales") /\ getNewId(sales) <= MaxSales
    /\ sales_valid(refill, count)
    /\ Does([store.memory EXCEPT !.sales = Append(@, Record(@, refill, count)),
                                 !.refills = AddStock(@, refill, -count)],
            <<"sales", "refills">>, count)

WrongRestored(s) == 0
Restored(s) == s.count
sales_destroy(i) ==
    /\ At("sales")
    /\ Does([store.memory EXCEPT !.refills = AddStock(@, sales[i].refill, Restored(sales[i])),
                                 !.sales = RemoveAt(@, i)],
            IF Refill(sales[i].refill) = {} THEN <<"sales">> ELSE <<"refills", "sales">>, 0)

(* The client cannot be changed: what is read for it is the end of the line *)
(* of the id.  The stock is given back first, then taken from the refill     *)
(* that was typed, if there is one; what there is, when there is not enough.  *)
Typed(refill, s) == IF Refill(refill) # {} THEN refill ELSE s.refill
Wanted(count, s) == IF count = 0 THEN s.count ELSE IF count < 0 THEN -count ELSE count
GivenBack(i) == AddStock(refills, sales[i].refill, sales[i].count)
sales_edit(i, refill, count) ==
    LET s == [sales[i] EXCEPT !.refill = Typed(refill, sales[i]), !.count = Wanted(count, sales[i])] IN
    /\ At("sales")
    /\ IF Refill(s.refill) = {}
       THEN Throws([store.memory EXCEPT !.sales[i] = s], {"sales"})
       ELSE LET available == Stock(GivenBack(i), s.refill)
                taken == IF available < s.count THEN available ELSE s.count IN
            Does([store.memory EXCEPT !.sales[i] = [s EXCEPT !.count = taken],
                                      !.refills = AddStock(GivenBack(i), s.refill, -taken)],
                 <<"refills", "sales">>, 0)

(* What was typed for the count is no number: nextInt throws with the stock *)
(* given back, perhaps another refill in the sale, and nothing saved.          *)
sales_edit_garbled(i, refill) ==
    /\ At("sales") /\ store.faults < MaxFaults
    /\ store' = [store EXCEPT !.memory.sales[i].refill = Typed(refill, sales[i]),
                              !.memory.refills = GivenBack(i),
                              !.menu = "main", !.dirty = @ \cup {"sales", "refills"}, !.faults = @ + 1]

purchases_create(refill, count) ==
    /\ At("purchases") /\ getNewId(purchases) <= MaxPurchases
    /\ store.memory.providers /\ Refill(refill) # {}
    /\ Does([store.memory EXCEPT !.purchases = Append(@, Record(@, refill, count)),
                                 !.refills = AddStock(@, refill, count)],
            <<"purchases", "refills">>, count)

(* destroy takes no Arguments: it is not found, and no purchase is destroyed *)
purchases_destroy == At("purchases") /\ Throws(store.memory, {})

(* _import adds all or nothing, and saves *)
clients_import == At("main") /\ Does([store.memory EXCEPT !.clients = TRUE], <<"clients">>, 0)
providers_import == At("main") /\ Does([store.memory EXCEPT !.providers = TRUE], <<"providers">>, 0)
refills_import(id, stock) ==
    /\ At("main") /\ Len(refills) < MaxRefills
    /\ Does([store.memory EXCEPT !.refills = Append(@, [id |-> id, stock |-> stock, imported |-> stock])],
            <<"refills">>, 0)

(* FileBasedRepository.save: the file is made anew and written.  When that *)
(* fails it is as it was, or empty; the action goes on                       *)
Saved(f, data, ok) ==
    store' = [store EXCEPT !.disk[f] = data, !.saves = Tail(@),
                           !.dirty = IF ok THEN @ \ {f} ELSE @ \cup {f},
                           !.faults = IF ok THEN @ ELSE @ + 1]
save ==
    /\ store.saves # <<>>
    /\ LET f == Head(store.saves) IN
       \/ Saved(f, store.memory[f], TRUE)
       \/ store.faults < MaxFaults /\ \E data \in {store.disk[f], Nothing[f]} : Saved(f, data, FALSE)

(* Menu: the first leads to the others, and the end of it ends the program, *)
(* which may as well end at any other place; load makes of an empty file or   *)
(* of none an empty collection                                                 *)
Enter(menu) == At("main") /\ store' = [store EXCEPT !.menu = menu]
Leave == store.menu # "main" /\ At(store.menu) /\ store' = [store EXCEPT !.menu = "main"]
restart ==
    /\ store.saves = <<>> \/ store.faults < MaxFaults
    /\ store' = [store EXCEPT !.menu = "main", !.memory = store.disk, !.saves = <<>>, !.dirty = {},
                              !.faults = IF store.saves = <<>> THEN @ ELSE @ + 1]

Next ==
    \/ \E refill \in RefillIds, count \in Counts :
          sales_create(refill, count) \/ purchases_create(refill, count)
    \/ \E i \in DOMAIN sales : sales_destroy(i)
    \/ \E i \in DOMAIN sales, refill \in RefillIds \cup {""}, count \in Counts \cup {0} :
          sales_edit(i, refill, count) \/ sales_edit_garbled(i, refill)
    \/ purchases_destroy
    \/ clients_import \/ providers_import
    \/ \E id \in RefillIds, stock \in Stocks : refills_import(id, stock)
    \/ save \/ restart \/ Leave
    \/ \E menu \in {"sales", "purchases"} : Enter(menu)

Spec == Init /\ [][Next]_store
-----------------------------------------------------------------------------
(* What has been moved of a refill: the sum of the counts, where it is its *)
Counted(all, id) == [i \in DOMAIN all |-> IF all[i].refill = id THEN all[i].count ELSE 0]
Total(counts) ==
    LET sum[n \in 0 .. Len(counts)] == IF n = 0 THEN 0 ELSE sum[n - 1] + counts[n]
    IN sum[Len(counts)]
SumOf(all, id) == Total(Counted(all, id))

StocksAgree ==
    store.faults = 0 =>
        \A i \in DOMAIN refills :
            LET id == refills[i].id
                moved == IF i \in Refill(id) THEN SumOf(purchases, id) - SumOf(sales, id) ELSE 0 IN
            /\ refills[i].stock = refills[i].imported + moved
            /\ ~store.negative => refills[i].stock >= 0
FilesAgree ==
    /\ \A f \in DOMAIN Nothing :
          f \notin store.dirty /\ ~Contains(store.saves, f) => store.disk[f] = store.memory[f]
    /\ store.faults = 0 => store.dirty = {}
    /\ IsInjective([i \in DOMAIN sales |-> sales[i].id])

(***************************************************************************)
(* Until a save fails, the program dies between two of them or an edit is  *)
(* cut short by a count that is no number, the stock of every refill is     *)
(* what was imported and purchased less what was sold, and is not negative   *)
(* unless a negative count was typed.  Outside an action the files that are   *)
(* not known to be behind hold what the memory holds.                          *)
(***************************************************************************)
StockAgrees == StocksAgree /\ FilesAgree
=============================================================================
