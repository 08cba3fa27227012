------------------------------ MODULE Semaphore -----------------------------
(***************************************************************************)
(* A fair counting semaphore: at most Units processes hold it, and who     *)
(* gives a unit back hands it to whoever has waited longest.  What         *)
(* CustomSemaphore promises.                                                *)
(***************************************************************************)
EXTENDS Naturals, FiniteSets, Sequences

CONSTANTS Procs, Units

VARIABLES holders,      (* the processes that hold a unit                  *)
          waiters       (* those that wait for one, in order of arrival    *)

Init == holders = {} /\ waiters = <<>>

Waiting == {waiters[i] : i \in DOMAIN waiters}

Lock(p) ==
    /\ p \in Procs \ (holders \cup Waiting)
    /\ IF Cardinality(holders) < Units
       THEN holders' = holders \cup {p} /\ UNCHANGED waiters
       ELSE waiters' = Append(waiters, p) /\ UNCHANGED holders

Unlock(p) ==
    /\ p \in holders
    /\ IF waiters = <<>>
       THEN holders' = holders \ {p} /\ UNCHANGED waiters
       ELSE /\ holders' = (holders \ {p}) \cup {Head(waiters)}
            /\ waiters' = Tail(waiters)

Next == \E p \in Procs : Lock(p) \/ Unlock(p)

Spec == Init /\ [][Next]_<<holders, waiters>>
=============================================================================
