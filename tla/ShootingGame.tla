---------------------------- MODULE ShootingGame ----------------------------
(***************************************************************************)
(* The game every "pistoleros" practice implements, without processes,     *)
(* signals or semaphores: in each round every player alive aims at another *)
(* one alive, all of them shoot once, and only when the last one has shot  *)
(* do those that were hit die, all at once.  The rounds end when at most   *)
(* one player is alive.  Pist2, Pist3 and Pistolos are checked against it. *)
(***************************************************************************)
EXTENDS Naturals, FiniteSets

CONSTANT Players     (* the processes or threads that play *)

VARIABLES alive,     (* the players that take part in the round              *)
          shot,      (* those of them whose shot of this round is recorded    *)
          hit        (* those somebody has shot in this round                 *)

vars == <<alive, shot, hit>>

TypeOK == /\ alive \subseteq Players
          /\ shot \subseteq alive
          /\ hit \subseteq alive

Init == alive = Players /\ shot = {} /\ hit = {}

Playing == Cardinality(alive) > 1

Shoot(p, t) ==
    /\ Playing
    /\ p \in alive \ shot
    /\ t \in alive \ {p}
    /\ shot' = shot \cup {p}
    /\ hit' = hit \cup {t}
    /\ UNCHANGED alive

Resolve ==
    /\ Playing
    /\ shot = alive
    /\ alive' = alive \ hit
    /\ shot' = {}
    /\ hit' = {}

Next == Resolve \/ \E p, t \in Players : Shoot(p, t)

Spec == Init /\ [][Next]_vars
=============================================================================
