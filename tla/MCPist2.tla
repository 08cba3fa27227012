------------------------------ MODULE MCPist2 -------------------------------
(* Instances of Pist2 for TLC *)
EXTENDS Pist2

AnyVictim == [p \in Players |-> Players]

(* everyone shoots 0, who shoots 1: 0 and 1 die, the others survive the round *)
TwoDie == [p \in Players |-> IF p = 0 THEN {1} ELSE {0}]

AllFaults == {"semget", "msgget", "inicio", "fork", "nuevoPistolero", "msgsnd"}
DuringGame == {"w_ready", "reap"}
Anywhere == ParentPcs
=============================================================================
