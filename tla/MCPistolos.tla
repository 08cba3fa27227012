----------------------------- MODULE MCPistolos -----------------------------
(* Instances of Pistolos for TLC *)
EXTENDS Pistolos

AnyVictim == [p \in Children |-> Children \ {p}]
(* with four children: 0 and 1 kill each other, 3 shoots one of them, 2 shoots *)
(* 0 or 3, so that there are games of one round and of two                       *)
FewVictims == [p \in Children |-> IF p = 0 THEN {1} ELSE IF p = 2 THEN {0, 3} ELSE {0}]

NoFork == {}
AnyFork == Children

Nowhere == {}
WhileStarting == {"create", "check_ready", "wait_ready"}
(* after the wait for everybody to be ready: where the parent decides and waits *)
InTheGame == {"decide", "wait_round"}
AnyTime == WhileStarting \cup {"resolve", "decide", "signal", "check_round", "wait_round"}
=============================================================================
