------------------------------ MODULE MCPist3 -------------------------------
(* Instances of Pist3 for TLC *)
EXTENDS Pist3

AnyVictim == [p \in Players |-> Players]

(* five players: 0 and 1 shoot each other and die in the first round, in    *)
(* which the others shoot them too; then anybody may shoot anybody            *)
TwoRounds == [p \in Players |-> CASE p = 0 -> {1}
                                  [] p = 1 -> {0}
                                  [] p = 2 -> {0}
                                  [] OTHER -> {1}]
=============================================================================
