-------------------------------- MODULE Fifo --------------------------------
(* What a queue promises: elements leave in the order they came.            *)
EXTENDS Sequences

CONSTANT Values
VARIABLE contents                 (* oldest first *)

Init == contents = <<>>

Push(v) == contents' = Append(contents, v)

Pop ==
    /\ contents # <<>>
    /\ contents' = Tail(contents)

Next == (\E v \in Values : Push(v)) \/ Pop

Spec == Init /\ [][Next]_contents
=============================================================================
