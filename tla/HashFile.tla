------------------------------- MODULE HashFile -------------------------------
(***************************************************************************)
(* eda-2/session-2.c: students in a file of buckets, by the hash of their  *)
(* dni; those that do not fit in their bucket go to the overflow buckets.   *)
(* The file is truncated through a stream that is never closed: its last     *)
(* buckets stay in a buffer and reach the file when the program ends.        *)
(***************************************************************************)
EXTENDS Integers, Sequences, FiniteSets

CONSTANTS
    Dnis,                  (* numbers *)
    REGS_PER_BUCKET,       (* 5  *)
    BUCKETS,               (* 20 *)
    OVERFLOW_BUCKETS,      (* 4  *)
    MaxAlumns              (* bound of the instance: students in alumnos.dat            *)

VARIABLE hashed            (* file; flushed: how many of its buckets are not in the      *)
                           (* buffer; input: alumnos.dat, what is left of it; alumn: the *)
                           (* last one read; accepted, refused; pc                        *)

Total == BUCKETS + OVERFLOW_BUCKETS
Indexes == 0 .. Total - 1
Overflow == BUCKETS .. Total - 1
hash(dni) == dni % BUCKETS

EmptyBucket == [alumns |-> <<>>, element_count |-> 0]

(* hash_truncate_file and the opening of alumnos.dat, which is not empty.  *)
(* How much the buffer holds depends on the library, with that of GNU all    *)
(* the overflow buckets                                                        *)
Init ==
    \E n \in 1 .. MaxAlumns : \E input \in [1 .. n -> Dnis], flushed \in {BUCKETS, Total - 1} :
        hashed = [file |-> [i \in Indexes |-> EmptyBucket], flushed |-> flushed, input |-> input,
                  alumn |-> 0, accepted |-> {}, refused |-> {}, pc |-> "reading"]

(* A bucket past the end of the file is not read: the one read before it,  *)
(* which was full, is looked at once more                                    *)
HasRoom(b) == b.element_count < REGS_PER_BUCKET
WithRoom == {i \in Overflow : i < hashed.flushed /\ HasRoom(hashed.file[i])}
First(S) == CHOOSE i \in S : \A j \in S : i <= j

With(b, alumn) == [alumns |-> Append(b.alumns, alumn), element_count |-> b.element_count + 1]

Counted(b) == [b EXCEPT !.element_count = @ + 1]

(* hash_insert; a student for whom there is no room is not counted after all *)
hash_insert(alumn) ==
    LET home == hash(alumn) b == hashed.file[home] IN
    IF HasRoom(b) THEN [hashed.file EXCEPT ![home] = With(b, alumn)]
    ELSE IF WithRoom = {} THEN hashed.file
    ELSE LET i == First(WithRoom) IN
         [hashed.file EXCEPT ![home] = Counted(b), ![i] = With(@, alumn)]
Accepts(alumn) == HasRoom(hashed.file[hash(alumn)]) \/ WithRoom # {}

(* One turn of the loop of file_from_sequential_to_hash.  The end of the     *)
(* file is known only after a read that fails: the last student comes twice   *)
Turn(alumn, rest, pc) ==
    hashed' = [hashed EXCEPT
                 !.file = hash_insert(alumn), !.alumn = alumn, !.input = rest, !.pc = pc,
                 !.accepted = IF Accepts(alumn) THEN @ \cup {alumn} ELSE @,
                 !.refused = IF Accepts(alumn) THEN @ ELSE @ \cup {alumn}]
ReadAlumn ==
    /\ hashed.pc = "reading" /\ hashed.input # <<>>
    /\ Turn(Head(hashed.input), Tail(hashed.input), "reading")
ReadEnd ==
    /\ hashed.pc = "reading" /\ hashed.input = <<>>
    /\ Turn(hashed.alumn, <<>>, "read")

(* exit: what the buffers hold is written, where the streams are *)
AtExit ==
    /\ hashed.pc = "read"
    /\ hashed' = [hashed EXCEPT
                    !.file = [i \in Indexes |-> IF i < hashed.flushed THEN hashed.file[i] ELSE EmptyBucket],
                    !.pc = "ended"]

Next == ReadAlumn \/ ReadEnd \/ AtExit

Spec == Init /\ [][Next]_hashed
-----------------------------------------------------------------------------
Elements(i) == {hashed.file[i].alumns[n] : n \in DOMAIN hashed.file[i].alumns}

(* hash_retrieve: whether it is found *)
hash_retrieve(dni) ==
    \/ dni \in Elements(hash(dni))
    \/ ~HasRoom(hashed.file[hash(dni)]) /\ \E i \in Overflow : dni \in Elements(i)

(* What the counts of the buckets say beyond what is in them, and the        *)
(* students in the overflow buckets, one by one                                *)
Excess ==
    UNION {{i} \X (Len(hashed.file[i].alumns) + 1 .. hashed.file[i].element_count) :
              i \in Indexes \ Overflow}
Overflowed == UNION {{i} \X (1 .. hashed.file[i].element_count) : i \in Overflow}

(***************************************************************************)
(* Who was accepted is found, the same after the program has ended; who    *)
(* was refused found all full.  The excess of the buckets is what is in the  *)
(* overflow, so with no overflow bucket in the file no count exceeds the     *)
(* bucket, and the bucket looked at once more is not looked at past its end.  *)
(***************************************************************************)
Sound ==
    /\ \A dni \in hashed.accepted : hash_retrieve(dni)
    /\ hashed.refused # {} => WithRoom = {}
    /\ Cardinality(Excess) = Cardinality(Overflowed)
    /\ hashed.flushed = BUCKETS =>
          \A i \in Indexes : hashed.file[i].element_count <= REGS_PER_BUCKET
=============================================================================
