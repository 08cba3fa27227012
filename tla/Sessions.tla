------------------------------ MODULE Sessions ------------------------------
(***************************************************************************)
(* The exercises of ssooii with several processes.  session_1.c: a parent  *)
(* and its children pass by a critical section; then the parent waits with *)
(* semaphore_wait and, in another call, removes the semaphore.              *)
(* session_1_2.c: two at a time and for ever, until SIGINT removes the     *)
(* semaphore.  session_5.c: a parent writes lines into a pipe that its     *)
(* child copies to a file, and a null byte at the end of its input.          *)
(***************************************************************************)
EXTENDS Naturals, Sequences, SequencesExt, FiniteSets

CONSTANTS
    Procs,            (* the children of session_1 and session_1_2; the parent is 0  *)
    MAX_REPETITIONS,  (* how often each process of session_1 passes                  *)
    Lines,            (* how many lines session_5's parent has to write at most      *)
    MAX_MESSAGE       (* MAX_MESSAGE_LENGTH in lines: what one read takes at most    *)

VARIABLES
    session,          (* "session_1", "session_1_2" or "session_5"                   *)
    proc,             (* where each process is                                       *)
    turns,            (* how often it has passed                                     *)
    sem,              (* the value of the semaphore                                  *)
    removed,          (* the semaphore has been removed                              *)
    interrupted,      (* the processes whose handler of SIGINT has run               *)
    pipe,             (* the lines in it, each its number, and 0: the null byte                  *)
    file,             (* what has been copied                                        *)
    count             (* how many lines the parent has written                       *)

passing == <<proc, turns, sem, removed, interrupted>>
copying == <<pipe, file, count>>
vars == <<session, passing, copying>>

All == Procs \cup {0}
Units == IF session = "session_1" THEN 1 ELSE 2

(* After the creation loops: a child that has not been forked yet has done *)
(* nothing.  In session_5 process 1 is the child.                            *)
Init ==
    /\ session \in {"session_1", "session_1_2", "session_5"}
    /\ proc = [p \in All |-> IF session # "session_5" THEN "lock"
                             ELSE IF p = 0 THEN "write" ELSE IF p = 1 THEN "select" ELSE "end"]
    /\ turns = [p \in All |-> 0]
    /\ sem = Units /\ removed = FALSE /\ interrupted = {}
    /\ pipe = <<>> /\ file = <<>> /\ count = 0

Goto(p, l) == proc' = [proc EXCEPT ![p] = l]
-----------------------------------------------------------------------------
(* session_1 and session_1_2: a semop on a semaphore that has been removed *)
(* fails, and ENSURE_SUCCESS ends the process                                *)

WrongHasUnit == sem >= 0
HasUnit == sem > 0

Lock(p) ==
    /\ session # "session_5" /\ proc[p] = "lock"
    /\ ~removed /\ HasUnit
    /\ sem' = sem - 1
    /\ Goto(p, "critical")
    /\ UNCHANGED <<session, turns, removed, interrupted, copying>>

(* critical_section and semaphore_unlock *)
Unlock(p) ==
    LET last == session = "session_1" /\ turns[p] + 1 = MAX_REPETITIONS IN
    /\ proc[p] = "critical" /\ ~removed
    /\ sem' = sem + 1
    /\ turns' = [turns EXCEPT ![p] = IF session = "session_1" THEN @ + 1 ELSE @]
    /\ Goto(p, IF ~last THEN "lock" ELSE IF p = 0 THEN "wait" ELSE "end")
    /\ UNCHANGED <<session, removed, interrupted, copying>>

EnsureFails(p) ==
    /\ removed /\ proc[p] \in {"lock", "critical"}
    /\ Goto(p, "failed")
    /\ UNCHANGED <<session, turns, sem, removed, interrupted, copying>>

(* The parent's last two calls, and what the others do between them.        *)
(* semaphore_wait waits until the semaphore is 0                              *)
WrongWaits == sem > 0
Waits == sem = 0

SemaphoreWait ==
    /\ proc[0] = "wait" /\ Waits
    /\ Goto(0, "destroy")
    /\ UNCHANGED <<session, turns, sem, removed, interrupted, copying>>

SemaphoreDestroy ==
    /\ proc[0] = "destroy"
    /\ removed' = TRUE
    /\ Goto(0, "end")
    /\ UNCHANGED <<session, turns, sem, interrupted, copying>>

(* cleanup: SIGINT reaches every process of the group; a semop that waits  *)
(* returns EINTR, and critical_section's sleep ends                          *)
Cleanup(p) ==
    /\ session = "session_1_2" /\ p \notin interrupted /\ proc[p] \in {"lock", "critical"}
    /\ removed' = TRUE
    /\ interrupted' = interrupted \cup {p}
    /\ UNCHANGED <<session, proc, turns, sem, copying>>
-----------------------------------------------------------------------------
(* session_5 *)

(* write_each: a line, or at the end of the input the null byte *)
Write ==
    /\ session = "session_5" /\ proc[0] = "write" /\ count < Lines
    /\ count' = count + 1
    /\ pipe' = Append(pipe, count + 1)
    /\ UNCHANGED <<session, passing, file>>

WriteEnd ==
    /\ session = "session_5" /\ proc[0] = "write"
    /\ pipe' = Append(pipe, 0)
    /\ Goto(0, "end")
    /\ UNCHANGED <<session, turns, sem, removed, interrupted, file, count>>

WrongStops(bytes) == bytes = <<0>> \/ Len(bytes) = MAX_MESSAGE
Stops(bytes) == bytes = <<0>>

(* listen_to_and_write: select, and a read of what there is *)
Copy ==
    /\ session = "session_5" /\ proc[1] = "select" /\ pipe # <<>>
    /\ LET n == IF Len(pipe) < MAX_MESSAGE THEN Len(pipe) ELSE MAX_MESSAGE
           bytes == SubSeq(pipe, 1, n) IN
          /\ pipe' = SubSeq(pipe, n + 1, Len(pipe))
          /\ IF Stops(bytes) THEN Goto(1, "end") /\ UNCHANGED file
                             ELSE file' = file \o bytes /\ UNCHANGED proc
    /\ UNCHANGED <<session, turns, sem, removed, interrupted, count>>
-----------------------------------------------------------------------------
Next ==
    \/ \E p \in All : Lock(p) \/ Unlock(p) \/ EnsureFails(p) \/ Cleanup(p)
    \/ SemaphoreWait \/ SemaphoreDestroy \/ Write \/ WriteEnd \/ Copy

Spec == Init /\ [][Next]_vars
-----------------------------------------------------------------------------
(* At most as many as units are in the critical section, removal included  *)
AtMostUnits == Cardinality({p \in All : proc[p] = "critical"}) <= Units

(***************************************************************************)
(* semaphore_wait waits for zero, and not "for the semaphore to be         *)
(* available": session_1's parent is let through only while a child is     *)
(* inside (and never, if all of them have ended), and what it then removes *)
(* may be in use.  Whoever ends has had all his turns; whoever fails has   *)
(* not, and only fails because the parent has removed the semaphore.        *)
(***************************************************************************)
WaitsForTheTaken ==
    session = "session_1" =>
        /\ proc[0] = "wait" /\ Waits => \E p \in Procs : proc[p] = "critical"
        /\ \A p \in All :
              /\ proc[p] \in {"wait", "destroy", "end"} => turns[p] = MAX_REPETITIONS
              /\ proc[p] = "failed" => turns[p] < MAX_REPETITIONS /\ proc[0] = "end"

(***************************************************************************)
(* The file has the lines in order and the rest is in the pipe.  The child *)
(* stops after all of them; if the null byte came in the same read as a     *)
(* line, it is in the file and the child goes on waiting, with its own end  *)
(* of the pipe open, for ever.                                               *)
(***************************************************************************)
CopiesTheLines ==
    session = "session_5" =>
        LET written == [i \in 1 .. count |-> i] IN
        /\ file \o pipe \in {written, Append(written, 0)}
        /\ proc[1] = "end" => file = written
        /\ proc[0] = "end" /\ pipe = <<>> => proc[1] = "end" \/ Last(file) = 0
=============================================================================
