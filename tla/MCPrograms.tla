----------------------------- MODULE MCPrograms -----------------------------
(* One instance of four programs of ssooi and ssooii that have nothing to  *)
(* do with each other: a behaviour is one of the program it starts with.    *)
EXTENDS Cruce, Sequences, TLC

VARIABLES
    subject,
    ppc, next, failed, usr2, released, rounds, alive, known, status, target, pc, dying,
    pending, shots, lines,
    bolo, args, pins, table, turn,
    session, proc, turns, sem, removed, interrupted, pipe, file, count

cruceVars == vars
pistolosVars == <<ppc, next, failed, usr2, released, rounds, alive, known, status, target, pc,
                  dying, pending, shots, lines>>
bolosVars == <<bolo, args, pins, table, turn>>
sessionsVars == <<session, proc, turns, sem, removed, interrupted, pipe, file, count>>

(* cruce: two slots, three cars or walkers.  A walker appears at "birth",  *)
(* a car at "road"; both cross "zebra".                                      *)
Point == {"birth", "road", "zebra"}
Walkers == {<<"birth", "zebra">>}
Cars == {"road"}
Way == [c \in Point |-> IF c = "zebra" THEN {"off"} ELSE {"zebra"}]

(* Which pid a process gets is of no account *)
PidSymmetry == Permutations(Pids)

(* pistolos: 0 and 1 kill each other, 2 shoots 0 or 3, 3 shoots 0 *)
FewVictims == [p \in 0 .. 3 |-> IF p = 0 THEN {1} ELSE IF p = 2 THEN {0, 3} ELSE {0}]

Pistolos == INSTANCE PistolosDeferred
                WITH N <- 4, Victims <- FewVictims, ForkFailsAt <- {3},
                     InterruptAt <- {"check_ready"}, alive_count <- alive
Bolos == INSTANCE Bolos WITH CallsFail <- TRUE
Sessions == INSTANCE Sessions
                WITH Procs <- {1, 2}, MAX_REPETITIONS <- 2, Lines <- 4, MAX_MESSAGE <- 2

ProgramsInit ==
    /\ subject \in {"cruce", "pistolos_deferredprint", "bolos", "sessions"}
    /\ Init /\ Pistolos!DeferredInit /\ Bolos!Init /\ Sessions!Init
    /\ subject # "sessions" => session = "session_1"

CruceNext ==
    /\ subject = "cruce" /\ Next
    /\ UNCHANGED <<subject, pistolosVars, bolosVars, sessionsVars>>
PistolosNext ==
    /\ subject = "pistolos_deferredprint" /\ Pistolos!DeferredNext
    /\ UNCHANGED <<subject, cruceVars, bolosVars, sessionsVars>>
BolosNext ==
    /\ subject = "bolos" /\ Bolos!Next
    /\ UNCHANGED <<subject, cruceVars, pistolosVars, sessionsVars>>
SessionsNext ==
    /\ subject = "sessions" /\ Sessions!Next
    /\ UNCHANGED <<subject, cruceVars, pistolosVars, bolosVars>>

ProgramsNext == CruceNext \/ PistolosNext \/ BolosNext \/ SessionsNext

ProgramsSpec ==
    /\ ProgramsInit
    /\ [][ProgramsNext]_<<subject, cruceVars, pistolosVars, bolosVars, sessionsVars>>
-----------------------------------------------------------------------------
(* What the other programs promise: pistolos_deferredprint.c prints the    *)
(* shots of each round; the pins of bolos.c know the two behind them; the   *)
(* processes of session_1.c and session_1_2.c respect the units of their    *)
(* semaphore, whose removal waits for it to be taken; session_5.c copies    *)
(* every line.                                                               *)
OthersSound ==
    /\ Pistolos!PrintsTheShots
    /\ Bolos!KnowsItsPins
    /\ Sessions!AtMostUnits /\ Sessions!WaitsForTheTaken /\ Sessions!CopiesTheLines
=============================================================================
