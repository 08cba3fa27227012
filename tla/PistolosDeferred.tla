-------------------------- MODULE PistolosDeferred --------------------------
(***************************************************************************)
(* ssooi/pistolos_deferredprint.c: Pistolos, where the shots of a round    *)
(* are not printed by whoever shoots but by the parent, from the targets,  *)
(* when the round is over.  What the two programs share is in Pistolos.     *)
(***************************************************************************)
EXTENDS Pistolos

VARIABLES
    shots,           (* history: the shots of this round, <<who, whom>>               *)
    lines            (* the lines printed about it                                    *)

printing == <<shots, lines>>

DeferredInit == Init /\ shots = {} /\ lines = {}
-----------------------------------------------------------------------------
DeferredFork == Fork /\ UNCHANGED printing
DeferredForkFails == ForkFails /\ UNCHANGED printing
DeferredAllCreated == AllCreated /\ UNCHANGED printing
DeferredCheckReady == CheckReady /\ UNCHANGED printing
DeferredWaitReady == WaitReady /\ UNCHANGED printing
DeferredResolve == Resolve /\ UNCHANGED printing

(* The header of a round *)
DeferredDecide == Decide /\ shots' = {} /\ lines' = {}

DeferredSignal == Signal /\ UNCHANGED printing

DeferredCheckRound ==
    CheckUntil("check_round", round_over, "wait_round", "print") /\ UNCHANGED printing

DeferredWaitRound == WaitRound /\ UNCHANGED printing

WrongPrints(p) == TRUE
Prints(p) == ~Has(p, "DEAD")

(* One turn of the loop that prints the shots: p->target->id *)
PrintShot ==
    /\ ppc = "print"
    /\ lines' = IF Prints(next) THEN lines \cup {<<next, target[next]>>} ELSE lines
    /\ Loop("print", "resolve")
    /\ UNCHANGED <<failed, released, usr2, game, process, pc, dying, pending, shots>>

DeferredInterrupt == Interrupt /\ UNCHANGED printing
DeferredDump == Dump /\ UNCHANGED printing
DeferredKillAll == KillAll /\ UNCHANGED printing
DeferredReleaseData == ReleaseData /\ UNCHANGED printing

DeferredSetId(p) == SetId(p) /\ UNCHANGED printing
DeferredBecomeReady(p) == BecomeReady(p) /\ UNCHANGED printing
DeferredNotifyReady(p) == NotifyReady(p) /\ UNCHANGED printing
DeferredCatchOrder(p) == CatchOrder(p) /\ UNCHANGED printing
DeferredCatchShot(p) == CatchShot(p) /\ UNCHANGED printing

(* Nothing is printed here *)
DeferredShoot(p) ==
    /\ Shoot(p)
    /\ shots' = shots \cup {<<p, target'[p]>>}
    /\ UNCHANGED lines

DeferredSetShot(p) == SetShot(p) /\ UNCHANGED printing
DeferredNotifyShot(p) == NotifyShot(p) /\ UNCHANGED printing
DeferredSetDead(p) == SetDead(p) /\ UNCHANGED printing
DeferredNotifyDead(p) == NotifyDead(p) /\ UNCHANGED printing
DeferredExit(p) == Exit(p) /\ UNCHANGED printing
DeferredKilled(p) == Killed(p) /\ UNCHANGED printing
-----------------------------------------------------------------------------
DeferredParent ==
    \/ DeferredFork \/ DeferredForkFails \/ DeferredAllCreated
    \/ DeferredCheckReady \/ DeferredWaitReady \/ DeferredResolve \/ DeferredDecide
    \/ DeferredSignal \/ DeferredCheckRound \/ DeferredWaitRound \/ PrintShot
    \/ DeferredInterrupt \/ DeferredDump \/ DeferredKillAll \/ DeferredReleaseData

DeferredChild(p) ==
    \/ DeferredSetId(p) \/ DeferredBecomeReady(p) \/ DeferredNotifyReady(p)
    \/ DeferredCatchOrder(p) \/ DeferredCatchShot(p) \/ DeferredShoot(p)
    \/ DeferredSetShot(p) \/ DeferredNotifyShot(p) \/ DeferredSetDead(p)
    \/ DeferredNotifyDead(p) \/ DeferredExit(p) \/ DeferredKilled(p)

DeferredNext == DeferredParent \/ \E p \in Children : DeferredChild(p)

DeferredSpec == DeferredInit /\ [][DeferredNext]_<<vars, printing>>
-----------------------------------------------------------------------------
(***************************************************************************)
(* What is printed of a round is what happened in it: every shot, with the *)
(* one who was shot, and nothing of the rounds before, although it is read *)
(* later and from memory that everybody writes.                              *)
(***************************************************************************)
PrintsTheShots == ppc \in {"resolve", "decide"} => lines = shots
=============================================================================
