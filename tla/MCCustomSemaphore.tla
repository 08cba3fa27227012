-------------------------- MODULE MCCustomSemaphore -------------------------
(* Instances of CustomSemaphore for TLC *)
EXTENDS CustomSemaphore
=============================================================================
