------------------------ MODULE MCRecoveryStaging ------------------------
(* Small instances of the recovery job: one application, one integration
   job and the timer that starts it. *)
EXTENDS RecoveryStaging

CONSTANTS app, sync, timer

MCTrigger == [t \in Timers |-> sync]
==========================================================================
