------------------------ MODULE MCDatabaseRestore ------------------------
(* A small inventory: one application, one integration job and the timer
   that starts it. *)
EXTENDS DatabaseRestore

CONSTANTS app, sync, timer

MCTrigger == [t \in Timers |-> sync]
==========================================================================
