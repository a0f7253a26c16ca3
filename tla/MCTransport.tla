---------------------------- MODULE MCTransport ----------------------------
(* The program's own times in seconds, and three calls after the wait. *)
EXTENDS Transport
============================================================================
