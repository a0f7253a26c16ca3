------------------------- MODULE MCResourceUpdate -------------------------
(* Small instances of the declared resources. *)
EXTENDS ResourceUpdate
===========================================================================
