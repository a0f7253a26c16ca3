------------------------- MODULE MCAccountUpdate -------------------------
(* Two values of the secret, which people may choose as well. *)
EXTENDS AccountUpdate
==========================================================================
