------------------------- MODULE MCFilterUpdate --------------------------
(* Small instances of the filter update. *)
EXTENDS FilterUpdate

CONSTANTS i1, i2, a1
==========================================================================
