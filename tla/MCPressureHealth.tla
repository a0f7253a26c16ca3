------------------------- MODULE MCPressureHealth -------------------------
(* Small instances of the guard with its health report. *)
EXTENDS PressureHealth
==========================================================================
