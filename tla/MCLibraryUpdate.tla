------------------------- MODULE MCLibraryUpdate -------------------------
(* Small instances of the library update: up to two libraries over three
   paths, the first declared with two of them. *)
EXTENDS LibraryUpdate

CONSTANTS movies, music, p1, p2, p3

MCDeclared == [n \in Names |-> IF n = movies THEN {p1, p2} ELSE {p3}]
==========================================================================
