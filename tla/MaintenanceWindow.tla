------------------------ MODULE MaintenanceWindow ------------------------
(***************************************************************************)
(* What a host may take for granted of the recovery copy, whatever fails,  *)
(* is killed or loses power (docs/operations.md:17-24).  A writer is       *)
(* stopped on the job's account only after it has been noted where a later *)
(* cleanup finds it, and is struck off the note only when it runs again;   *)
(* the copy is made in a window in which no writer runs; and the network   *)
(* backup reads nothing but a copy made so, with every writer returned.    *)
(* Nothing is said of directories, markers, loops over units or cleanups.  *)
(***************************************************************************)

CONSTANT Units   \* every unit the inventory names

VARIABLES
  running,   \* the units that are not quite inactive
  noted,     \* those a cleanup will start
  owed,      \* those the job has stopped and not returned
  copy,      \* "none", "making" or "good"
  reading    \* the network backup reads it

contract == <<running, noted, owed, copy, reading>>

Init ==
  /\ running \in SUBSET Units
  /\ noted = {} /\ owed = {} /\ copy = "none" /\ reading = FALSE

\* Whatever the job does other than making a copy can be the end of the one
\* it has.
KeepOrDrop == copy # "making" /\ copy' \in {copy, "none"}

Note(some) ==
  /\ noted = {} /\ copy = "none" /\ ~reading
  /\ noted' = some
  /\ UNCHANGED <<running, owed, copy, reading>>

Take(some) ==
  /\ some \subseteq noted \cap running /\ copy = "none" /\ ~reading
  /\ running' = running \ some /\ owed' = owed \cup some
  /\ UNCHANGED <<noted, copy, reading>>

\* A noted unit is started even if the job was not what stopped it.
Return(some) ==
  /\ some \subseteq noted /\ ~reading
  /\ running' = running \cup some /\ owed' = owed \ some
  /\ KeepOrDrop
  /\ UNCHANGED <<noted, reading>>

Strike ==
  /\ owed = {} /\ ~reading
  /\ noted' = {}
  /\ KeepOrDrop
  /\ UNCHANGED <<running, owed, reading>>

OpenWindow ==
  /\ running = {} /\ copy = "none" /\ ~reading
  /\ copy' = "making"
  /\ UNCHANGED <<running, noted, owed, reading>>

CloseWindow ==
  /\ copy = "making"
  /\ copy' \in {"good", "none"}
  /\ UNCHANGED <<running, noted, owed, reading>>

Drop ==
  /\ copy' = "none" /\ reading' = FALSE
  /\ UNCHANGED <<running, noted, owed>>

Read ==
  /\ copy = "good" /\ owed = {}
  /\ noted' = {} /\ reading' = TRUE
  /\ UNCHANGED <<running, owed, copy>>

\* Units start, and are no longer owed then, and end by themselves, but none
\* starts in the window.
Starts(u) ==
  /\ copy # "making"
  /\ running' = running \cup {u} /\ owed' = owed \ {u}
  /\ UNCHANGED <<noted, copy, reading>>

Ends(u) ==
  /\ running' = running \ {u}
  /\ UNCHANGED <<noted, owed, copy, reading>>

\* After a power loss what runs is up to the host; the note is still there.
Outage ==
  /\ running' \in SUBSET Units
  /\ owed' = {} /\ copy' = "none" /\ reading' = FALSE
  /\ UNCHANGED noted

Next ==
  \/ \E some \in SUBSET Units : Note(some) \/ Take(some) \/ Return(some)
  \/ Strike \/ OpenWindow \/ CloseWindow \/ Drop \/ Read
  \/ \E u \in Units : Starts(u) \/ Ends(u)
  \/ Outage

Spec == Init /\ [][Next]_contract

\* What the contract comes to: no writer runs while the copy is made, the
\* network backup reads a good copy and keeps nobody waiting, and whoever is
\* down on the job's account is noted.
Safe ==
  /\ copy = "making" => running = {}
  /\ reading => copy = "good" /\ owed = {}
  /\ owed \subseteq noted
==========================================================================
