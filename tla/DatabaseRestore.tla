------------------------ MODULE DatabaseRestore ------------------------
(***************************************************************************)
(* The attended database restore, src/scripts/operations/restore_postgres.py, *)
(* beside the backup job of RecoveryStaging, which stops and starts the    *)
(* same writers.  The command asks every unit of the inventory once, one   *)
(* after the other, and then replaces the objects of the database in one   *)
(* transaction.                                                            *)
(***************************************************************************)
EXTENDS RecoveryStaging

VARIABLES
  step,      \* the command: "away", "asking" or "restoring"
  unasked,   \* the units whose state it has yet to ask
  clear      \* history: from its start until pg_restore, no backup job owed
             \* any writer a start

command == <<step, unasked, clear>>

RestoreTypeOK ==
  /\ step \in {"away", "asking", "restoring"}
  /\ unasked \in SUBSET Units
  /\ clear \in BOOLEAN

RestoreInit == Init /\ step = "away" /\ unasked = {} /\ clear = FALSE

\* The writers that a backup job, the present one or a later one that finds
\* the journal, will start: those recorded or about to be.
Owed ==
  (IF journal.file = "whole" THEN journal.units ELSE {}) \cup
  (IF pc \in {"sample", "record", "recorded"} THEN active ELSE {})

---------------------------------------------------------------------------
(* The command.  That every unit is loaded depends on the configuration     *)
(* only and is taken to hold.                                               *)

Command ==
  /\ step = "away"
  /\ step' = "asking" /\ unasked' = Units
  /\ clear' = (Owed = {})
  /\ UNCHANGED vars

\* Variant: timers are not asked.
AskServices(u) ==
  /\ step = "asking" /\ u \in unasked
  /\ IF u \notin Timers /\ unit[u] # "inactive"
       THEN step' = "away" /\ unasked' = {}
       ELSE unasked' = unasked \ {u} /\ UNCHANGED step
  /\ UNCHANGED <<vars, clear>>

\* "inactive" and "failed" let the restore go on, every other state ends it.
Ask(u) ==
  /\ step = "asking" /\ u \in unasked
  /\ IF unit[u] # "inactive"
       THEN step' = "away" /\ unasked' = {}
       ELSE unasked' = unasked \ {u} /\ UNCHANGED step
  /\ UNCHANGED <<vars, clear>>

Connect ==
  /\ step = "asking" /\ unasked = {}
  /\ step' = "restoring"
  /\ UNCHANGED <<vars, unasked, clear>>

\* pg_restore commits or rolls back, systemctl fails, or people interrupt it.
Leave ==
  /\ step # "away"
  /\ step' = "away" /\ unasked' = {}
  /\ UNCHANGED <<vars, clear>>

---------------------------------------------------------------------------
(* Everything else goes on.  People handle no writer while they attend the *)
(* command, and a power loss ends it.                                       *)

Watch == clear' = (clear /\ (step = "asking" => Owed' = {}))

Beside ==
  /\ \/ Job \/ Failure \/ Writers
     \/ step = "away" /\ People
  /\ Watch
  /\ UNCHANGED <<step, unasked>>

Outage ==
  /\ PowerLoss
  /\ step' = "away" /\ unasked' = {}
  /\ UNCHANGED clear

RestoreNext ==
  \/ Command \/ Connect \/ Leave \/ Beside \/ Outage
  \/ \E u \in Units : Ask(u)

RestoreSpec == RestoreInit /\ [][RestoreNext]_<<vars, command>>

---------------------------------------------------------------------------
(* Properties. *)

\* The command "refuses active writers" (docs/operations.md:90), which it asks
\* for so that nothing writes to the database it replaces: no writer runs
\* while pg_restore does.
NoWriterDuringRestore == step = "restoring" => Running = {}

\* It does keep that promise if no backup job owes a writer a start when the
\* command begins or while it asks: timers that are asked after the service
\* they start, and backups that begin during pg_restore, do no harm.
RestoreAlone == clear => NoWriterDuringRestore

---------------------------------------------------------------------------
(* The inductive invariant behind RestoreAlone. *)

\* A writer that has been asked can only be started by a timer that is active
\* and still to be asked.
MayBegin(u) == \E t \in Timers \cap unasked : unit[t] = "active" /\ Trigger[t] = u

AskingInv ==
  step = "asking" /\ clear =>
    /\ Owed = {}
    /\ \A u \in Units \ unasked : unit[u] = "inactive" \/ (u \notin Timers /\ MayBegin(u))

RestoringInv == step = "restoring" /\ clear => Owed = {} /\ Running = {}

\* The sampling begins with no unit, and what is about to be stopped is what
\* the journal names.
StopInv ==
  /\ pc = "mark" => active = {}
  /\ pc = "stop" => journal = [file |-> "whole", units |-> active]

RestoreIInv == TypeOK /\ RestoreTypeOK /\ StopInv /\ AskingInv /\ RestoringInv
==========================================================================
