------------------------- MODULE RecoveryStaging -------------------------
(***************************************************************************)
(* The stopped-writer recovery copy, src/scripts/operations/recovery.py,   *)
(* inside the restic unit that src/modules/operations/default.nix builds   *)
(* around it:                                                              *)
(*                                                                         *)
(*   preStart      recovery cleanup, then recovery stage                   *)
(*   ExecStart     restic reads the staging directory                      *)
(*   ExecStopPost  recovery cleanup, however the unit ended                *)
(*                                                                         *)
(* The unit can be killed between any two steps, its cleanup too, and the  *)
(* machine can lose power.  Writers are systemd units, the timers that     *)
(* start some of them included, and go on living while the copy is made.   *)
(***************************************************************************)
EXTENDS Naturals

CONSTANTS
  Units,       \* every unit the inventory names
  Timers,      \* those that are timers
  Trigger,     \* the service each timer starts
  MaxEvents,   \* bound: units that start, end or are handled by people
  MaxMishaps   \* bound: commands that fail, kills of the unit's processes and
               \* power losses, taken together

ASSUME TriggerAssumption ==
  Units # {} /\ Timers \subseteq Units /\ Trigger \in [Timers -> Units \ Timers]
ASSUME LimitsAssumption ==
  MaxEvents \in Nat /\ MaxMishaps \in Nat

VARIABLES
  unit,      \* ActiveState of each writer; "activating" counts as active
  target,    \* the staging directory: does it exist, is it marked, its content
  journal,   \* the file <target>.writers: its condition and the units in it
  pc,        \* the step of the unit's process; "idle" when it does not run
  where,     \* on whose behalf: "pre", "stage", "undo", "restic" or "post"
  ok,        \* nothing has failed in this job so far
  unseen,    \* the units the sampling or verifying loop has yet to ask
  active,    \* snapshot's `active`
  down,      \* history: writers the job stopped and has not started since
  dirty,     \* history: a writer ran while the copy was made
  spent      \* how much of each bound is used

process == <<pc, where, ok, unseen, active>>
files == <<target, journal>>
vars == <<unit, target, journal, pc, where, ok, unseen, active, down, dirty, spent>>

Steps == {"idle", "claim", "resume", "unlink", "remove", "removing", "enter", "mark",
          "sample", "record", "recorded", "stop", "verify", "copy", "copying", "restic"}

Targets == [exists : BOOLEAN, marked : BOOLEAN,
            content : {"none", "partial", "complete", "foreign"}]
Journals == [file : {"absent", "torn", "whole"}, units : SUBSET Units]
Spending == [events : Nat, mishaps : Nat]

TypeOK ==
  /\ unit \in [Units -> {"active", "inactive", "deactivating"}]
  /\ target \in Targets /\ journal \in Journals /\ spent \in Spending
  /\ pc \in Steps
  /\ where \in {"pre", "stage", "undo", "restic", "post"}
  /\ ok \in BOOLEAN
  /\ unseen \in SUBSET Units /\ active \in SUBSET Units /\ down \in SUBSET Units
  /\ dirty \in BOOLEAN

NoTarget == [exists |-> FALSE, marked |-> FALSE, content |-> "none"]
NoJournal == [file |-> "absent", units |-> {}]
Running == {u \in Units : unit[u] # "inactive"}

Init ==
  /\ unit \in [Units -> {"active", "inactive"}]
  /\ target = NoTarget /\ journal = NoJournal
  /\ pc = "idle" /\ where = "post" /\ ok = FALSE /\ unseen = {} /\ active = {}
  /\ down = {} /\ dirty = FALSE
  /\ spent = [events |-> 0, mishaps |-> 0]

---------------------------------------------------------------------------
(* How the steps follow one another. *)

Goto(step, part) == pc' = step /\ where' = part

\* An exception where it is not caught ends the command.  systemd then runs
\* ExecStopPost, or has just run it.
CommandFails ==
  /\ ok' = FALSE
  /\ IF where = "post" THEN Goto("idle", "post") ELSE Goto("claim", "post")

StartJob ==
  /\ pc = "idle"
  /\ Goto("claim", "pre")
  /\ ok' = TRUE
  /\ UNCHANGED <<unit, files, unseen, active, down, dirty, spent>>

\* Variants: the marker is not asked for; it is asked for where there is no
\* directory either.
ClaimAnything ==
  /\ pc = "claim"
  /\ Goto("resume", where)
  /\ UNCHANGED <<unit, files, ok, unseen, active, down, dirty, spent>>
ClaimMarkedOnly ==
  /\ pc = "claim"
  /\ IF ~target.marked THEN CommandFails ELSE Goto("resume", where) /\ UNCHANGED ok
  /\ UNCHANGED <<unit, files, unseen, active, down, dirty, spent>>

\* cleanup: a directory without the marker is not ours to remove.
Claim ==
  /\ pc = "claim"
  /\ IF target.exists /\ ~target.marked
       THEN CommandFails
       ELSE Goto("resume", where) /\ UNCHANGED ok
  /\ UNCHANGED <<unit, files, unseen, active, down, dirty, spent>>

\* What follows a finished resume: the cleanups go on to remove the staging
\* directory, a stage that went well hands over to restic.
AfterResume ==
  \/ where \in {"pre", "post"} /\ Goto("remove", where) /\ UNCHANGED ok
  \/ where = "stage" /\ ok /\ Goto("restic", "restic") /\ UNCHANGED ok
  \/ where = "stage" /\ ~ok /\ CommandFails

\* resume: no journal, nothing to do; one cut short cannot be read.
ResumeWithout ==
  /\ pc = "resume" /\ journal.file # "whole"
  /\ IF journal.file = "torn" THEN CommandFails ELSE AfterResume
  /\ UNCHANGED <<unit, files, unseen, active, down, dirty, spent>>

\* Variant: timers are not started again.
ResumeServices ==
  /\ pc = "resume" /\ journal.file = "whole"
  /\ unit' = [u \in Units |-> IF u \in journal.units \ Timers THEN "active" ELSE unit[u]]
  /\ down' = down \ (journal.units \ Timers)
  /\ Goto("unlink", where)
  /\ UNCHANGED <<files, ok, unseen, active, dirty, spent>>

ResumeUnits ==
  /\ pc = "resume" /\ journal.file = "whole"
  /\ unit' = [u \in Units |-> IF u \in journal.units THEN "active" ELSE unit[u]]
  /\ down' = down \ journal.units
  /\ Goto("unlink", where)
  /\ UNCHANGED <<files, ok, unseen, active, dirty, spent>>

Unlink ==
  /\ pc = "unlink"
  /\ journal' = NoJournal
  /\ AfterResume
  /\ UNCHANGED <<unit, target, unseen, active, down, dirty, spent>>

---------------------------------------------------------------------------
(* Removing the staging directory: rmtree goes through the entries in no    *)
(* promised order, so the marker may be gone long before the directory is.  *)

RemoveSome ==
  /\ pc = "remove" /\ target.exists
  /\ \E marked \in {target.marked, FALSE} :
       target' = [exists |-> TRUE, marked |-> marked, content |-> "partial"]
  /\ Goto("removing", where)
  /\ UNCHANGED <<unit, journal, ok, unseen, active, down, dirty, spent>>

\* The removal ends.  After an undo the `finally` of snapshot resumes the
\* writers; after the first cleanup the stage begins; after the last one the
\* unit has ended, and with `ok` systemd's OnSuccess stamps the backup.
RemoveDone ==
  /\ pc = "removing" \/ (pc = "remove" /\ ~target.exists)
  /\ target' = NoTarget
  /\ \/ where = "pre" /\ Goto("enter", "stage")
     \/ where = "undo" /\ Goto("resume", "stage")
     \/ where = "post" /\ Goto("idle", "post")
  /\ UNCHANGED <<unit, journal, ok, unseen, active, down, dirty, spent>>

---------------------------------------------------------------------------
(* snapshot. *)

Enter ==
  /\ pc = "enter"
  /\ IF target.exists \/ journal.file # "absent"
       THEN CommandFails /\ UNCHANGED target
       ELSE /\ target' = [exists |-> TRUE, marked |-> FALSE, content |-> "none"]
            /\ Goto("mark", "stage") /\ UNCHANGED ok
  /\ active' = {} /\ dirty' = FALSE
  /\ UNCHANGED <<unit, journal, unseen, down, spent>>

Mark ==
  /\ pc = "mark"
  /\ target' = [target EXCEPT !.marked = TRUE]
  /\ Goto("sample", "stage")
  /\ unseen' = Units
  /\ UNCHANGED <<unit, journal, ok, active, down, dirty, spent>>

\* An exception inside the `try`: remove the copy, then resume.
StageFails == Goto("remove", "undo") /\ ok' = FALSE

\* One unit after the other is asked for its state, in the order of names.
Sample(u) ==
  /\ pc = "sample" /\ u \in unseen
  /\ unseen' = unseen \ {u}
  /\ IF unit[u] = "deactivating"
       THEN StageFails /\ UNCHANGED active
       ELSE /\ active' = IF unit[u] = "active" THEN active \cup {u} ELSE active
            /\ Goto(IF unseen' = {} THEN "record" ELSE "sample", "stage")
            /\ UNCHANGED ok
  /\ UNCHANGED <<unit, files, down, dirty, spent>>

\* write_text first empties the file, then fills it: two steps.
Record ==
  /\ pc = "record"
  /\ journal' = [file |-> "torn", units |-> {}]
  /\ Goto("recorded", "stage")
  /\ UNCHANGED <<unit, target, ok, unseen, active, down, dirty, spent>>

Recorded ==
  /\ pc = "recorded"
  /\ journal' = [file |-> "whole", units |-> active]
  /\ Goto("stop", "stage")
  /\ UNCHANGED <<unit, target, ok, unseen, active, down, dirty, spent>>

Stop ==
  /\ pc = "stop"
  /\ unit' = [u \in Units |-> IF u \in active THEN "inactive" ELSE unit[u]]
  /\ down' = down \cup (active \cap Running)
  /\ unseen' = Units
  /\ Goto("verify", "stage")
  /\ UNCHANGED <<files, ok, active, dirty, spent>>

\* Variant: only the units that were stopped are asked again.
VerifyStopped(u) ==
  /\ pc = "verify" /\ u \in unseen
  /\ unseen' = unseen \ {u}
  /\ IF u \in active /\ unit[u] # "inactive"
       THEN StageFails
       ELSE Goto(IF unseen' = {} THEN "copy" ELSE "verify", "stage") /\ UNCHANGED ok
  /\ UNCHANGED <<unit, files, active, down, dirty, spent>>

Verify(u) ==
  /\ pc = "verify" /\ u \in unseen
  /\ unseen' = unseen \ {u}
  /\ IF unit[u] # "inactive"
       THEN StageFails
       ELSE Goto(IF unseen' = {} THEN "copy" ELSE "verify", "stage") /\ UNCHANGED ok
  /\ UNCHANGED <<unit, files, active, down, dirty, spent>>

\* The prepare commands, the database dumps and the copies of the state
\* directories; at the end the manifest, and then the `finally`.
Copy ==
  /\ pc = "copy"
  /\ target' = [target EXCEPT !.content = "partial"]
  /\ dirty' = (Running # {})
  /\ Goto("copying", "stage")
  /\ UNCHANGED <<unit, journal, ok, unseen, active, down, spent>>

CopyDone ==
  /\ pc = "copying"
  /\ target' = [target EXCEPT !.content = "complete"]
  /\ Goto("resume", "stage")
  /\ UNCHANGED <<unit, journal, ok, unseen, active, down, dirty, spent>>

Restic ==
  /\ pc = "restic"
  /\ Goto("claim", "post")
  /\ UNCHANGED <<unit, files, ok, unseen, active, down, dirty, spent>>

---------------------------------------------------------------------------
(* What goes wrong. *)

Mishap == spent.mishaps < MaxMishaps /\ spent' = [spent EXCEPT !.mishaps = @ + 1]

\* A systemctl that fails or is killed has stopped or started some of its units.
HalfDone ==
  \/ /\ pc = "stop"
     /\ \E some \in SUBSET (active \cap Running) :
          /\ unit' = [u \in Units |-> IF u \in some THEN "inactive" ELSE unit[u]]
          /\ down' = down \cup some
  \/ /\ pc = "resume" /\ journal.file = "whole"
     /\ \E some \in SUBSET journal.units :
          /\ unit' = [u \in Units |-> IF u \in some THEN "active" ELSE unit[u]]
          /\ down' = down \ some
  \/ /\ pc # "stop" /\ ~(pc = "resume" /\ journal.file = "whole")
     /\ UNCHANGED <<unit, down>>

\* mkdir or the marker cannot be written: not yet inside the `try`.
EnterFaults ==
  /\ pc \in {"enter", "mark"}
  /\ CommandFails
  /\ Mishap
  /\ UNCHANGED <<unit, files, unseen, active, down, dirty>>

\* systemctl, a prepare command, a dump, cp or a write fails inside the `try`.
TryFaults ==
  /\ pc \in {"sample", "record", "recorded", "stop", "verify", "copy", "copying"}
  /\ StageFails
  /\ Mishap
  /\ HalfDone
  /\ UNCHANGED <<files, unseen, active, dirty>>

\* systemctl start fails, or the journal cannot be unlinked.
ResumeFaults ==
  /\ \/ pc = "resume" /\ journal.file = "whole"
     \/ pc = "unlink"
  /\ CommandFails
  /\ Mishap
  /\ HalfDone
  /\ UNCHANGED <<files, unseen, active, dirty>>

\* rmtree raises.  Raised while undoing, the `finally` still resumes.
RemoveFaults ==
  /\ pc \in {"remove", "removing"} /\ target.exists
  /\ IF where = "undo" THEN Goto("resume", "stage") /\ UNCHANGED ok ELSE CommandFails
  /\ Mishap
  /\ UNCHANGED <<unit, files, unseen, active, down, dirty>>

ResticFaults ==
  /\ pc = "restic"
  /\ CommandFails
  /\ Mishap
  /\ UNCHANGED <<unit, files, unseen, active, down, dirty>>

\* SIGTERM or SIGKILL: nothing of Python's cleanup runs.  A unit that is
\* stopped goes on to ExecStopPost; a cleanup past TimeoutStopSec is gone.
Kill ==
  /\ pc # "idle"
  /\ CommandFails
  /\ Mishap
  /\ HalfDone
  /\ UNCHANGED <<files, unseen, active, dirty>>

\* Power is lost and the host comes up again; what it starts is up to it.
PowerLoss ==
  /\ Mishap
  /\ Goto("idle", "post") /\ ok' = FALSE
  /\ unit' \in [Units -> {"active", "inactive"}]
  /\ down' = {}
  /\ UNCHANGED <<files, unseen, active, dirty>>

---------------------------------------------------------------------------
(* The writers' own life. *)

Event == spent.events < MaxEvents /\ spent' = [spent EXCEPT !.events = @ + 1]

Begins(u) ==
  /\ unit[u] = "inactive"
  /\ unit' = [unit EXCEPT ![u] = "active"]
  /\ down' = down \ {u}
  /\ dirty' = (dirty \/ pc = "copying")

\* An active timer starts its service, whenever it likes.
TimerFires(t) ==
  /\ unit[t] = "active" /\ Begins(Trigger[t])
  /\ Event
  /\ UNCHANGED <<files, process>>

\* A service ends by itself or falls over.
ServiceEnds(u) ==
  /\ u \notin Timers /\ unit[u] = "active"
  /\ unit' = [unit EXCEPT ![u] = "deactivating"]
  /\ Event
  /\ UNCHANGED <<files, process, down, dirty>>

Settles(u) ==
  /\ unit[u] = "deactivating"
  /\ unit' = [unit EXCEPT ![u] = "inactive"]
  /\ UNCHANGED <<files, process, down, dirty, spent>>

\* People stop writers whenever they like and start them while no backup runs
\* (docs/operations.md:29 asks them not to in the maintenance window).
Operate(u) ==
  /\ \/ pc = "idle" /\ Begins(u)
     \/ /\ unit[u] = "active"
        /\ unit' = [unit EXCEPT ![u] = "inactive"]
        /\ UNCHANGED <<down, dirty>>
  /\ Event
  /\ UNCHANGED <<files, process>>

\* The operator puts something else where the staging directory goes, or
\* clears away what no cleanup would touch.
Handle ==
  /\ pc = "idle"
  /\ target' = IF target.exists THEN NoTarget
               ELSE [exists |-> TRUE, marked |-> FALSE, content |-> "foreign"]
  /\ ~target.marked
  /\ Event
  /\ UNCHANGED <<unit, journal, process, down, dirty>>

---------------------------------------------------------------------------
Job ==
  \/ StartJob \/ Claim \/ ResumeWithout \/ ResumeUnits \/ Unlink
  \/ RemoveSome \/ RemoveDone
  \/ Enter \/ Mark \/ Record \/ Recorded \/ Stop \/ Copy \/ CopyDone \/ Restic
  \/ \E u \in Units : Sample(u) \/ Verify(u)

Failure ==
  EnterFaults \/ TryFaults \/ ResumeFaults \/ RemoveFaults \/ ResticFaults \/ Kill

Writers ==
  \/ \E t \in Timers : TimerFires(t)
  \/ \E u \in Units : ServiceEnds(u) \/ Settles(u)

People == Handle \/ \E u \in Units : Operate(u)

Next == Job \/ Failure \/ PowerLoss \/ Writers \/ People

Spec == Init /\ [][Next]_vars

\* The host's schedule starts the job again and again, no command waits for
\* ever, and a unit that is stopping stops.
FairSpec == Spec /\ WF_vars(Job) /\ WF_vars(\E u \in Units : Settles(u))

---------------------------------------------------------------------------
(* Properties. *)

\* What restic reads is a whole copy that no writer, timer-started ones
\* included, could change while it was made; a partial copy is never
\* presented as successful (docs/operations.md:22).
ResticReadsConsistentCopy == pc = "restic" => target.content = "complete" /\ ~dirty

\* Writers are back before the network backup begins.
WritersBackBeforeRestic == pc = "restic" => down = {} /\ journal.file = "absent"

\* Whom a cleanup will start, and what the staging directory is worth.
Noted == IF journal.file = "whole" THEN journal.units ELSE {}
Copied ==
  /\ pc \in {"resume", "unlink", "restic"} /\ where \in {"stage", "restic"} /\ ok
  /\ target.content = "complete" /\ ~dirty
CopyNow == IF pc = "copying" THEN "making" ELSE IF Copied THEN "good" ELSE "none"

Window == INSTANCE MaintenanceWindow WITH
  running <- Running, noted <- Noted, owed <- down, copy <- CopyNow,
  reading <- (pc = "restic")

\* The job keeps the contract of MaintenanceWindow (docs/operations.md:17-24):
\* writers are stopped only after they have been noted and given back before
\* the note goes, no writer runs, nor any timer starts one, while the copy is
\* made, and restic reads only a copy made so, with all writers back.
KeepsWindow == Window!Spec

\* No writer is ever down on the job's account without a whole journal on
\* disk that names it: whenever the process dies, a resume can start it.
DownIsJournaled == down # {} => journal.file = "whole" /\ down \subseteq journal.units

\* No step of the job touches a directory that is not its own, nor stages into
\* one: only the operator, between jobs, makes it go away.
ForeignKept ==
  [][target.content = "foreign" /\ pc # "idle" => UNCHANGED target]_vars

\* A directory without its marker makes every cleanup refuse, before it looks
\* at the journal; a journal cut short makes every resume fail.
Unclaimable == target.exists /\ ~target.marked
Stuck == Unclaimable \/ journal.file = "torn"

\* "Systemd cleanup also resumes writers after an interrupted staging command"
\* (docs/operations.md:21): writers that the job stopped come back.
InterruptedStagingResumed == down # {} ~> down = {}

\* They do come back, after failed starts, kills of the cleanup itself or a
\* failed removal too, unless the marker has gone before the directory.
DownOnlyIfUnclaimable == down # {} ~> (down = {} \/ Unclaimable)

\* Backups go on succeeding unless the staging directory or the journal is in
\* a state that no later job gets past.
BackupsGoOn == []<>(pc = "idle" /\ ok) \/ <>[]Stuck

---------------------------------------------------------------------------
(* The inductive invariant behind the first three properties. *)

\* Which steps run on whose behalf, and when a job can still be in order.
ControlInv ==
  /\ pc \in {"enter", "mark", "sample", "record", "recorded", "stop", "verify",
             "copy", "copying"} => where = "stage"
  /\ pc = "claim" => where \in {"pre", "post"}
  /\ pc \in {"resume", "unlink"} => where \in {"pre", "stage", "post"}
  /\ pc \in {"remove", "removing"} => where \in {"pre", "undo", "post"}
  /\ pc = "restic" => where = "restic"
  /\ where = "undo" => ~ok

\* The journal along the steps that write and read it.
JournalInv ==
  /\ pc \in {"mark", "sample", "record"} => journal.file = "absent"
  /\ pc = "recorded" => journal.file = "torn"
  /\ pc \in {"stop", "verify", "copy", "copying"} =>
       journal.file = "whole" /\ journal.units = active
  /\ pc = "unlink" => down = {}

\* A timer that was sampled inactive stays so, and the stop takes the others
\* down: no service begins between its verification and the end of the copy.
QuietInv ==
  /\ pc = "sample" => \A t \in Timers \ unseen : t \in active \/ unit[t] = "inactive"
  /\ pc \in {"record", "recorded", "stop"} =>
       \A t \in Timers : t \in active \/ unit[t] = "inactive"
  /\ pc = "verify" =>
       /\ \A t \in Timers : unit[t] = "inactive"
       /\ \A u \in Units \ unseen : unit[u] = "inactive"
  /\ pc \in {"copy", "copying"} => \A u \in Units : unit[u] = "inactive"
  /\ pc = "copying" => ~dirty

\* The copy is whole from its end until restic has read it.
CopyInv ==
  /\ pc \in {"resume", "unlink"} /\ where = "stage" /\ ok =>
       target.content = "complete" /\ ~dirty
  /\ ResticReadsConsistentCopy

IInv ==
  /\ TypeOK /\ ControlInv /\ JournalInv /\ QuietInv /\ CopyInv
  /\ DownIsJournaled /\ WritersBackBeforeRestic
==========================================================================
