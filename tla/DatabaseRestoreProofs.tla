---------------------- MODULE DatabaseRestoreProofs ----------------------
(***************************************************************************)
(* The restore runs alone, for every inventory and any number of failures, *)
(* kills, power losses and timer-started services, unless a backup job     *)
(* owes a writer a start while the command asks.                           *)
(***************************************************************************)
EXTENDS DatabaseRestore, RecoveryStagingProofs

USE TriggerAssumption

---------------------------------------------------------------------------
(* Types. *)

\* The composed system starts with its types.
LEMMA RestoreTypeInit == RestoreInit => TypeOK /\ RestoreTypeOK
  BY TypeInit DEF RestoreInit, RestoreTypeOK

\* Every step of it is a step of the backup job and the writers, or leaves
\* them alone.
LEMMA BesideIsNext ==
  RestoreNext => Next \/ UNCHANGED vars
  BY DEF RestoreNext, Command, Connect, Leave, Beside, Outage, Ask, Next

\* Types are preserved.
LEMMA RestoreTypeStep ==
  ASSUME TypeOK, RestoreTypeOK, RestoreNext PROVE TypeOK' /\ RestoreTypeOK'
<1>1. TypeOK'
  <2>1. CASE UNCHANGED vars BY <2>1 DEF vars, TypeOK
  <2>2. CASE Next BY <2>2, TypeJob, TypeFailure, TypeWriters DEF Next
  <2> QED BY <2>1, <2>2, BesideIsNext
<1>2. RestoreTypeOK'
  BY DEF RestoreTypeOK, RestoreNext, Command, Connect, Leave, Beside, Watch, Outage, Ask
<1> QED BY <1>1, <1>2

---------------------------------------------------------------------------
(* The backup job, as far as the restore is concerned. *)

\* What the backup job means to stop is recorded first.
LEMMA StopStep == ASSUME StopInv, Next PROVE StopInv'
<1> USE DEF StopInv, Goto, CommandFails, AfterResume, StageFails, files, process
<1>1. ASSUME Job PROVE StopInv'
  BY <1>1 DEF Job, StartJob, Claim, ResumeWithout, ResumeUnits, Unlink, RemoveSome, RemoveDone,
     Enter, Mark, Record, Recorded, Stop, Copy, CopyDone, Restic, Sample, Verify
<1>2. ASSUME Failure PROVE StopInv'
  BY <1>2 DEF Failure, EnterFaults, TryFaults, ResumeFaults, RemoveFaults, ResticFaults, Kill
<1>3. ASSUME PowerLoss PROVE StopInv'
  BY <1>3 DEF PowerLoss
<1>4. ASSUME Writers \/ People PROVE StopInv'
  BY <1>4 DEF Writers, People, TimerFires, ServiceEnds, Settles, Handle, Operate
<1> QED BY <1>1, <1>2, <1>3, <1>4 DEF Next

\* No unit begins but a service of an active timer, no timer ends, and where
\* no unit runs no start becomes owed.
Calm ==
  /\ \A u \in Units : unit[u] = "inactive" =>
       unit'[u] = "inactive" \/ (u \notin Timers /\ \E t \in Timers : unit[t] = "active" /\ Trigger[t] = u)
  /\ \A t \in Timers : unit[t] = "active" => unit'[t] = "active"
  /\ Running = {} => Owed' = {}

\* While it owes no start, the backup job is calm.
LEMMA JobCalm == ASSUME TypeOK, StopInv, Owed = {}, Job PROVE Calm
<1> USE JournalUnits DEF Calm, TypeOK, StopInv, Owed, Running, Goto, CommandFails, AfterResume, StageFails, files
<1>1. CASE StartJob BY <1>1 DEF StartJob
<1>2. CASE Claim BY <1>2 DEF Claim
<1>3. CASE ResumeWithout BY <1>3 DEF ResumeWithout
<1>4. CASE ResumeUnits BY <1>4 DEF ResumeUnits
<1>5. CASE Unlink BY <1>5 DEF Unlink, NoJournal
<1>6. CASE RemoveSome BY <1>6 DEF RemoveSome
<1>7. CASE RemoveDone BY <1>7 DEF RemoveDone
<1>8. CASE Enter BY <1>8 DEF Enter
<1>9. CASE Mark BY <1>9 DEF Mark
<1>10. CASE Record BY <1>10 DEF Record
<1>11. CASE Recorded BY <1>11 DEF Recorded
<1>12. CASE Stop BY <1>12 DEF Stop
<1>13. CASE Copy BY <1>13 DEF Copy
<1>14. CASE CopyDone BY <1>14 DEF CopyDone
<1>15. CASE Restic BY <1>15 DEF Restic
<1>16. ASSUME NEW u \in Units, Sample(u) PROVE Calm BY <1>16 DEF Sample
<1>17. ASSUME NEW u \in Units, Verify(u) PROVE Calm BY <1>17 DEF Verify
<1> QED BY <1>1, <1>2, <1>3, <1>4, <1>5, <1>6, <1>7, <1>8, <1>9, <1>10, <1>11,
           <1>12, <1>13, <1>14, <1>15, <1>16, <1>17 DEF Job

\* So is its failing.
LEMMA FailureCalm == ASSUME TypeOK, StopInv, Owed = {}, Failure PROVE Calm
<1> USE JournalUnits DEF Calm, TypeOK, StopInv, Owed, Goto, CommandFails, StageFails, HalfDone, files
<1>1. CASE EnterFaults BY <1>1 DEF EnterFaults
<1>2. CASE TryFaults BY <1>2 DEF TryFaults
<1>3. CASE ResumeFaults BY <1>3 DEF ResumeFaults
<1>4. CASE RemoveFaults BY <1>4 DEF RemoveFaults
<1>5. CASE ResticFaults BY <1>5 DEF ResticFaults
<1>6. CASE Kill BY <1>6 DEF Kill
<1> QED BY <1>1, <1>2, <1>3, <1>4, <1>5, <1>6 DEF Failure

\* And so are the writers by themselves.
LEMMA WritersCalm == ASSUME TypeOK, Owed = {}, Writers PROVE Calm
<1> USE DEF Calm, TypeOK, Owed, files, process
<1>1. ASSUME NEW t \in Timers, TimerFires(t) PROVE Calm BY <1>1 DEF TimerFires, Begins
<1>2. ASSUME NEW u \in Units, ServiceEnds(u) PROVE Calm BY <1>2 DEF ServiceEnds
<1>3. ASSUME NEW u \in Units, Settles(u) PROVE Calm BY <1>3 DEF Settles
<1> QED BY <1>1, <1>2, <1>3 DEF Writers

---------------------------------------------------------------------------
(* The inductive invariant. *)

\* No command has begun in an initial state.
LEMMA RestoreInitInv == RestoreInit => RestoreIInv
  BY RestoreTypeInit DEF RestoreInit, RestoreIInv, Init, StopInv, AskingInv, RestoringInv

\* What the command has asked stays down while it asks on and restores.
LEMMA RestoreStep == ASSUME RestoreIInv, RestoreNext PROVE AskingInv' /\ RestoringInv'
<1> USE DEF RestoreIInv, AskingInv, RestoringInv, MayBegin
<1>1. CASE Command BY <1>1 DEF Command, vars, Owed
<1>2. CASE Connect BY <1>2 DEF Connect, vars, Owed, Running
<1>3. CASE Leave BY <1>3 DEF Leave
<1>4. CASE Outage BY <1>4 DEF Outage
<1>5. ASSUME NEW u \in Units, Ask(u) PROVE AskingInv' /\ RestoringInv'
  BY <1>5 DEF Ask, vars, Owed
<1>6. CASE Beside
  <2>1. step' = step /\ unasked' = unasked /\ (clear' => clear)
        /\ (clear' /\ step = "asking" => Owed' = {})
    BY <1>6 DEF Beside, Watch
  <2>2. ASSUME clear, step # "away" PROVE Calm
    BY <1>6, <2>2, JobCalm, FailureCalm, WritersCalm DEF Beside, RestoreTypeOK
  <2>3. AskingInv'
    BY <2>1, <2>2, TriggerAssumption DEF Calm
  <2>4. RestoringInv'
    BY <2>1, <2>2, TriggerAssumption DEF Calm, Running
  <2> QED BY <2>3, <2>4
<1> QED BY <1>1, <1>2, <1>3, <1>4, <1>5, <1>6 DEF RestoreNext

\* The invariant of the job and of the command beside it.
THEOREM RestoreSafety == RestoreSpec => []RestoreIInv
<1>1. RestoreIInv /\ [RestoreNext]_<<vars, command>> => RestoreIInv'
  <2> SUFFICES ASSUME RestoreIInv, [RestoreNext]_<<vars, command>> PROVE RestoreIInv'
    OBVIOUS
  <2>1. CASE UNCHANGED <<vars, command>>
    BY <2>1 DEF vars, command, RestoreIInv, TypeOK, RestoreTypeOK, StopInv, AskingInv,
                RestoringInv, MayBegin, Owed, Running
  <2>2. CASE RestoreNext
    <3>1. TypeOK' /\ RestoreTypeOK'
      BY <2>2, RestoreTypeStep DEF RestoreIInv
    <3>2. StopInv'
      <4>1. CASE UNCHANGED vars BY <4>1 DEF vars, RestoreIInv, StopInv
      <4>2. CASE Next BY <4>2, StopStep DEF RestoreIInv
      <4> QED BY <2>2, <4>1, <4>2, BesideIsNext
    <3> QED BY <2>2, <3>1, <3>2, RestoreStep DEF RestoreIInv
  <2> QED BY <2>1, <2>2
<1> QED BY <1>1, RestoreInitInv, PTL DEF RestoreSpec

\* No writer runs while pg_restore does, unless a backup job owed one a start
\* before: timers, failures, power losses and backups that begin during the
\* restore included.
THEOREM Alone == RestoreSpec => []RestoreAlone
<1>1. RestoreIInv => RestoreAlone
  BY DEF RestoreIInv, RestoringInv, RestoreAlone, NoWriterDuringRestore
<1> QED BY <1>1, RestoreSafety, PTL
---------------------------------------------------------------------------
(* What the restore leaves alone. *)

\* Seen without the command, a behaviour of the two is one of the backup job:
\* the restore neither waits for the job nor holds it up (the two take no
\* common lock), so whatever is proved of the job alone holds beside a restore.
THEOREM BesideIsStaging == RestoreSpec => Spec
<1>1. RestoreInit => Init
  BY DEF RestoreInit
<1>2. [RestoreNext]_<<vars, command>> => [Next]_vars
  BY BesideIsNext DEF vars
<1> QED BY <1>1, <1>2, PTL DEF RestoreSpec, Spec

\* The job keeps the contract of the maintenance window beside a restore too:
\* restic never reads a copy made while a writer ran, and no writer that the
\* job stopped is forgotten, whatever the restoring operator does meanwhile.
THEOREM WindowBesideRestore == RestoreSpec => KeepsWindow
  BY BesideIsStaging, WindowKept
==========================================================================
