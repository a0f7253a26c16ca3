---------------------- MODULE RecoveryStagingProofs ----------------------
(***************************************************************************)
(* What holds of the recovery job for every inventory, any number of units *)
(* and timers and any number of failures, kills and power losses.          *)
(***************************************************************************)
EXTENDS RecoveryStaging, TLAPS

USE TriggerAssumption

---------------------------------------------------------------------------
(* Type correctness. *)

\* The values the steps assign to the three records.
LEMMA RecordTypes ==
  /\ NoTarget \in Targets
  /\ \A m \in BOOLEAN, c \in {"none", "partial", "complete", "foreign"} :
       [exists |-> TRUE, marked |-> m, content |-> c] \in Targets
  /\ NoJournal \in Journals
  /\ \A f \in {"torn", "whole"}, s \in SUBSET Units : [file |-> f, units |-> s] \in Journals
  BY DEF Targets, Journals, NoTarget, NoJournal

\* Changing one field of the target record keeps its type.
LEMMA TargetStep ==
  ASSUME target \in Targets
  PROVE  /\ target.exists \in BOOLEAN /\ target.marked \in BOOLEAN
         /\ [target EXCEPT !.marked = TRUE] \in Targets
         /\ [target EXCEPT !.content = "partial"] \in Targets
         /\ [target EXCEPT !.content = "complete"] \in Targets
  BY DEF Targets

\* Counting an event or a mishap keeps the counters' type.
LEMMA SpentStep ==
  ASSUME spent \in Spending
  PROVE  /\ [spent EXCEPT !.events = @ + 1] \in Spending
         /\ [spent EXCEPT !.mishaps = @ + 1] \in Spending
  BY DEF Spending

\* What the journal file can be and whom it can name.
LEMMA JournalUnits ==
  journal \in Journals =>
    journal.units \subseteq Units /\ journal.file \in {"absent", "torn", "whole"}
  BY DEF Journals

\* The initial states have their types.
LEMMA TypeInit == Init => TypeOK
<1> SUFFICES ASSUME Init PROVE TypeOK
  OBVIOUS
<1>1. spent \in Spending
  BY DEF Init, Spending
<1> QED
  BY <1>1, RecordTypes DEF Init, TypeOK, Steps

\* The job's own steps preserve the types.
LEMMA TypeJob == ASSUME TypeOK, Job PROVE TypeOK'
<1> USE RecordTypes, TargetStep, SpentStep, JournalUnits
        DEF TypeOK, Steps, Goto, CommandFails, AfterResume, StageFails, files
<1>1. CASE StartJob BY <1>1 DEF StartJob
<1>2. CASE Claim BY <1>2 DEF Claim
<1>3. CASE ResumeWithout BY <1>3 DEF ResumeWithout
<1>4. CASE ResumeUnits BY <1>4 DEF ResumeUnits
<1>5. CASE Unlink BY <1>5 DEF Unlink
<1>6. CASE RemoveSome BY <1>6 DEF RemoveSome
<1>7. CASE RemoveDone BY <1>7 DEF RemoveDone
<1>8. CASE Enter BY <1>8 DEF Enter
<1>9. CASE Mark BY <1>9 DEF Mark
<1>10. CASE Record BY <1>10 DEF Record
<1>11. CASE Recorded BY <1>11 DEF Recorded
<1>12. CASE Stop BY <1>12 DEF Stop
<1>13. CASE Copy BY <1>13 DEF Copy
<1>14. CASE CopyDone BY <1>14 DEF CopyDone
<1>15. CASE Restic BY <1>15 DEF Restic
<1>16. ASSUME NEW u \in Units, Sample(u) PROVE TypeOK' BY <1>16 DEF Sample
<1>17. ASSUME NEW u \in Units, Verify(u) PROVE TypeOK' BY <1>17 DEF Verify
<1> QED BY <1>1, <1>2, <1>3, <1>4, <1>5, <1>6, <1>7, <1>8, <1>9, <1>10, <1>11,
           <1>12, <1>13, <1>14, <1>15, <1>16, <1>17 DEF Job

\* So do the steps that go wrong.
LEMMA TypeFailure == ASSUME TypeOK, Failure \/ PowerLoss PROVE TypeOK'
<1> USE SpentStep, JournalUnits
        DEF TypeOK, Steps, Goto, CommandFails, StageFails, Mishap, HalfDone, files
<1>1. CASE EnterFaults BY <1>1 DEF EnterFaults
<1>2. CASE TryFaults BY <1>2 DEF TryFaults
<1>3. CASE ResumeFaults BY <1>3 DEF ResumeFaults
<1>4. CASE RemoveFaults BY <1>4 DEF RemoveFaults
<1>5. CASE ResticFaults BY <1>5 DEF ResticFaults
<1>6. CASE Kill BY <1>6 DEF Kill
<1>7. CASE PowerLoss BY <1>7 DEF PowerLoss
<1> QED BY <1>1, <1>2, <1>3, <1>4, <1>5, <1>6, <1>7 DEF Failure

\* And the steps of the writers and the operator.
LEMMA TypeWriters == ASSUME TypeOK, Writers \/ People PROVE TypeOK'
<1> USE SpentStep, RecordTypes DEF TypeOK, Steps, Event, Begins, files, process
<1>1. ASSUME NEW t \in Timers, TimerFires(t) PROVE TypeOK' BY <1>1 DEF TimerFires
<1>2. ASSUME NEW u \in Units, ServiceEnds(u) PROVE TypeOK' BY <1>2 DEF ServiceEnds
<1>3. ASSUME NEW u \in Units, Settles(u) PROVE TypeOK' BY <1>3 DEF Settles
<1>4. ASSUME NEW u \in Units, Operate(u) PROVE TypeOK' BY <1>4 DEF Operate
<1>5. CASE Handle BY <1>5 DEF Handle
<1> QED BY <1>1, <1>2, <1>3, <1>4, <1>5 DEF Writers, People

\* Every state of every behaviour of the job, its failures and the writers
\* around it has the types of TypeOK.
THEOREM TypeCorrect == Spec => []TypeOK
<1>1. TypeOK /\ [Next]_vars => TypeOK'
  <2> SUFFICES ASSUME TypeOK, [Next]_vars PROVE TypeOK'
    OBVIOUS
  <2>1. CASE UNCHANGED vars BY <2>1 DEF vars, TypeOK
  <2> QED BY <2>1, TypeJob, TypeFailure, TypeWriters DEF Next
<1> QED BY <1>1, TypeInit, PTL DEF Spec

---------------------------------------------------------------------------
(* The inductive invariant. *)

Core ==
  /\ ControlInv /\ JournalInv /\ QuietInv /\ CopyInv
  /\ DownIsJournaled /\ WritersBackBeforeRestic

\* No job has begun in an initial state.
LEMMA CoreInit == Init => Core
  BY DEF Init, Core, ControlInv, JournalInv, QuietInv, CopyInv, ResticReadsConsistentCopy,
         DownIsJournaled, WritersBackBeforeRestic

\* The job's own steps preserve the invariant.
LEMMA CoreJob == ASSUME TypeOK, Core, Job PROVE Core'
<1> USE DEF Core, TypeOK, ControlInv, JournalInv, QuietInv, CopyInv, ResticReadsConsistentCopy,
            DownIsJournaled, WritersBackBeforeRestic,
            Goto, CommandFails, AfterResume, StageFails, files, process, Mishap, Event, Begins
<1>1. CASE StartJob BY <1>1 DEF StartJob
<1>2. CASE Claim BY <1>2 DEF Claim
<1>3. CASE ResumeWithout BY <1>3, JournalUnits DEF ResumeWithout
<1>4. CASE ResumeUnits BY <1>4 DEF ResumeUnits
<1>5. CASE Unlink BY <1>5 DEF Unlink, NoJournal
<1>6. CASE RemoveSome BY <1>6 DEF RemoveSome
<1>7. CASE RemoveDone BY <1>7 DEF RemoveDone
<1>8. CASE Enter BY <1>8 DEF Enter
<1>9. CASE Mark BY <1>9 DEF Mark
<1>10. CASE Record BY <1>10 DEF Record
<1>11. CASE Recorded BY <1>11 DEF Recorded
<1>12. CASE Stop BY <1>12 DEF Stop
<1>13. CASE Copy BY <1>13 DEF Copy, Running
<1>14. CASE CopyDone BY <1>14 DEF CopyDone
<1>15. CASE Restic BY <1>15 DEF Restic
<1>16. ASSUME NEW u \in Units, Sample(u) PROVE Core' BY <1>16 DEF Sample
<1>17. ASSUME NEW u \in Units, Verify(u) PROVE Core' BY <1>17 DEF Verify
<1> QED BY <1>1, <1>2, <1>3, <1>4, <1>5, <1>6, <1>7, <1>8, <1>9, <1>10, <1>11, <1>12, <1>13, <1>14, <1>15, <1>16, <1>17 DEF Job

\* Failures, kills and power losses do too.
LEMMA CoreFailure == ASSUME TypeOK, Core, Failure \/ PowerLoss PROVE Core'
<1> USE DEF Core, TypeOK, ControlInv, JournalInv, QuietInv, CopyInv, ResticReadsConsistentCopy,
            DownIsJournaled, WritersBackBeforeRestic,
            Goto, CommandFails, AfterResume, StageFails, files, process, Mishap, HalfDone, Event, Begins
<1>1. CASE EnterFaults BY <1>1 DEF EnterFaults
<1>2. CASE TryFaults BY <1>2 DEF TryFaults
<1>3. CASE ResumeFaults BY <1>3 DEF ResumeFaults
<1>4. CASE RemoveFaults BY <1>4 DEF RemoveFaults
<1>5. CASE ResticFaults BY <1>5 DEF ResticFaults
<1>6. CASE Kill BY <1>6 DEF Kill
<1>7. CASE PowerLoss BY <1>7 DEF PowerLoss
<1> QED BY <1>1, <1>2, <1>3, <1>4, <1>5, <1>6, <1>7 DEF Failure

\* The writers go on living between the steps of the job.
LEMMA CoreWriters == ASSUME TypeOK, Core, Writers \/ People PROVE Core'
<1> USE DEF Core, TypeOK, ControlInv, JournalInv, QuietInv, CopyInv, ResticReadsConsistentCopy,
            DownIsJournaled, WritersBackBeforeRestic,
            Goto, CommandFails, AfterResume, StageFails, files, process, Mishap, Event, Begins
<1>1. CASE Handle BY <1>1 DEF Handle
<1>2. ASSUME NEW t \in Timers, TimerFires(t) PROVE Core'
  <2>1. /\ unit[t] = "active" /\ t \in Units
        /\ Trigger[t] \in Units /\ Trigger[t] \notin Timers
        /\ \A u \in Units : u # Trigger[t] => unit'[u] = unit[u]
    BY <1>2 DEF TimerFires
  <2>2. QuietInv'
    BY <1>2, <2>1 DEF TimerFires
  <2> QED BY <1>2, <2>2 DEF TimerFires
<1>3. ASSUME NEW u \in Units, ServiceEnds(u) PROVE Core' BY <1>3 DEF ServiceEnds
<1>4. ASSUME NEW u \in Units, Settles(u) PROVE Core' BY <1>4 DEF Settles
<1>5. ASSUME NEW u \in Units, Operate(u) PROVE Core' BY <1>5 DEF Operate
<1> QED BY <1>1, <1>2, <1>3, <1>4, <1>5 DEF Writers, People

\* The invariant holds of every behaviour.
THEOREM Invariance == Spec => []IInv
<1>1. Init => IInv
  BY TypeInit, CoreInit DEF IInv, Core
<1>2. IInv /\ [Next]_vars => IInv'
  <2> SUFFICES ASSUME IInv, [Next]_vars PROVE IInv'
    OBVIOUS
  <2>1. TypeOK /\ Core
    BY DEF IInv, Core
  <2>2. CASE UNCHANGED vars
    BY <2>2 DEF vars, IInv, TypeOK, ControlInv, JournalInv, QuietInv, CopyInv,
                ResticReadsConsistentCopy, DownIsJournaled, WritersBackBeforeRestic
  <2>3. CASE Next
    <3>1. TypeOK'
      BY <2>1, <2>3, TypeJob, TypeFailure, TypeWriters DEF Next
    <3>2. Core'
      BY <2>1, <2>3, CoreJob, CoreFailure, CoreWriters DEF Next
    <3> QED BY <3>1, <3>2 DEF IInv, Core
  <2> QED BY <2>2, <2>3
<1> QED BY <1>1, <1>2, PTL DEF Spec

\* Whatever restic reads is a whole copy made while no writer ran, for any
\* inventory and however often things fail, are killed or lose power.
THEOREM ConsistentCopy == Spec => []ResticReadsConsistentCopy
  BY Invariance, PTL DEF IInv, CopyInv

\* No writer is ever down without a whole journal that names it.
THEOREM DownJournaled == Spec => []DownIsJournaled
  BY Invariance, PTL DEF IInv

\* Every writer that the job stopped runs again before restic starts.
THEOREM WritersBack == Spec => []WritersBackBeforeRestic
  BY Invariance, PTL DEF IInv

\* A directory of somebody else has no marker, and is there between jobs or in
\* front of a cleanup, which refuses it.
ForeignInv ==
  target.content = "foreign" => target.exists /\ ~target.marked /\ pc \in {"idle", "claim"}

\* ForeignInv is inductive.
LEMMA ForeignStep == ASSUME TypeOK, ForeignInv, [Next]_vars PROVE ForeignInv'
<1> USE DEF ForeignInv, Goto, CommandFails, StageFails, files
<1>1. target \in Targets
  BY DEF TypeOK
<1>2. CASE UNCHANGED vars BY <1>2 DEF vars
<1>3. CASE StartJob \/ Claim \/ ResumeWithout \/ ResumeUnits \/ Unlink
  BY <1>3 DEF StartJob, Claim, ResumeWithout, ResumeUnits, Unlink
<1>4. CASE RemoveSome \/ RemoveDone
  BY <1>4 DEF RemoveSome, RemoveDone, NoTarget
<1>5. CASE Enter BY <1>5 DEF Enter
<1>6. CASE Mark \/ Copy \/ CopyDone
  BY <1>1, <1>6 DEF Mark, Copy, CopyDone, Targets
<1>7. CASE Record \/ Recorded \/ Stop \/ Restic
  BY <1>7 DEF Record, Recorded, Stop, Restic
<1>8. ASSUME NEW u \in Units, Sample(u) \/ Verify(u) PROVE ForeignInv'
  BY <1>8 DEF Sample, Verify
<1>9. CASE Failure \/ PowerLoss
  BY <1>9 DEF Failure, EnterFaults, TryFaults, ResumeFaults, RemoveFaults, ResticFaults, Kill,
              PowerLoss
<1>10. CASE Writers
  BY <1>10 DEF Writers, TimerFires, ServiceEnds, Settles, process
<1>11. CASE Handle
  BY <1>11 DEF Handle, NoTarget, process
<1>12. ASSUME NEW u \in Units, Operate(u) PROVE ForeignInv'
  BY <1>12 DEF Operate, process
<1> QED
  BY <1>2, <1>3, <1>4, <1>5, <1>6, <1>7, <1>8, <1>9, <1>10, <1>11, <1>12
     DEF Next, Job, People

\* No step of the job removes a directory that is not its own or stages into
\* it (recovery.py:51 to :57).
THEOREM ForeignStays == Spec => ForeignKept
<1>1. Init => ForeignInv
  BY DEF Init, ForeignInv, NoTarget
<1>2. ASSUME TypeOK, ForeignInv, Next, target.content = "foreign", pc # "idle"
      PROVE  UNCHANGED target
  <2>1. pc = "claim"
    BY <1>2 DEF ForeignInv
  <2> QED
    BY <1>2, <2>1 DEF Next, Job, Failure, People, Writers, StartJob, Claim, ResumeWithout,
       ResumeUnits, Unlink, RemoveSome, RemoveDone, Enter, Mark, Record, Recorded, Stop, Copy,
       CopyDone, Restic, Sample, Verify, EnterFaults, TryFaults, ResumeFaults, RemoveFaults,
       ResticFaults, Kill, PowerLoss, TimerFires, ServiceEnds, Settles, Operate, Handle, files
<1>3. TypeOK /\ ForeignInv /\ [Next]_vars => ForeignInv'
  BY ForeignStep
<1>4. TypeOK /\ ForeignInv /\ [Next]_vars =>
        [target.content = "foreign" /\ pc # "idle" => UNCHANGED target]_vars
  BY <1>2
<1> QED
  BY <1>1, <1>3, <1>4, TypeCorrect, PTL DEF Spec, ForeignKept

---------------------------------------------------------------------------
(* The job implements MaintenanceWindow: every step of the job, of what     *)
(* goes wrong and of the writers is a step of the contract or none.         *)

Promised == Window!Next \/ UNCHANGED Window!contract

\* Outside copying, a step that leaves writers and journal alone and has no
\* good copy at its end is a Drop.
LEMMA Dropped ==
  ASSUME UNCHANGED <<unit, journal, down>>, pc' # "restic", CopyNow' = "none"
  PROVE  Window!Next
<1>1. UNCHANGED <<Running, Noted>>
  BY DEF Running, Noted
<1> QED
  BY <1>1 DEF Window!Next, Window!Drop

\* A step that leaves alone everything the contract speaks of.
LEMMA Unnoticed ==
  ASSUME UNCHANGED <<unit, journal, down>>, (pc' = "restic") = (pc = "restic"), CopyNow' = CopyNow
  PROVE  UNCHANGED Window!contract
<1>1. UNCHANGED <<Running, Noted>>
  BY DEF Running, Noted
<1> QED
  BY <1>1 DEF Window!contract

\* Units made inactive, or active, and what that does to the running ones.
LEMMA Stopped ==
  ASSUME NEW some \in SUBSET Units,
         unit' = [u \in Units |-> IF u \in some THEN "inactive" ELSE unit[u]]
  PROVE  Running' = Running \ some
  BY DEF Running
LEMMA Started ==
  ASSUME NEW some \in SUBSET Units,
         unit' = [u \in Units |-> IF u \in some THEN "active" ELSE unit[u]]
  PROVE  Running' = Running \cup some
  BY DEF Running

\* A command of systemctl that is cut short and ends the step it was part of.
LEMMA HalfPromised ==
  ASSUME TypeOK, Core, HalfDone, UNCHANGED journal, pc' # "restic", CopyNow' = "none"
  PROVE  Promised
<1> USE DEF Promised
<1>1. UNCHANGED Noted
  BY DEF Noted
<1>2. CASE pc = "stop"
  <2>1. PICK some \in SUBSET (active \cap Running) :
          /\ unit' = [u \in Units |-> IF u \in some THEN "inactive" ELSE unit[u]]
          /\ down' = down \cup some
    BY <1>2 DEF HalfDone
  <2>2. some \in SUBSET Units /\ some \subseteq Noted \cap Running /\ CopyNow = "none"
    BY <1>2, <2>1 DEF Core, JournalInv, Noted, CopyNow, Copied, TypeOK
  <2>3. Running' = Running \ some
    BY <2>1, <2>2, Stopped
  <2>4. Window!Take(some)
    BY <1>1, <1>2, <2>1, <2>2, <2>3 DEF Window!Take
  <2> QED BY <2>2, <2>4 DEF Window!Next
<1>3. CASE pc = "resume" /\ journal.file = "whole"
  <2>1. PICK some \in SUBSET journal.units :
          /\ unit' = [u \in Units |-> IF u \in some THEN "active" ELSE unit[u]]
          /\ down' = down \ some
    BY <1>3 DEF HalfDone
  <2>2. some \in SUBSET Units /\ some \subseteq Noted /\ CopyNow # "making"
    BY <1>3, <2>1, JournalUnits DEF Noted, CopyNow, TypeOK
  <2>3. Running' = Running \cup some
    BY <2>1, <2>2, Started
  <2>4. Window!Return(some)
    BY <1>1, <1>3, <2>1, <2>2, <2>3 DEF Window!Return, Window!KeepOrDrop
  <2> QED BY <2>2, <2>4 DEF Window!Next
<1>4. CASE pc # "stop" /\ ~(pc = "resume" /\ journal.file = "whole")
  BY <1>4, Dropped DEF HalfDone
<1> QED BY <1>2, <1>3, <1>4

\* A unit that starts while no copy is made.
LEMMA BeginsPromised ==
  ASSUME TypeOK, NEW u \in Units, Begins(u), UNCHANGED <<files, process>>, CopyNow # "making"
  PROVE  Window!Next
<1>1. Running' = Running \cup {u}
  BY DEF Begins, Running, TypeOK
<1>2. pc # "copying" /\ UNCHANGED dirty
  BY DEF CopyNow, Begins, TypeOK
<1>3. UNCHANGED <<Noted, CopyNow>>
  BY <1>2 DEF files, process, Noted, CopyNow, Copied
<1>4. Window!Starts(u)
  BY <1>1, <1>3 DEF Begins, process, Window!Starts
<1> QED BY <1>4 DEF Window!Next

\* The job's own steps.
LEMMA JobPromised == ASSUME TypeOK, Core, Job PROVE Promised
<1> USE DEF Promised, Goto, CommandFails, StageFails, files
<1>1. CASE StartJob
  <2>1. UNCHANGED <<unit, journal, down>> /\ (pc' = "restic") = (pc = "restic") /\ CopyNow' = CopyNow
    BY <1>1 DEF StartJob, CopyNow, Copied
  <2> QED BY <2>1, Unnoticed
<1>2. CASE Claim
  <2>1. UNCHANGED <<unit, journal, down>> /\ pc' # "restic" /\ CopyNow' = "none"
    BY <1>2 DEF Claim, CopyNow, Copied, Core, ControlInv
  <2> QED BY <2>1, Dropped
<1>3. CASE ResumeWithout
  <2>1. UNCHANGED <<unit, journal, target, down, dirty>> /\ pc = "resume" /\ journal.file # "whole"
    BY <1>3 DEF ResumeWithout
  <2>2. CASE pc' = "restic"
    <3>1. where = "stage" /\ ok /\ ok' /\ where' = "restic"
      BY <1>3, <2>2 DEF ResumeWithout, AfterResume
    <3>2. CopyNow = "good" /\ CopyNow' = "good" /\ down = {}
      BY <2>1, <2>2, <3>1 DEF CopyNow, Copied, Core, CopyInv, DownIsJournaled
    <3>3. Noted = {} /\ Noted' = {} /\ UNCHANGED Running
      BY <2>1 DEF Noted, Running
    <3> QED BY <2>1, <2>2, <3>2, <3>3 DEF Window!Read, Window!Next
  <2>3. CASE pc' # "restic"
    <3>1. CopyNow' = "none"
      BY <1>3, <2>1, <2>3 DEF ResumeWithout, AfterResume, CopyNow, Copied
    <3> QED BY <2>1, <2>3, <3>1, Dropped
  <2> QED BY <2>2, <2>3
<1>4. CASE ResumeUnits
  <2>1. journal.units \in SUBSET Units /\ Noted = journal.units /\ Noted' = Noted
    BY <1>4, JournalUnits DEF ResumeUnits, TypeOK, Noted
  <2>2. Running' = Running \cup journal.units
    BY <1>4, <2>1, Started DEF ResumeUnits
  <2>3. pc = "resume" /\ pc' = "unlink" /\ CopyNow # "making" /\ CopyNow' = CopyNow
    BY <1>4 DEF ResumeUnits, CopyNow, Copied
  <2>4. Window!Return(journal.units)
    BY <1>4, <2>1, <2>2, <2>3 DEF ResumeUnits, Window!Return, Window!KeepOrDrop
  <2> QED BY <2>1, <2>4 DEF Window!Next
<1>5. CASE Unlink
  <2>1. /\ UNCHANGED <<unit, target, down, dirty>> /\ pc = "unlink" /\ down = {}
        /\ Noted' = {} /\ UNCHANGED Running
    BY <1>5 DEF Unlink, Noted, NoJournal, Running, Core, JournalInv
  <2>2. CASE pc' = "restic"
    <3>1. where = "stage" /\ ok /\ ok' /\ where' = "restic"
      BY <1>5, <2>2 DEF Unlink, AfterResume
    <3>2. CopyNow = "good" /\ CopyNow' = "good"
      BY <2>1, <2>2, <3>1 DEF CopyNow, Copied, Core, CopyInv
    <3> QED BY <2>1, <2>2, <3>2 DEF Window!Read, Window!Next
  <2>3. CASE pc' # "restic"
    <3>1. CopyNow # "making" /\ CopyNow' = "none"
      BY <1>5, <2>1, <2>3 DEF Unlink, AfterResume, CopyNow, Copied
    <3> QED BY <2>1, <2>3, <3>1 DEF Window!Strike, Window!KeepOrDrop, Window!Next
  <2> QED BY <2>2, <2>3
<1>6. CASE RemoveSome
  <2>1. UNCHANGED <<unit, journal, down>> /\ pc' # "restic" /\ CopyNow' = "none"
    BY <1>6 DEF RemoveSome, CopyNow, Copied
  <2> QED BY <2>1, Dropped
<1>7. CASE RemoveDone
  <2>1. UNCHANGED <<unit, journal, down>> /\ pc' # "restic" /\ CopyNow' = "none"
    BY <1>7 DEF RemoveDone, CopyNow, Copied, Core, ControlInv, NoTarget
  <2> QED BY <2>1, Dropped
<1>8. CASE Enter
  <2>1. UNCHANGED <<unit, journal, down>> /\ pc' # "restic" /\ CopyNow' = "none"
    BY <1>8 DEF Enter, CopyNow, Copied
  <2> QED BY <2>1, Dropped
<1>9. CASE Mark
  <2>1. UNCHANGED <<unit, journal, down>> /\ pc' # "restic" /\ CopyNow' = "none"
    BY <1>9 DEF Mark, CopyNow, Copied
  <2> QED BY <2>1, Dropped
<1>10. CASE Record
  <2>1. UNCHANGED <<unit, down>> /\ pc = "record" /\ pc' = "recorded"
        /\ Noted = {} /\ Noted' = {}
    BY <1>10 DEF Record, Noted, Core, JournalInv
  <2>2. CopyNow = "none" /\ CopyNow' = "none" /\ UNCHANGED Running
    BY <2>1 DEF CopyNow, Copied, Running
  <2> QED BY <2>1, <2>2 DEF Window!contract
<1>11. CASE Recorded
  <2>1. UNCHANGED <<unit, down>> /\ pc = "recorded" /\ pc' = "stop"
        /\ Noted = {} /\ Noted' = active /\ active \in SUBSET Units
    BY <1>11 DEF Recorded, Noted, Core, JournalInv, TypeOK
  <2>2. CopyNow = "none" /\ CopyNow' = "none" /\ UNCHANGED Running
    BY <2>1 DEF CopyNow, Copied, Running
  <2> QED BY <2>1, <2>2 DEF Window!Note, Window!Next
<1>12. CASE Stop
  <2>1. pc = "stop" /\ pc' = "verify" /\ active \in SUBSET Units
        /\ Noted = active /\ Noted' = active
    BY <1>12 DEF Stop, Noted, Core, JournalInv, TypeOK
  <2>2. CopyNow = "none" /\ CopyNow' = "none"
    BY <2>1 DEF CopyNow, Copied
  <2>3. Running' = Running \ active
    BY <1>12, <2>1, Stopped DEF Stop
  <2>4. active \cap Running \in SUBSET Units /\ Running \ (active \cap Running) = Running \ active
    BY <2>1
  <2>5. Window!Take(active \cap Running)
    BY <1>12, <2>1, <2>2, <2>3, <2>4 DEF Stop, Window!Take
  <2> QED BY <2>4, <2>5 DEF Window!Next
<1>13. CASE Copy
  <2>1. UNCHANGED <<unit, journal, down>> /\ pc = "copy" /\ pc' = "copying"
    BY <1>13 DEF Copy
  <2>2. CopyNow = "none" /\ CopyNow' = "making" /\ UNCHANGED <<Running, Noted>>
    BY <2>1 DEF CopyNow, Copied, Running, Noted
  <2>3. Running = {}
    BY <2>1 DEF Core, QuietInv, Running
  <2> QED BY <2>1, <2>2, <2>3 DEF Window!OpenWindow, Window!Next
<1>14. CASE CopyDone
  <2>1. UNCHANGED <<unit, journal, down>> /\ pc = "copying" /\ pc' = "resume"
    BY <1>14 DEF CopyDone
  <2>2. CopyNow = "making" /\ CopyNow' \in {"good", "none"} /\ UNCHANGED <<Running, Noted>>
    BY <2>1 DEF CopyNow, Copied, Running, Noted
  <2> QED BY <2>1, <2>2 DEF Window!CloseWindow, Window!Next
<1>15. CASE Restic
  <2>1. UNCHANGED <<unit, journal, down>> /\ pc' # "restic" /\ CopyNow' = "none"
    BY <1>15 DEF Restic, CopyNow, Copied
  <2> QED BY <2>1, Dropped
<1>16. ASSUME NEW u \in Units, Sample(u) \/ Verify(u) PROVE Promised
  <2>1. UNCHANGED <<unit, journal, down>> /\ pc' # "restic" /\ CopyNow' = "none"
    BY <1>16 DEF Sample, Verify, CopyNow, Copied
  <2> QED BY <2>1, Dropped
<1> QED BY <1>1, <1>2, <1>3, <1>4, <1>5, <1>6, <1>7, <1>8, <1>9, <1>10, <1>11, <1>12, <1>13,
           <1>14, <1>15, <1>16 DEF Job

\* Failures, kills and power losses.
LEMMA FailurePromised == ASSUME TypeOK, Core, Failure \/ PowerLoss PROVE Promised
<1> USE DEF Promised, Goto, CommandFails, StageFails, files
<1>1. CASE EnterFaults \/ ResticFaults
  <2>1. UNCHANGED <<unit, journal, down>> /\ pc' # "restic" /\ CopyNow' = "none"
    BY <1>1 DEF EnterFaults, ResticFaults, CopyNow, Copied
  <2> QED BY <2>1, Dropped
<1>2. CASE RemoveFaults
  <2>1. UNCHANGED <<unit, journal, down>> /\ pc' # "restic" /\ CopyNow' = "none"
    BY <1>2 DEF RemoveFaults, CopyNow, Copied, Core, ControlInv
  <2> QED BY <2>1, Dropped
<1>3. CASE TryFaults \/ ResumeFaults \/ Kill
  <2>1. HalfDone /\ UNCHANGED journal /\ pc' # "restic" /\ CopyNow' = "none"
    BY <1>3 DEF TryFaults, ResumeFaults, Kill, CopyNow, Copied
  <2> QED BY <2>1, HalfPromised
<1>4. CASE PowerLoss
  <2>1. down' = {} /\ pc' # "restic" /\ CopyNow' = "none" /\ UNCHANGED Noted
    BY <1>4 DEF PowerLoss, CopyNow, Copied, Noted
  <2>2. Running' \in SUBSET Units
    BY DEF Running
  <2> QED BY <2>1, <2>2 DEF Window!Outage, Window!Next
<1> QED BY <1>1, <1>2, <1>3, <1>4 DEF Failure

\* The writers, whose timers cannot fire in the window, and the operator.
LEMMA WritersPromised == ASSUME TypeOK, Core, Writers \/ People PROVE Promised
<1> USE DEF Promised
<1>1. CASE Handle
  <2>1. UNCHANGED <<unit, journal, down>> /\ pc' # "restic" /\ CopyNow' = "none"
    BY <1>1 DEF Handle, process, CopyNow, Copied
  <2> QED BY <2>1, Dropped
<1>2. ASSUME NEW t \in Timers, TimerFires(t) PROVE Promised
  <2>1. t \in Units /\ Trigger[t] \in Units /\ unit[t] = "active" /\ Begins(Trigger[t])
        /\ UNCHANGED <<files, process>>
    BY <1>2 DEF TimerFires
  <2>2. CopyNow # "making"
    BY <2>1 DEF CopyNow, Core, QuietInv
  <2> QED BY <2>1, <2>2, BeginsPromised
<1>3. ASSUME NEW u \in Units, ServiceEnds(u) PROVE Promised
  <2>1. UNCHANGED <<pc, where, ok, target, journal, down, dirty>>
    BY <1>3 DEF ServiceEnds, files, process
  <2>2. UNCHANGED <<Running, Noted, CopyNow>>
    BY <1>3, <2>1 DEF ServiceEnds, Running, Noted, CopyNow, Copied, TypeOK
  <2> QED BY <2>1, <2>2 DEF Window!contract
<1>4. ASSUME NEW u \in Units, Settles(u) PROVE Promised
  <2>1. UNCHANGED <<pc, where, ok, target, journal, down, dirty>>
    BY <1>4 DEF Settles, files, process
  <2>2. Running' = Running \ {u}
    BY <1>4 DEF Settles, Running, TypeOK
  <2>3. UNCHANGED <<Noted, CopyNow>>
    BY <2>1 DEF Noted, CopyNow, Copied
  <2> QED BY <2>1, <2>2, <2>3 DEF Window!Ends, Window!Next
<1>5. ASSUME NEW u \in Units, Operate(u) PROVE Promised
  <2>1. UNCHANGED <<files, process>>
    BY <1>5 DEF Operate
  <2>2. CASE pc = "idle" /\ Begins(u)
    <3>1. CopyNow # "making"
      BY <2>2 DEF CopyNow
    <3> QED BY <2>1, <2>2, <3>1, BeginsPromised
  <2>3. CASE unit' = [unit EXCEPT ![u] = "inactive"] /\ UNCHANGED <<down, dirty>>
    <3>1. Running' = Running \ {u}
      BY <2>3 DEF Running, TypeOK
    <3>2. UNCHANGED <<Noted, CopyNow, pc>>
      BY <2>1, <2>3 DEF Noted, CopyNow, Copied, files, process
    <3> QED BY <2>3, <3>1, <3>2 DEF Window!Ends, Window!Next
  <2> QED BY <1>5, <2>2, <2>3 DEF Operate
<1> QED BY <1>1, <1>2, <1>3, <1>4, <1>5 DEF Writers, People

\* The recovery job implements MaintenanceWindow, for any inventory and any
\* number of failures, kills and power losses: writers are noted before they
\* are stopped, none runs while the copy is made, and restic reads a copy made
\* so, after every writer is back.
THEOREM WindowKept == Spec => KeepsWindow
<1>1. Init => Window!Init
  <2> SUFFICES ASSUME Init PROVE Window!Init
    OBVIOUS
  <2>1. Noted = {} /\ CopyNow = "none" /\ down = {} /\ pc # "restic"
    BY DEF Init, Noted, NoJournal, CopyNow, Copied
  <2>2. Running \in SUBSET Units
    BY DEF Running
  <2> QED BY <2>1, <2>2 DEF Window!Init
<1>2. IInv /\ [Next]_vars => [Window!Next]_(Window!contract)
  <2> SUFFICES ASSUME IInv, [Next]_vars PROVE Promised
    BY DEF Promised
  <2>1. TypeOK /\ Core
    BY DEF IInv, Core
  <2>2. CASE UNCHANGED vars
    <3>1. UNCHANGED <<Running, Noted, down, CopyNow, pc>>
      BY <2>2 DEF vars, Running, Noted, CopyNow, Copied
    <3> QED BY <3>1 DEF Promised, Window!contract
  <2>3. CASE Next
    BY <2>1, <2>3, JobPromised, FailurePromised, WritersPromised DEF Next
  <2> QED BY <2>2, <2>3
<1> QED
  BY <1>1, <1>2, Invariance, PTL DEF Spec, KeepsWindow, Window!Spec

\* What the contract alone says: in any behaviour that keeps it no writer runs
\* in the window, restic reads a good copy with nobody owed a start, and whoever
\* is down is noted.
THEOREM WindowSafe == KeepsWindow => []Window!Safe
<1>1. Window!Init => Window!Safe
  BY DEF Window!Init, Window!Safe
<1>2. Window!Safe /\ [Window!Next]_(Window!contract) => Window!Safe'
  <2> SUFFICES ASSUME Window!Safe, [Window!Next]_(Window!contract) PROVE Window!Safe'
    OBVIOUS
  <2> USE DEF Window!Safe
  <2>1. CASE UNCHANGED Window!contract
    BY <2>1 DEF Window!contract
  <2>2. ASSUME NEW some \in SUBSET Units, Window!Note(some) \/ Window!Take(some) PROVE Window!Safe'
    BY <2>2 DEF Window!Note, Window!Take
  <2>3. ASSUME NEW some \in SUBSET Units, Window!Return(some) PROVE Window!Safe'
    BY <2>3 DEF Window!Return, Window!KeepOrDrop
  <2>4. CASE Window!Strike \/ Window!Drop \/ Window!Read
    BY <2>4 DEF Window!Strike, Window!KeepOrDrop, Window!Drop, Window!Read
  <2>5. CASE Window!OpenWindow \/ Window!CloseWindow
    BY <2>5 DEF Window!OpenWindow, Window!CloseWindow
  <2>6. ASSUME NEW u \in Units, Window!Starts(u) \/ Window!Ends(u) PROVE Window!Safe'
    BY <2>6 DEF Window!Starts, Window!Ends
  <2>7. CASE Window!Outage
    BY <2>7 DEF Window!Outage
  <2> QED
    BY <2>1, <2>2, <2>3, <2>4, <2>5, <2>6, <2>7 DEF Window!Next
<1> QED
  BY <1>1, <1>2, PTL DEF KeepsWindow, Window!Spec
==========================================================================
