-------------------------- MODULE PressureHealth --------------------------
(***************************************************************************)
(* The pressure guard together with the part of operational health that    *)
(* reports on it: the marker its unit publishes after a clean run          *)
(* (publish_pressure in src/scripts/operations/health.py, started by the   *)
(* postStart of src/modules/operations/health.nix) and the checks that     *)
(* `diagnose` makes of the marker, the storage and the unit.               *)
(***************************************************************************)
EXTENDS StoragePressure

CONSTANT MaxAge   \* pressureMaxAge, in ticks of the clock

ASSUME MaxAgeAssumption == MaxAge \in Nat

VARIABLES
  marker,      \* the published text and its age; text "none" before the first
  pressedFor,  \* history: ticks since the journal turned "pressured"
  booted       \* history: no run has ended since the host restarted

healthVars == <<marker, pressedFor, booted>>

\* Ages beyond MaxAge are all alike.
Ages == 0..(MaxAge + 1)
Older(age) == IF age > MaxAge THEN age ELSE age + 1

HealthTypeOK ==
  /\ TypeOK
  /\ marker \in [text : {"none", "ready", "paused"}, age : Ages]
  /\ pressedFor \in Ages
  /\ booted \in BOOLEAN

HealthInit ==
  Init /\ marker = [text |-> "none", age |-> 0] /\ pressedFor = 0 /\ booted = FALSE

\* The postStart reads the journal back, not the run's memory, and replaces
\* the marker by a rename; if it cannot, the old marker stays and the unit
\* has failed.
Publish ==
  /\ Finish
  /\ marker' = IF failed' THEN marker
               ELSE [text |-> IF journal.pressured THEN "paused" ELSE "ready", age |-> 0]
  /\ booted' = FALSE
  /\ UNCHANGED pressedFor

Tick ==
  /\ marker' = IF marker.text = "none" THEN marker ELSE [marker EXCEPT !.age = Older(@)]
  /\ pressedFor' = IF journal.pressured THEN Older(pressedFor) ELSE 0
  /\ UNCHANGED <<vars, booted>>

\* Every step of the guard and of its environment but the end of a clean run.
\* The marker, in a state directory, is there again after a reboot.
Others ==
  /\ Reconcile \/ Disturbance
  /\ UNCHANGED marker
  /\ pressedFor' = IF journal'.pressured THEN pressedFor ELSE 0
  /\ booted' = (Reboot \/ (booted /\ (pc = "idle" \/ pc' # "idle")))

HealthNext == Publish \/ Tick \/ Others

HealthSpec == HealthInit /\ [][HealthNext]_<<vars, healthVars>>

\* The fairness of FairSpec: a run goes on and ends, the clock owes nothing.
FairHealthSpec ==
  HealthSpec /\ WF_<<vars, healthVars>>(Publish \/ (Reconcile /\ Others))

---------------------------------------------------------------------------
(* What `diagnose` answers, each check read at this moment. *)

\* Variants: a marker that never grows old; units only looked at for existence.
PressureCheckAgeless ==
  CASE marker.text = "none" -> "inconclusive"
    [] marker.text = "ready" -> "healthy"
    [] OTHER -> "degraded"
JobCheckLoaded == "healthy"

PressureCheck ==
  CASE marker.text = "none" -> "inconclusive"
    [] marker.text = "ready" /\ marker.age <= MaxAge -> "healthy"
    [] OTHER -> "degraded"

\* The storage check knows the lower mark only.
StorageCheck ==
  CASE storage = "unmounted" -> "unsafe"
    [] storage = "missing" -> "inconclusive"
    [] available < PauseBytes -> "degraded"
    [] OTHER -> "healthy"

\* systemd shows the result of the last run since the host started; while one
\* runs, and before the first has ended, that is "success".
JobCheck == IF pc = "idle" /\ failed THEN "degraded" ELSE "healthy"

\* The /health endpoint answers 200 exactly then.
Healthy == {PressureCheck, StorageCheck, JobCheck} = {"healthy"}

---------------------------------------------------------------------------
(* Properties. *)

\* The health endpoint does not hide between runs that downloads are held, as
\* the hysteresis may last (docs/operations.md:324), whatever the last run came
\* to: the journal says "pressured" only under a failed unit, a marker "paused",
\* or one that has grown old.  The one way out is a reboot behind a run that
\* saved and did not publish: until the next run has ended a marker of before
\* speaks alone, and no longer than up to its age limit.
RestingHealthTellsPressure ==
  pc = "idle" /\ journal.pressured /\ Healthy => booted /\ pressedFor <= MaxAge
==========================================================================
