# Verification of nix-homelab

nix-homelab is a set of NixOS modules for a media server at home, with Python
programs that act at run time: they stop downloads when the disk fills, copy
application state for backups, restore databases, report health, and bring the
configuration of some fifteen web applications in line with the host's.  The
modules of this directory are TLA+ models of those programs.  TLC checks them on
small instances and TLAPS proves the main results for every value of the
constants.  `PROJECT.json` names the source lines of every definition.

Paths below are relative to `src/`; `scripts/operations/` is shortened to `ops/`
and `scripts/integration/` to `integration/` in the tables.

## 1. The system

### Components

| Component | State it keeps | Operations | Correct when |
|---|---|---|---|
| storage pressure guard, `ops/pressure.py` | `state.json`: mode and the items it holds; the downloaders' queues | one run a minute after the last: measure, pause or release each client, save | it resumes what it stopped and nothing else; it stops on shortage and releases on room; a failure loses no ownership |
| health, `ops/health.py` | the published pressure marker | publish after a clean guard run; `diagnose`, `status`, HTTP endpoint | it never answers healthy for what it should report, whatever is stale |
| recovery staging, `ops/recovery.py` | staging directory with its marker, the writer journal, systemd units | `cleanup`, `stage` around a restic unit | restic reads a copy taken while no writer ran; writers come back |
| database restore, `ops/restore_postgres.py` | none; reads unit states, replaces database objects | the attended command | no writer works on the database during pg_restore |
| media libraries, `integration/adapters/jellyfin.py` | libraries in the server | list, create, add, remove, write options, roll back | no path is lost on the way; what nobody declared stays |
| media accounts, `jellyfin.py`, `navidrome.py`, `audiobookshelf.py` | accounts in the server, `password-state.json` | sign in, list, create, policy, password, save the fingerprint | the declared secret takes effect, once, and locks no job out |
| autobrr adapter, `integration/autobrr.py` | filters and clients in autobrr, provider fingerprints | check lists, write the client, disable, write actions, enable | a filter never acts on announcements with half of a change |
| Servarr adapter, `integration/adapters/arr.py` | providers, profiles and settings in the server | list, look up, create, replace, write settings | what nobody declared stays; a name is taken once; references point at what bears the name |
| Bazarr and Seerr adapters, `bazarr.py`, `seerr.py` | profiles, destinations, singletons; Seerr's onboarding | the same; the whole collection at once in Bazarr; the end of the onboarding | the same, and the onboarding is closed last |
| Audiobookshelf libraries, `audiobookshelf.py` | libraries, the first administrator | initialise, list, create, edit | as above |
| qBittorrent categories and tags, `scripts/downloaders/qbittorrent-config.py` | categories and tags in the client | list, create, edit | as above |
| transport, `integration/common.py` and `reconcile.py` | none | request with retries for reads, readiness wait, dispatch | a write goes out once; an answer belongs to its request; the unit's start limit is kept |
| downloader credentials, `scripts/downloaders/*-credentials.py` | configuration files | one edit before the daemon starts | the secrets arrive, the rest stays |
| storage preparation, `scripts/storage/prepare.py` | directories under required mounts | create and set owners | nothing is written below a missing mount |
| unit wiring, `modules/` | systemd units, timers, orderings | built by Nix, run by systemd | producers before consumers, timers that repeat failed jobs |

### How they interact

- systemd runs every program as a one-shot unit, most of them from a timer that
  counts from the end of the last run.  Two runs of a unit therefore never
  overlap; runs of different units do.
- The guard, the adapters and people use the same web APIs.  No API offers a
  transaction, so everything a program reads may have changed when it writes.
- The guard's unit publishes a marker when its run was clean.  The health
  program reads that marker, the file system and the result of the unit.
- The recovery job stops and starts the units of the inventory: applications,
  integration jobs and timers.  The restore command looks at the same units and
  takes no lock against the job.
- Secrets reach the jobs as files loaded when a unit starts.

### What is hard

Requests that take effect and lose their answers, or take effect after the run
that sent them has ended; runs killed between an effect and the record of it; writes from listings that are no longer true; people who
do the same things by hand; a cleanup that is itself interrupted; timers that
start a service behind the back of a program that has just looked at it.
`PROJECT.json` lists these as hazards, line by line, with the properties that
catch them.

## 2. The modules

| Module | Extends | Models | MC module, runs |
|---|---|---|---|
| `StoragePressure` | instantiates `PauseContract` | the guard with its downloaders and people | `MCStoragePressure`: PressureFaults |
| `PressureHealth` | `StoragePressure` | marker, clock and the checks of `diagnose` on pressure | `MCPressureHealth`: HealthFaults |
| `RecoveryStaging` | instantiates `MaintenanceWindow` | cleanup, stage and restic, with the units around them | `MCRecoveryStaging`: StagingFaults, StagingInterrupted |
| `DatabaseRestore` | `RecoveryStaging` | the restore command beside backups | `MCDatabaseRestore`: RestoreBesideBackup, RestoreDuringBackup |
| `LibraryUpdate` | | Jellyfin libraries and the rollback | `MCLibraryUpdate`: LibraryFaults, LibraryLostAnswer |
| `AccountUpdate` | | accounts of Jellyfin, Navidrome, Audiobookshelf | `MCAccountUpdate`: AccountFaults |
| `FilterUpdate` | | one autobrr filter and its client | `MCFilterUpdate`: FilterFaults |
| `ResourceUpdate` | | objects and settings of Servarr, Bazarr, Seerr, Audiobookshelf and qBittorrent | `MCResourceUpdate`: ResourceFaults |
| `OneCall` | | abstract: what a caller of the transport may take for granted | as a property of TransportFaults |
| `PauseContract` | | abstract: what people may take for granted of the guard | as a property of PressureFaults |
| `MaintenanceWindow` | | abstract: what a host may take for granted of the recovery copy | as a property of StagingFaults |
| `Transport` | instantiates `OneCall` | attempts, pauses and the readiness wait of one run | `MCTransport`: TransportFaults |

Each of the detailed modules has a module `<name>Proofs` with its theorems;
those of `PressureHealth` are at the end of `StoragePressureProofs`.  The three
abstract modules have none: their theorems are with the modules that implement
them.
Definitions called "Variant" are plausible mistakes in the definition after
them; the mutants of `PROJECT.json` put one in its place, and the named property
fails.

### StoragePressure

An item is a torrent or SABnzbd's one queue.  `halted` is what the downloaders
have stopped, `state` the run's dictionary, `journal` the file, `request` the
hashes of the request that is being sent.  `stopper` is history: the guard, a
guard whose answer or record was lost, a person between runs or in the middle of
one.  A run goes `Start`, `QbitList`, `Send`, `SabQueue`, `Send`, `Save`,
`Finish`; list and request are separate steps, and everybody else may act
between them.  `ClientFails` is an error in one client (with the request carried
out or not), which the program catches.  `Dies` is the end of the process at any
step, with the journal as all that is left of it.  It is a `Crash` where systemd
saw it (the unit's two-minute limit, which six requests of 20 s can reach, or an
error while the journal is written) and the unit has failed, or a `Reboot`, during
a run or between two, after which systemd remembers no failure.
The free space and the mounts change at any time, as often as they like.

`roomSeen` is history too: since the guard last stopped something a run has
measured the upper mark, or a run was killed between the stop and the journal and
took the mode with it.

The marks are compared as in the code: below `PauseBytes` or without storage the
run presses, from `ResumeBytes` on it releases, in between it keeps the mode.

### PauseContract

The contract has no requests, answers, clients or files: an item stands
"running", "held" by the guard, "kept" (somebody's stop the guard may not undo)
or "unclear".  A run looks at the space, holds or releases items, saves what it
owns and rests; it may be killed, and forgets then what it did not save; people
stop and start items.  `Pauses == INSTANCE PauseContract WITH ...` in
StoragePressure is the refinement.  It maps
- `standing` to the history of who stopped the item (`Standing`): a stop of the
  guard is held; one whose answer was lost or that was not recorded is kept, as
  is a person's between runs; of the others nothing tells whose they are;
- `pressed`, `saved` and `owned` to the mode in the run's dictionary, the mode in
  the journal and the journal's items of both clients;
- `resting` to `pc = "idle"`, and `space` to its relation to the two marks, with
  storage that is not mounted as short.

One request of the guard is one `Hold` or `Release` of several items, `Save` is
one step in both, and lists and the failures of single clients change nothing in
the contract.

### PressureHealth

`Publish` replaces `Finish`: the unit's postStart writes the journal's mode into
the marker after a clean run.  The marker is in a state directory and is
there after a reboot; the unit's result is not: a unit that has not run since the
host started is loaded, inactive and a "success", which the check of jobs
(`ops/health.py:202`) takes for healthy.  `booted` is history: no run has ended
since then.  `Tick` ages the marker up to one above the limit
(greater ages are all alike).  `PressureCheck`, `StorageCheck` and `JobCheck` are
the three answers of `diagnose` that concern the guard, `Healthy` the endpoint's
200.

### RecoveryStaging

The steps follow the unit: the preStart cleanup (`Claim`, `ResumeWithout` or
`ResumeUnits` and `Unlink`, `RemoveSome`, `RemoveDone`), the stage (`Enter`,
`Mark`, one `Sample` per unit, `Record` and `Recorded`, `Stop`, one `Verify` per
unit, `Copy`, `CopyDone`, and the `finally` as the resume steps again), `Restic`,
and the cleanup of ExecStopPost.  `where` says for whom a shared step runs.
Things that the program does piece by piece are taken apart where a kill between
the pieces matters: the journal is truncated before it is written, `rmtree` may
remove the marker long before the directory, `systemctl` may have handled some
of its units when it fails or is killed (`HalfDone`).  `Kill` hits any step of
any part, the last cleanup too.  `PowerLoss` keeps the files and lets the host
come up with any units.

The writers live on: active timers start their services, services end, people
stop units at any time and start them between jobs.
(`docs/operations.md:29` asks not to start them in the maintenance window.)
`Handle` is the operator who puts a directory of his own where the staging area
goes or clears up by hand.

### MaintenanceWindow

The contract knows the units that run, those a cleanup will start (`noted`),
those the job has stopped and not returned (`owed`), the copy and whether the
network backup reads it.  A writer is stopped on the job's account only after it
was noted; the copy is made while nothing runs; the note is struck off when
nobody is owed a start; the network backup reads a good copy with nobody owed.
Units start and end by themselves, but none starts in the window.
`Window == INSTANCE MaintenanceWindow WITH ...` in RecoveryStaging maps
`running` to the units that are not quite inactive, `noted` to what the journal
names if it is whole (`Noted`), `owed` to
`down`, and `copy` to the phase of the copy (`CopyNow`).  Directories, markers,
the loops over units and everything `HalfDone` leaves are below the contract.

### DatabaseRestore

The command asks the units one at a time in any order, and leaves when one is not
inactive; otherwise it restores for as long as it likes.  All of RecoveryStaging
goes on beside it.  `clear` is history: from the first question until pg_restore
no backup job owed a writer a start, neither by its journal nor by what it has
sampled.

### LibraryUpdate

A library is its existence, its set of paths and one undeclared option.  The job
lists all libraries once and then takes them one by one: `Create`, or the loops
`Add`, `Remove` and the final `Options`; a recoverable error leads to `ReAdd` and
`UnAdd`.  `Refused` is an error the code catches, `AnswerLost` one where the
server did the work, `Breaks` everything that escapes the handler (a reset
connection, a kill).  `promised` is history: the paths a library had when it was
last in order.  People's changes are counted apart in and between runs
(`edits`, `intrusions`), here and in the next two modules: some properties hold
only if nobody intrudes on a run.

### AccountUpdate

One account with its policy and password, its secret on the host, the secret for
signing in and the fingerprint in the state file.  `login` is the second secret
where the job signs in with this very account, and None where it has an API key or
signs in with another one, of which nothing is modelled but that it works.
`SignIn` needs the server's present password, and so does Jellyfin's own user for
a new one (`Accepted`, CurrentPw); otherwise the run ends (`Refused`).  An account
the job signs in with has to stay an administrator, which its declared policy must
say; Navidrome's adapter refuses to manage it, and its `login` matters for the
sign-in only.  `Rotate` gives the host new secrets, one or both, or an API key.
Jellyfin takes a creation, a policy and a
password in three requests, the audio servers take all in one; `service` and
`mode` are chosen at the start.  scrypt is modelled by what the code relies on: a
fingerprint matches the password it was made from and no other.  Every failure
ends the run, with its request carried out or not (`Fault`).

### FilterUpdate

The job looks at the lists, writes the client if its fingerprint is unknown or
its fields differ, saves the fingerprint, and updates a filter: disabled with its
new fields and indexers, then each action, then enabled.  `half` is history: the
job has begun a change of the filter and not ended it.

### ResourceUpdate

Five adapters do the same with different applications: read, compare, write.
What they differ in is the order of their requests, and that is data here:
`Program` gives each adapter's steps, and one action per kind of step
(`ReadPublic`, `ReadSettings`, `List`, `Lookup`, `Write`, `Pass`, `Stop`) carries
them out.  Two objects are declared.  In Servarr and Seerr the write replaces the
object by the listed one with the declared fields merged in (`Put`), in
Audiobookshelf and qBittorrent it sends the declared fields, and Bazarr takes
its whole collection of profiles at once (`Merged`, `Replace`).  Servarr lists
again before its second object, which refers to the first one by name (`Lookup`);
Seerr asks its manager for the profile that its destinations refer to.  Bootstrap
mode leaves what exists; singletons have no "missing" and are written by Seerr
alone, during its onboarding, which `initialize` closes as the last request.

`BreakOff` is a failed request or a kill.  The write of a broken-off run may be
on its way still (`late`) and takes effect later (`Arrive`), after what people
did meanwhile, or never (`Vanish`); it is settled before the next run, a quarter
of an hour later.  `touched` is history: what people changed since the run read
it; so is `alone`: they have changed nothing since the run began.  Ids end at
`MaxId`, for Bazarr too, whose job chooses them itself (the guard of `Replace`).
No API offers a compare-and-set, so a change between the listing and the
write can be lost.  `docs/setup.md:156` asks people to "avoid concurrent UI edits
while a managed API job changes the same object"; the properties excuse that case
and no other.  For Bazarr it includes profiles that nobody declared.

### OneCall and Transport

`OneCall` is the contract the adapters' models rely on: a write happens at most
once, one reported as done has happened, one reported as failed may have
happened or may happen yet, and what a read returns was true during the call.
`Transport` is the program: up to four attempts with pauses of 1, 2 and 4 s for
a read, one for a write, the readiness wait with its deadline of 90 s and naps
of 2 s, and the unit's limit of 300 s.  An attempt that was given up may still
reach the application (`Apply`), or not (`Lose`); reads are answered with the
version of the moment.  `Promise == INSTANCE OneCall` is the refinement: the six
variables of the contract are variables of `Transport`, which counts effects and
versions as history, and the mapping is the identity.

`Client.request` repeats a read after 429, 502, 503, 504, a refused connection
or a timeout.  A connection that is reset is neither a URLError nor a
TimeoutError when it happens while the answer is read: it ends the run, in
`wait_ready` too (`WaitBroken`).

The 15 s of `urlopen` are a limit for each socket operation, not for an attempt:
names that resolve slowly, several addresses and answers that come in drops have
none.  `Durations` therefore says how long attempts last and bounds nothing: in
the instance 0 to 300 s, the unit's limit.  `clock` is when the attempt or nap
under way ends.  The deadline is looked at only after up to four attempts, so one
that is slow enough takes the unit to its limit.  `Room` is how slow: a quarter of
what the limit leaves beside deadline, nap and pauses, 50 s with the code's times.
`slow` is history: an attempt of the wait lasted longer.  The properties say that
the limit is reached on no other account; `Killed` is systemd stopping the unit
then.

## 3. What is checked

Runs that pass:

| Run | Instance and bounds | Shows |
|---|---|---|
| PressureFaults | two interchangeable torrents and the queue, space 0..2 with marks 1 and 2, two changes by others, one failed request, one crash or reboot | the guard keeps the contract of the pause (KeepsContract); ownership survives (HeldIsOwned), an unsure pause or a person's stop is never resumed (UncertainPauseNotResumed, UserStopKept), no start without a measurement of the upper mark (NoToggling) |
| HealthFaults | one torrent and the queue, one change by others, one failed request, one crash or reboot, a marker too old after one tick | between runs the endpoint hides no pressure but for a bounded time after a reboot (RestingHealthTellsPressure); under fairness lasting shortage stops the downloads (ShortSpaceHolds) and lasting room gives back what was recorded (RoomReleases) |
| StagingFaults | two services and a timer for one of them, two events, three mishaps of any kind (a failed command, a kill, a power loss) | the job keeps the contract of the maintenance window (KeepsWindow): the copy is made while no writer runs, restic reads a whole one with the writers back, no writer is down without a note of it; foreign directories stay (ForeignKept); writers come back and backups go on, but for the stuck states below |
| RestoreBesideBackup | the same units, two events, two mishaps | pg_restore is alone unless a backup job owed a start (RestoreAlone) |
| LibraryFaults | one library, three paths of which two declared, every initial state, both modes, two failures, one edit | Covered through one refused request; exact rollbacks; undeclared options stay; bootstrap mode leaves alone; idempotence; convergence |
| AccountFaults | both kinds of server, both modes, the job's own account or another, two passwords, two rotations, two failures, two edits | fingerprints do not lie; bootstrap mode leaves alone; the server's own policy never stays without a failure; idempotence; convergence if signing in works in the end (Converges); a job of Jellyfin with one secret for login and account does not lock itself out (OwnSignInKept) |
| FilterFaults | two indexers of which one selected, one action, every initial filter, both modes, two failures, one edit | no half-changed filter is live; a failed update disables; indexers stay; bootstrap mode leaves alone; idempotence; convergence |
| ResourceFaults | five applications, both modes, any two objects at first and up to five in the end, two failed or killed runs with late writes, one change by people | undeclared objects, fields and settings are kept (OthersKept); names are taken once (NoDuplicate); bootstrap mode leaves alone; Seerr's onboarding is closed last (SetupComplete); idempotence; convergence unless people stand in the way |
| TransportFaults | the code's times in seconds, attempts of 0, 15, 50, 51 or 300 s, three calls after the wait, one change by others, any answers, losses and delays | the transport keeps the contract of OneCall (KeepsPromise); the wait sends nothing later than a nap after its deadline, and reaches the unit's limit only after an attempt of more than 50 s (WaitInTime); every other run ends by itself (RunEnds) |

Idempotent has two halves in each of the four adapters' modules.  RunSettles: one
run that comes to its end, with nobody intruding, leaves what it works on as
declared, whatever earlier runs left half done.  StaysSettled: what is as
declared is written by no later run, failing ones included, until people or the
host change something.  `tests/integration/test_audiobooks.py:17` and
`docs/research/project-comparison.md:129` ask for the second; the first is what
the timers rely on.

Runs that show the code at odds with what its documentation says:

| Run | The documentation | The behaviour |
|---|---|---|
| StagingInterrupted | `docs/operations.md:21`, cleanup resumes writers after an interrupted staging | a kill inside `rmtree`, after the marker and before the directory, makes every later cleanup refuse before it looks at the journal: the writers stay down |
| RestoreDuringBackup | `docs/operations.md:90`, refuses active writers | asked within the maintenance window it finds all writers down; the backup's `finally` starts them during pg_restore |
| LibraryLostAnswer | `docs/integration.md:171`, new paths before old references | a removal whose answer is lost is not undone, and the rollback then takes the new paths away too |

In each case the passing run of the same component states the exact condition
under which the promise does hold: DownOnlyIfUnclaimable, RestoreAlone,
CoveredThroughOneRefusal.

More limits of this kind are in the conditions of passing properties, which
excuse them and no more.  TLC finds each of them as soon as the excuse is left out.

- RestingHealthTellsPressure.  A run saves a pressured journal and the host
  restarts before the unit publishes it: an older "ready" then answers healthy
  between the two marks, although health should remain "degraded throughout the
  guard's pause/resume hysteresis" (`docs/operations.md:324`), until the first run
  after boot has ended or the marker is older than its 180 s.  The property says
  that this is the one way and how long it lasts.
- UserStopKept speaks of items the journal does not own.  A release that fails, or
  that took effect and lost its answer, keeps the ownership although the mode is
  off, and a person's later stop of that item is undone by the next run.
- RoomReleases speaks of what is reported as a stopped download.  A torrent that
  is checked when the release comes is dropped from the ownership and stays
  stopped for good.
- PolicyUnlessBrokenOff.  One failed request behind the creation in bootstrap mode
  leaves the account with the server's own policy, because the next run passes
  over accounts that exist.
- PasswordKnown, in Converges of AccountUpdate, leaves out a rotation that was
  written but not recorded and then taken back on the host: the old fingerprint
  matches, and the withdrawn password stays.
- OthersKept.  An undeclared Bazarr profile that is edited between the listing
  and the write of the whole collection is put back.

Converges of AccountUpdate has a premise, `SignsIn`, that is not the job's to
bring about.  Where the job signs in with the account it manages, a new secret on
the host locks every run out until the server has it too: "Changing the
administrator credential used to authenticate requires coordination with the
server's current credential or a separately supplied administrator API key"
(`docs/integration.md:178-180`; `:232-233` says it of Navidrome).  What is shown is
that a job with one secret for both never makes this worse (OwnSignInKept), and
that all is as declared once people have put it right.

### Why these bounds are enough

One crash or failure can strike at every step of every run, and runs repeat
without bound, so each run meets the remains of a failed one.  Further failures
are there where a recovery path may itself fail (kill in the cleanup after a
failed copy, and power loss after both; a refused request inside a rollback; a
second failure after a lost fingerprint; a late write of the run that was to
repair the first).  Two torrents are what it takes for a listing and a request
to differ in part, two services with a timer for the order in which units are
asked to matter, three paths for an addition, a removal and a path that stays,
two declared objects for a reference and for one object to be written from a
listing that the other's write has made old.  Five ids are two objects at first,
two created ones and one that people add; an id is never used again.  Free space
matters by its relation to two marks, hence three values.  Three calls are a
read, a write and another read around it.  The proofs remove the bounds from
every safety property they cover.

### Fairness

- `WF(Reconcile \/ Finish)` and `WF(Job)`: a timer with OnUnitInactiveSec starts
  each unit again a fixed time after its last end, failed or not
  (`modules/operations/default.nix:643`, `modules/integration/default.nix:580`);
  requests end, by the timeouts of their sockets (20 s in the guard, 15 s in the
  adapters) or by their units' start limits.  The backup job is started by the host's schedule, and its
  commands are taken to end.
- `WF(\E u : Settles(u))`: a unit that is stopping stops, by its stop timeout.
- `WF(Network)` in ResourceUpdate: a write that is under way arrives or is lost.
- `WF(Program)` in Transport: attempts and pauses end, or the unit's limit ends
  them.  Nothing is asked of the application, which may never answer.
- Nothing else is fair: people, disks, other applications and failures owe
  nothing.  Failures are bounded, so the liveness properties speak of what
  happens after the last one.

TransportFaults turns deadlock checking off: it models one run, which ends.

## 4. What is proved

The theorems hold for any torrents, units, timers, paths, indexers, actions and
passwords, any times and marks, any number of objects and calls, and for any
number of failures, kills and edits (the bounds are only known to be natural
numbers).  They assume what the modules' named ASSUMEs say: `ResumeBytes >
PauseBytes`, which `modules/operations/default.nix` asserts; a queue that is no
torrent; timers that are units and start services; a fingerprint value that is
no password; a deadline that, with a nap and the pauses of four attempts, fits the
unit's start limit (the attempts may last as long as they like).  TLC evaluates these on every run.

| Theorem | Says |
|---|---|
| StoragePressureProofs: TypeCorrect, Invariance, HeldOwned, UncertainPauses, UserStopsKept, Hysteresis | types; the invariant; ownership of what the guard stopped; the two safety properties of resuming; no start below the upper mark |
| StoragePressureProofs: ContractKept, ContractSafe | the guard implements PauseContract; what follows from the contract alone |
| StoragePressureProofs: RestingTells, HealthIsGuard, ContractUnderHealth | of PressureHealth: the endpoint hides no pressure at rest, but for a bounded time after a reboot; with its markers the guard is still the guard, so that all its theorems and the contract hold |
| RecoveryStagingProofs: TypeCorrect, Invariance, ConsistentCopy, DownJournaled, WritersBack, ForeignStays | types; the invariant; what restic reads; the journal names whom the job stopped; writers are back first; other people's directories stay |
| RecoveryStagingProofs: WindowKept, WindowSafe | the job implements MaintenanceWindow; what follows from the contract alone |
| DatabaseRestoreProofs: RestoreSafety, Alone, BesideIsStaging, WindowBesideRestore | the invariant; pg_restore is alone unless a backup owed a start; a restore takes nothing from what the backup job promises |
| LibraryUpdateProofs: TypeCorrect, CoveredThrough, RollbackExact, ExtraStays, KeepsInBootstrap, Idempotence | types; paths are covered through one refusal; a complete rollback is exact; undeclared options stay; bootstrap mode leaves alone; one run settles all libraries for good |
| AccountUpdateProofs: Safety, FingerprintSafety, PolicySafety, KeepsInBootstrap, SignInKept, Idempotence | the invariant; fingerprints do not lie; new accounts do not rest with the server's policy; bootstrap mode leaves alone; no self-made lock-out; one run settles the account |
| FilterUpdateProofs: TypeCorrect, Inductive, NeverHalfLive, FailureDisables, IndexersStay, KeepsInBootstrap, Idempotence | types; the invariant; the three promises on filters; bootstrap mode leaves alone; one run settles client and filter |
| ResourceUpdateProofs: Safety, KeepsOthers, CreatesOnce, KeepsInBootstrap, ClosesLast, Idempotence | the invariant; the action properties of ResourceFaults, idempotence among them |
| TransportProofs: Safety, Implements, PromiseSafe, InTime | the invariant; Transport implements OneCall; what follows from the contract alone; the readiness wait keeps its deadline and, without a slow attempt, the unit's limit |

So every safety property of the passing runs is proved, invariants, action
properties and refinements alike.  Type correctness and the invariants below have
no run of their own: TLC checked each of them on the instance of its module's run
before the proof was begun, and the theorems say what such a run would say.  The
same goes for ResticReadsConsistentCopy, DownIsJournaled and
WritersBackBeforeRestic, which KeepsWindow comprises.

Every proof goes by an inductive invariant, `IInv` (`RestoreIInv` in
DatabaseRestore):

- StoragePressure.  HeldIsOwned speaks of rest only.  During a run one needs that
  the run's copy owns all the guard holds (OwnerInv), that a request names no item
  whose stop is a person's or unsure (RequestInv), and that a guard's item is
  still reported as a stopped download (StopperInv), because the release drops
  from its ownership whatever is not reported so.
- PressureHealth.  Its steps are steps of the guard, with `Publish` for
  `Finish`, so the guard's invariant holds.  A run that ends without a clean
  publication leaves its unit failed, which has a check of its own, or was
  interrupted by a reboot, until the next run ends (`booted`).
- RecoveryStaging.  The copy is consistent because timers that were sampled
  inactive stay so and the others are stopped before the verification (QuietInv):
  a service verified inactive can then be started by nobody.  JournalInv carries
  the journal from its writing to the stop, CopyInv the whole copy through the
  `finally`.  A power loss needs no case of its own: it leaves `pc` idle.
  ForeignKept needs that a foreign directory is met by an idle job or by the
  cleanup's first look alone.
- DatabaseRestore.  While the command asks, a unit it has passed can run again
  only through a timer it has yet to ask, which then makes it leave.  A backup
  that begins during pg_restore samples nothing active and so owes nothing.
- LibraryUpdate.  ForwardInv and UndoInv say at which of the met, added and
  removed paths each loop stands.  Without people and lost answers the listing is
  true of what is yet to do (TodoInv).  What people and losses cannot spoil is
  weaker, and enough for the properties that do not ask for calm: what the
  listing misses is missing until the job comes to it, and, while people keep
  out, undeclared options are as listed (KeepInv of the proof module).
- AccountUpdate.  The password that was right at the sign-in still is when
  Jellyfin asks for it again (WrittenInv).  A run that is about to save has written the password it will
  record, or a person has chosen one since (RunInv); the server's policy lasts
  until the policy request or a failure (PolicyInv).
- FilterUpdate.  From the disabling request on, the filter is disabled and lacks
  only the actions still planned (UpdateInv).
- The two `OwnInv`, for bootstrap mode: what the run writes is absent when the
  run decides to create it, and nobody creates it meanwhile.
- ResourceUpdate.  The invariant says of the step at hand, or of the late write,
  what of its snapshots is still true: the listing for the names that are still
  to be written (ListInv), the settings (ReadInv), and what Seerr's onboarding
  has put in place (SetupInv), each but for what people touched.  The programs
  enter by a few facts only (lemmas Order and WritesAfterList): a write comes
  after a listing, and no name is written twice from one.  A write that is due
  is then harmless wherever it takes effect, in its run or late (WriteSafe,
  ReplaceSafe, DueFacts).  That Bazarr's next free id is well defined takes the
  existence of a maximum, which follows from the well-foundedness of `<`.
- The refinements.  Initial states map to initial states; each action maps to one
  action of the contract, several, or a stutter, and which one is said step by
  step in `ContractKept` and `WindowKept`.  They need the detailed invariant where
  the contract asks for more than a guard of the code says: that a copy counts as
  good only if no writer ran (QuietInv, CopyInv), that a note may be struck off
  because nobody is owed (JournalInv), that a save leaves out what the guard has
  no right to (OwnerInv).  ContractSafe, WindowSafe and PromiseSafe
  then are theorems about the contracts, whose few actions preserve `Safe`; TLC
  has checked it on the contracts alone.  `PressureHealth` and
  `DatabaseRestore` are shown to take steps of the guard and of the backup job
  only, so that the contracts hold there at no further cost.
- Idempotence.  That what is settled stays so is a matter of one step: `Settled`
  includes that a run that may be under way has found nothing else, and no action
  of the job leads out of it.  That a run settles is one of induction over the
  run: DoneInv (LibraryUpdate), WrittenInv (AccountUpdateProofs), ClientInv
  (FilterUpdateProofs) and RunInv (ResourceUpdate) say what the steps so far have
  put in order.  In ResourceUpdate this is where the orders
  of the programs matter (OrderBefore): no step undoes what an earlier one has
  done, because Servarr's first object, which the second refers to, is written
  before the second is looked at, and Seerr's library is enabled after the
  synchronisation.  A step that is passed over was in order before (PassOrders),
  one that writes puts its own in order (WriteOrders); for Bazarr both are read
  off the collection that is sent (MergedNamed, ReplaceDone).
- Transport.  For each write, attempts on their way and effects are at most one
  together (CallInv), an answer that was given is one the contract allows
  (ReplyInv), and each attempt of the wait begins no later than the deadline, a
  nap and what the attempts before it cost, Room each and a pause, unless one of
  them was slow (ClockInv).  Every step then is one of
  OneCall or leaves its variables alone.

### What is only model-checked

Liveness (ShortSpaceHolds, RoomReleases, DownOnlyIfUnclaimable, BackupsGoOn,
RunEnds and the four Converges) stays with TLC: TLAPS does not do ENABLED.  So do
the violations, which are single behaviours.

## 5. What the models leave out

- Text, logging, JSON layout, HTTP details, TLS and the checks on URLs.  A wrong
  type in an answer ends a run like a refused request.
- Dry runs, which write nothing.
- In LibraryUpdate, AccountUpdate and FilterUpdate a request that times out has
  taken effect or has not when its failure is seen.  Effects that come later still
  are in Transport and in ResourceUpdate.
- The servers' rules for accounts other than the one a job manages, and a declared
  policy that takes the administrator's rights from the account the job signs in
  with.
- In ResourceUpdate: two declared objects, one set of settings; the allow-lists of
  endpoints and fields, which are configuration; Bazarr's enabled languages, which
  are merged as its profiles are; the sign-in that creates Seerr's owner.
- The prepare commands, database dumps and copies of a stage are one step with a
  beginning and an end.  `validate_target` is taken to pass.
- Only the writer journal can be torn.  Files replaced by rename are whole; loss
  of a rename by a file system that reorders it is left out.
- One account, one filter and one client stand for several: the jobs take them
  one after the other, and the state of one does not enter the next.
- A person who creates a library or an account of the declared name between the
  listing and the creation request (the server refuses the second of the name).

Seen while modelling, and stated here rather than by a run:

- The answer to autobrr's enabling request is lost: the run fails and the filter
  is live and complete.  FailedUpdateDisables speaks of the steps before.
- An indexer, an option of a library or a field of a provider that a person
  changes between the job's read and its write is lost: the code writes whole
  objects and lists, and `docs/setup.md:156` asks people to keep off them.
- A torrent that completes between the listing and the stop request is stopped
  as a seeding one.
- Jellyfin's encoding options in bootstrap mode are written after
  `/Startup/Complete`; a run broken off between the two leaves them unset for
  good, as later runs find the wizard completed.
- A failed guard run publishes no marker, so `paused` and `ready` may both be
  older than the journal; RestingHealthTellsPressure holds because the failed
  unit is reported by its own check, which a reboot resets.
- A password that is changed in the server alone cannot be told from the declared
  one by anything the job reads (`docs/autobrr.md:40-43` says it of the same
  fingerprints).

Not modelled: see `components` in `PROJECT.json`.  Nix evaluation (catalogue,
profiles, options, assertions) has no state; key extraction and the downloader
credentials are single sequential steps over one file before its only reader
starts; VPN confinement is settings of units and namespaces.  The remaining
checks of `diagnose` look at things outside every module (handshakes, listeners,
hard links) and are combined by taking the worst.

## 6. Plan

In this order; each module brings its runs, variants and proofs.

1. **Late effects** in LibraryUpdate, AccountUpdate and FilterUpdate, as
   ResourceUpdate has them.
2. **Onboarding** of Jellyfin and Navidrome: which step of a first start is
   repeated after a failure and which is not.  Jellyfin's could be one more
   program of ResourceUpdate, with the order of Seerr's turned round.
3. **Health aggregation**: `diagnose` over all classes of checks, with the age of
   the backup stamp over RecoveryStaging; the doctor's exit code.
4. **Start-up**: mount guard, storage preparation, readiness probes and the
   ordering of producers and consumers, with the migration guard for the Servarr
   databases.
