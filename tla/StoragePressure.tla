------------------------- MODULE StoragePressure -------------------------
(***************************************************************************)
(* The storage pressure guard, src/scripts/operations/pressure.py: a       *)
(* oneshot service that a timer starts again a minute after each run.  A   *)
(* run measures the download filesystem, stops what is downloading while   *)
(* space is short, resumes what it stopped once there is room, and keeps   *)
(* what it owns in a journal on disk.                                      *)
(*                                                                         *)
(* Around the guard act the two downloaders, the people and applications   *)
(* that use their queues, and the disk.  A request to a downloader can be  *)
(* refused, or be carried out with its answer lost; the guard can be       *)
(* killed between any two steps, and the host can restart at any time.     *)
(***************************************************************************)
EXTENDS Naturals

CONSTANTS
  Torrents,            \* the torrents qBittorrent may hold
  Queue,               \* SABnzbd's one global queue
  Clients,             \* the names in config["clients"]
  Capacity,            \* bound: available bytes range over 0..Capacity
  PauseBytes, ResumeBytes,
  UserDuringPressure,  \* may people touch a queue while the journal says "pressured"?
  MaxMoves,            \* bound: changes other actors make to the queues
  MaxApiFaults,        \* bound: requests that fail or lose their answer
  MaxCrashes           \* bound: runs killed before they end, and reboots

ASSUME QueueAssumption == Queue \notin Torrents
ASSUME ClientsAssumption ==
  Clients \subseteq {"qbittorrent", "sabnzbd"} /\ Clients # {}
ASSUME BytesAssumption ==
  /\ Capacity \in Nat /\ PauseBytes \in Nat /\ ResumeBytes \in Nat
  /\ ResumeBytes > PauseBytes
ASSUME UserAssumption == UserDuringPressure \in BOOLEAN
ASSUME BoundsAssumption == MaxMoves \in Nat /\ MaxApiFaults \in Nat /\ MaxCrashes \in Nat

Items == Torrents \cup {Queue}

VARIABLES
  available,  \* f_bavail * f_frsize of the download filesystem
  storage,    \* "mounted", "unmounted" or "missing" (no download directory)
  phase,      \* what qBittorrent does with each torrent
  halted,     \* the items stopped in their downloader
  pc,         \* where the run is; "idle" between runs
  state,      \* the run's copy of the journal
  request,    \* the items the request being sent names
  failed,     \* the run's `failures`; between runs, the unit's result, which
              \* systemd forgets at a reboot
  journal,    \* state.json on disk
  stopper,    \* history: who stopped each item last
  roomSeen,   \* history: since the guard's last stop a run measured ResumeBytes,
              \* or a killed run lost the mode
  spent       \* how much of each bound is used

disk == <<available, storage>>
queues == <<phase, halted, stopper>>
guard == <<pc, state, request, failed>>
vars == <<available, storage, phase, halted, pc, state, request, failed,
          journal, stopper, roomSeen, spent>>

Phases == {"absent", "downloading", "checking", "complete"}
Stoppers == {"nobody", "guard", "lost", "hidden", "user", "contested", "meddled"}
Steps == {"idle", "qbitList", "qbitSend", "sabQueue", "sabSend", "save", "done"}
Journals == [pressured : BOOLEAN, qbittorrent : SUBSET Torrents, sabnzbd : BOOLEAN]

Spending == [moves : Nat, faults : Nat, crashes : Nat]

OwnedItems(record) ==
  record.qbittorrent \cup (IF record.sabnzbd THEN {Queue} ELSE {})

TypeOK ==
  /\ available \in 0..Capacity
  /\ storage \in {"mounted", "unmounted", "missing"}
  /\ phase \in [Torrents -> Phases]
  /\ halted \in SUBSET Items
  /\ pc \in Steps
  /\ state \in Journals /\ journal \in Journals
  /\ request \in SUBSET Items
  /\ failed \in BOOLEAN
  /\ stopper \in [Items -> Stoppers]
  /\ roomSeen \in BOOLEAN
  /\ spent \in Spending

NoJournal == [pressured |-> FALSE, qbittorrent |-> {}, sabnzbd |-> FALSE]

Init ==
  /\ available \in 0..Capacity
  /\ storage \in {"mounted", "unmounted", "missing"}
  /\ phase \in [Torrents -> {"absent", "downloading"}]
  /\ halted = {}
  /\ pc = "idle" /\ state = NoJournal /\ request = {} /\ failed = FALSE
  /\ journal = NoJournal
  /\ stopper = [i \in Items |-> "nobody"]
  /\ roomSeen = TRUE
  /\ spent = [moves |-> 0, faults |-> 0, crashes |-> 0]

---------------------------------------------------------------------------
(* The downloaders, as the guard's requests see them. *)

\* The hashes whose reported state is one of the six states of an
\* unfinished download that is not stopped.
Active == {t \in Torrents : phase[t] = "downloading" /\ t \notin halted}
\* The hashes reported as stoppedDL.
StoppedDownloads == {t \in Torrents : phase[t] = "downloading" /\ t \in halted}

\* A stop, or a pause of the queue, carried out for `items`; a torrent that
\* has gone meanwhile is skipped, one stopped meanwhile stays as it is.
Halt(items, by) ==
  LET now == {i \in items : i \notin halted /\ (i # Queue => phase[i] # "absent")}
  IN  /\ halted' = halted \cup now
      /\ stopper' = [i \in Items |-> IF i \in now THEN by[i] ELSE stopper[i]]

Release(items) ==
  /\ halted' = halted \ items
  /\ stopper' = [i \in Items |-> IF i \in items THEN "nobody" ELSE stopper[i]]

---------------------------------------------------------------------------
(* One run of the guard. *)

\* Variants: one threshold for both modes; absent storage not looked at.
PressuredOneMark(previous) == storage # "mounted" \/ available < PauseBytes
PressuredBySpace(previous) == available < (IF previous THEN ResumeBytes ELSE PauseBytes)

\* The run's decision: the lower mark when the journal says "not pressured",
\* the upper one when it says "pressured".  Absent storage always presses.
Pressured(previous) ==
  \/ storage # "mounted"
  \/ available < (IF previous THEN ResumeBytes ELSE PauseBytes)

AfterQbit == IF "sabnzbd" \in Clients THEN "sabQueue" ELSE "save"

Start ==
  /\ pc = "idle"
  /\ state' = [journal EXCEPT !.pressured = Pressured(journal.pressured)]
  /\ failed' = FALSE
  /\ request' = {}
  /\ roomSeen' = (roomSeen \/ (storage = "mounted" /\ available >= ResumeBytes))
  /\ pc' = IF "qbittorrent" \in Clients THEN "qbitList" ELSE AfterQbit
  /\ UNCHANGED <<disk, queues, journal, spent>>

\* Variants: every stopped download is resumed, not the owned ones; with nobody
\* to resume the ownership is returned as it was.
QbitListAll ==
  /\ pc = "qbitList"
  /\ request' = IF state.pressured THEN Active ELSE StoppedDownloads
  /\ IF request' # {}
       THEN pc' = "qbitSend" /\ UNCHANGED state
       ELSE /\ pc' = AfterQbit
            /\ state' = IF state.pressured THEN state ELSE [state EXCEPT !.qbittorrent = {}]
  /\ UNCHANGED <<disk, queues, failed, journal, roomSeen, spent>>
QbitListKeeping ==
  /\ pc = "qbitList"
  /\ request' = IF state.pressured THEN Active ELSE state.qbittorrent \cap StoppedDownloads
  /\ pc' = IF request' # {} THEN "qbitSend" ELSE AfterQbit
  /\ UNCHANGED <<state, disk, queues, failed, journal, roomSeen, spent>>

\* The list of torrents decides whom the request names; no name, no request.
QbitList ==
  /\ pc = "qbitList"
  /\ request' = IF state.pressured THEN Active ELSE state.qbittorrent \cap StoppedDownloads
  /\ IF request' # {}
       THEN pc' = "qbitSend" /\ UNCHANGED state
       ELSE /\ pc' = AfterQbit
            /\ state' = IF state.pressured THEN state ELSE [state EXCEPT !.qbittorrent = {}]
  /\ UNCHANGED <<disk, queues, failed, journal, roomSeen, spent>>

SabQueue ==
  /\ pc = "sabQueue"
  /\ IF (state.pressured /\ Queue \notin halted)
        \/ (~state.pressured /\ state.sabnzbd /\ Queue \in halted)
       THEN pc' = "sabSend" /\ request' = {Queue} /\ UNCHANGED state
       ELSE /\ pc' = "save" /\ request' = {}
            /\ state' = IF state.pressured THEN state ELSE [state EXCEPT !.sabnzbd = FALSE]
  /\ UNCHANGED <<disk, queues, failed, journal, roomSeen, spent>>

\* Variant: the set of this run's stops instead of the union with the earlier
\* ones.
AnsweredForgetting ==
  IF pc = "qbitSend"
    THEN [state EXCEPT !.qbittorrent = IF state.pressured THEN request ELSE {}]
    ELSE [state EXCEPT !.sabnzbd = state.pressured]

\* What a client's reconcile returns once its request was answered.
Answered ==
  IF pc = "qbitSend"
    THEN [state EXCEPT !.qbittorrent = IF state.pressured THEN @ \cup request ELSE {}]
    ELSE [state EXCEPT !.sabnzbd = state.pressured]

AfterClient == IF pc \in {"qbitList", "qbitSend"} THEN AfterQbit ELSE "save"

\* The request takes effect in its downloader.  A stop whose answer is lost
\* marks its items "lost", unless the journal owned them before; one that
\* reaches a torrent which meanwhile completed, or is checked, marks it
\* "hidden": it is not reported as a stopped download.
StopMark(acknowledged) ==
  [i \in Items |->
    CASE ~(acknowledged \/ i \in OwnedItems(state)) -> "lost"
      [] i \in Torrents /\ phase[i] # "downloading" -> "hidden"
      [] OTHER -> "guard"]

TakeEffect(acknowledged) ==
  /\ IF state.pressured THEN Halt(request, StopMark(acknowledged)) ELSE Release(request)
  /\ roomSeen' = (roomSeen /\ ~state.pressured)

Send ==
  /\ pc \in {"qbitSend", "sabSend"}
  /\ TakeEffect(TRUE)
  /\ state' = Answered
  /\ pc' = AfterClient
  /\ request' = {}
  /\ UNCHANGED <<disk, phase, failed, journal, spent>>

\* Variant: ownership is taken before the answer is there.
ClientFailsOwning ==
  /\ pc \in {"qbitList", "qbitSend", "sabQueue", "sabSend"}
  /\ spent.faults < MaxApiFaults
  /\ \/ UNCHANGED <<halted, stopper, roomSeen>>
     \/ pc \in {"qbitSend", "sabSend"} /\ TakeEffect(FALSE)
  /\ state' = IF pc \in {"qbitSend", "sabSend"} THEN Answered ELSE state
  /\ failed' = TRUE
  /\ pc' = AfterClient
  /\ request' = {}
  /\ spent' = [spent EXCEPT !.faults = @ + 1]
  /\ UNCHANGED <<disk, phase, journal>>

\* Any exception of a client: the login or the listing fails, the request is
\* refused, or it times out with or without having taken effect.  The
\* client's entry in `state` stays what it was and the next client follows.
ClientFails ==
  /\ pc \in {"qbitList", "qbitSend", "sabQueue", "sabSend"}
  /\ spent.faults < MaxApiFaults
  /\ \/ UNCHANGED <<halted, stopper, roomSeen>>
     \/ pc \in {"qbitSend", "sabSend"} /\ TakeEffect(FALSE)
  /\ failed' = TRUE
  /\ pc' = AfterClient
  /\ request' = {}
  /\ spent' = [spent EXCEPT !.faults = @ + 1]
  /\ UNCHANGED <<disk, phase, state, journal>>

\* The new journal replaces the old one by a rename.  A run with a failure
\* ends here; a clean one goes on to the unit's ExecStartPost.
Save ==
  /\ pc = "save"
  /\ journal' = state
  /\ pc' = IF failed THEN "idle" ELSE "done"
  /\ UNCHANGED <<disk, queues, state, request, failed, roomSeen, spent>>

\* The unit's ExecStartPost, where there is one, succeeds or fails the unit.
Finish ==
  /\ pc = "done"
  /\ pc' = "idle"
  /\ failed' \in BOOLEAN
  /\ UNCHANGED <<disk, queues, state, request, journal, roomSeen, spent>>

\* The journal on disk is all that outlives a run that does not reach its end;
\* what the run stopped and did not record is "lost".
Dies ==
  /\ spent.crashes < MaxCrashes
  /\ pc' = "idle"
  /\ request' = {}
  /\ stopper' = [i \in Items |->
       IF i \in OwnedItems(state) \ OwnedItems(journal) /\ stopper[i] = "guard"
         THEN "lost" ELSE stopper[i]]
  /\ spent' = [spent EXCEPT !.crashes = @ + 1]
  /\ state' = journal
  /\ roomSeen' = (roomSeen \/ ~journal.pressured)
  /\ UNCHANGED <<disk, phase, halted, journal>>

\* The run is killed by systemd's two-minute limit, or ends in an error while
\* the journal is written: the unit has failed.
Crash == pc # "idle" /\ Dies /\ failed' = TRUE

\* The host restarts, during a run or between two: systemd knows nothing of
\* the runs before.
Reboot == Dies /\ failed' = FALSE

---------------------------------------------------------------------------
(* The other actors. *)

\* When people manage the queues by hand.
UserMay ==
  /\ spent.moves < MaxMoves
  /\ UserDuringPressure \/ ~journal.pressured

Move == spent' = [spent EXCEPT !.moves = @ + 1]

\* A person stops an item.  If the journal owns it the stop is "contested",
\* and "meddled" if the guard runs at the moment: nothing tells the guard that
\* it is not its own.
StopLabel(i) ==
  IF i \in OwnedItems(journal) THEN "contested" ELSE IF pc = "idle" THEN "user" ELSE "meddled"

UserStops(i) ==
  /\ UserMay /\ i \notin halted
  /\ Halt({i}, [j \in Items |-> StopLabel(j)])
  /\ halted' # halted
  /\ Move
  /\ UNCHANGED <<disk, phase, guard, journal, roomSeen>>

UserStarts(i) ==
  /\ UserMay /\ i \in halted
  /\ Release({i})
  /\ Move
  /\ UNCHANGED <<disk, phase, guard, journal, roomSeen>>

\* A torrent is added running, is taken out, completes, or is checked again:
\* while a check lasts the reported state hides that the torrent is stopped,
\* so a release that happens then passes over it.
TorrentChanges(t) ==
  /\ spent.moves < MaxMoves
  /\ \/ /\ phase[t] = "absent"
        /\ phase' = [phase EXCEPT ![t] = "downloading"]
        /\ UNCHANGED <<halted, stopper>>
     \/ /\ phase[t] # "absent"
        /\ phase' = [phase EXCEPT ![t] = "absent"]
        /\ Release({t})
     \/ /\ t \in Active
        /\ phase' = [phase EXCEPT ![t] = "complete"]
        /\ UNCHANGED <<halted, stopper>>
     \/ /\ phase[t] \in {"downloading", "complete"}
        /\ phase' = [phase EXCEPT ![t] = "checking"]
        /\ stopper' = [stopper EXCEPT ![t] = IF @ = "guard" THEN "hidden" ELSE @]
        /\ UNCHANGED halted
     \/ /\ phase[t] = "checking"
        /\ \E p \in {"downloading", "complete"} : phase' = [phase EXCEPT ![t] = p]
        /\ UNCHANGED <<halted, stopper>>
  /\ Move
  /\ UNCHANGED <<disk, guard, journal, roomSeen>>

DiskChanges ==
  /\ available' \in 0..Capacity
  /\ storage' \in {"mounted", "unmounted", "missing"}
  /\ <<available', storage'>> # <<available, storage>>
  /\ UNCHANGED <<queues, guard, journal, roomSeen, spent>>

Reconcile == Start \/ QbitList \/ SabQueue \/ Send \/ Save

Disturbance ==
  \/ ClientFails
  \/ Crash
  \/ Reboot
  \/ \E i \in Items : UserStops(i) \/ UserStarts(i)
  \/ \E t \in Torrents : TorrentChanges(t)
  \/ DiskChanges

Next == Reconcile \/ Finish \/ Disturbance

Spec == Init /\ [][Next]_vars

\* The timer starts a run a minute after the last one ended, every request
\* times out after 20 s and the unit after 2 min: a run always goes on.  The
\* other actors owe nothing.
FairSpec == Spec /\ WF_vars(Reconcile \/ Finish)

---------------------------------------------------------------------------
(* Properties. *)

\* A step of the run starts item i again.
GuardStarts(i) == pc' # pc /\ i \in halted \ halted'

\* What the guard stopped, heard the answer of and lived to record is owned by
\* the journal until it runs again: a later run under pressure, a failed one
\* or a restart forgets nobody.  The one way out is a torrent that was not
\* reported as a stopped download ("hidden") when the release came.
HeldIsOwned ==
  pc = "idle" => \A i \in halted : stopper[i] = "guard" => i \in OwnedItems(journal)

\* A person's stop, between runs, of an item the journal does not own is never
\* undone by the guard, whatever requests fail, wherever runs are killed and
\* whatever else people do with the queues.
UserStopKept == [][\A i \in Items : GuardStarts(i) => stopper[i] # "user"]_vars

\* A pause whose answer was lost, or that a killed run did not record, gives
\* no right to resume: no automatic resume is unsafe in that way.
UncertainPauseNotResumed == [][\A i \in Items : GuardStarts(i) => stopper[i] # "lost"]_vars

\* Hysteresis: between a stop by the guard and its next start of anything, some
\* run measured ResumeBytes on mounted storage, or a run was killed between the
\* stop and the journal and took the mode with it.
NoToggling == [][\A i \in Items : GuardStarts(i) => roomSeen]_vars

\* The contract's view of a stopped item and of the disk.
Standing == [i \in Items |->
  CASE stopper[i] = "nobody" -> "running"
    [] stopper[i] = "guard" -> "held"
    [] stopper[i] \in {"lost", "user"} -> "kept"
    [] OTHER -> "unclear"]
Space ==
  CASE storage # "mounted" \/ available < PauseBytes -> "short"
    [] storage = "mounted" /\ available >= ResumeBytes -> "ample"
    [] OTHER -> "between"

Pauses == INSTANCE PauseContract WITH
  standing <- Standing, pressed <- state.pressured, saved <- journal.pressured,
  owned <- OwnedItems(journal), resting <- (pc = "idle"), space <- Space,
  moves <- spent.moves

\* The guard keeps the contract of PauseContract (docs/operations.md:169 and
\* :178-185), whatever requests fail or lose their answer, wherever runs are
\* killed and whatever people and applications do with the queues meanwhile.
KeepsContract == Pauses!Spec

\* If space stays short, the downloads end up stopped and the queue paused.
ShortSpaceHolds ==
  <>[](storage # "mounted" \/ available < PauseBytes) =>
    <>[](/\ "qbittorrent" \in Clients => Active = {}
         /\ "sabnzbd" \in Clients => Queue \in halted)

\* If there is room for good, the journal lets go of everything and nothing
\* the guard stopped and recorded stays stopped.
RoomReleases ==
  <>[](storage = "mounted" /\ available >= ResumeBytes) =>
    <>[](OwnedItems(journal) = {} /\ \A i \in halted : stopper[i] # "guard")

---------------------------------------------------------------------------
(* The inductive invariant behind HeldIsOwned, UserStopKept and              *)
(* UncertainPauseNotResumed.                                                 *)

\* The stops that give no right to resume.
NotOurs == {"lost", "user"}

\* Who stopped an item is known exactly while it is stopped, and what the
\* guard holds is reported as a stopped download.
StopperInv ==
  \A i \in Items :
    /\ i \notin halted => stopper[i] = "nobody"
    /\ i \in Torrents /\ stopper[i] = "guard" => phase[i] = "downloading"

\* Whom a request names.
RequestInv ==
  /\ pc = "qbitSend" => request \subseteq Torrents
  /\ pc = "sabSend" => request = {Queue}
  /\ pc \in {"qbitSend", "sabSend"} =>
       /\ ~state.pressured => request \subseteq OwnedItems(state)
       /\ \A i \in request : stopper[i] \notin NotOurs
  /\ pc = "qbitSend" /\ ~state.pressured =>
       \A t \in Torrents : stopper[t] = "guard" => t \in request

\* The run's copy of the journal against the one on disk and the stops.
OwnerInv ==
  /\ pc \in {"idle", "done"} => state = journal
  /\ state.pressured => OwnedItems(journal) \subseteq OwnedItems(state)
  /\ \A i \in Items :
       /\ stopper[i] = "guard" => i \in OwnedItems(state)
       /\ stopper[i] \in NotOurs => i \notin OwnedItems(state) \cup OwnedItems(journal)

IInv == TypeOK /\ StopperInv /\ RequestInv /\ OwnerInv
==========================================================================
