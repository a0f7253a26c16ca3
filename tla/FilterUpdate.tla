--------------------------- MODULE FilterUpdate ---------------------------
(***************************************************************************)
(* A release filter of autobrr under its adapter,                          *)
(* src/scripts/integration/autobrr.py.  A job that a timer starts again    *)
(* and again brings the download client, the filter, its indexers and its  *)
(* actions to their declaration, request by request.  While it is enabled  *)
(* the filter acts on every announcement that comes in, so the job         *)
(* disables it before a change and enables it at the end.                  *)
(*                                                                         *)
(* A request can be refused, or be carried out with its answer lost; the   *)
(* job can be killed.  People work with the same filter.                   *)
(***************************************************************************)
EXTENDS Naturals

CONSTANTS
  Indexers,           \* the indexers of the provider accounts
  Selected,           \* spec["indexers"]
  Actions,            \* spec["actions"], by name
  Enabled,            \* values["enabled"]
  MaxEdits,           \* bound: changes people make
  MaxFaults           \* bound: requests refused, answers lost, runs killed

ASSUME SelectedAssumption == Selected \subseteq Indexers
ASSUME EnabledAssumption == Enabled \in BOOLEAN
ASSUME BudgetAssumption ==
  MaxEdits \in Nat /\ MaxFaults \in Nat

VARIABLES
  mode,      \* config["mode"]
  client,    \* the download client on the server
  known,     \* the saved fingerprints are those of the declared secrets
  provided,  \* the server has the selected indexers
  filter,    \* the filter on the server
  seen,      \* what the run read of it (`current`)
  seenClient,
  created,   \* the run created the filter
  pc,        \* the job's next request; "idle" between jobs
  planned,   \* the actions still to be written
  desired,   \* `desired_ids`
  half,      \* history: the job's writes left the filter less than complete
  spent      \* what has happened so far, against the bounds

server == <<client, provided, filter>>
run == <<seen, seenClient, created, planned, desired>>
vars == <<mode, client, known, provided, filter, seen, seenClient, created, pc,
          planned, desired, half, spent>>

Steps == {"idle", "lists", "client", "save", "filter", "create", "disable",
          "actions", "enable"}
Modes == {"managed", "bootstrap"}
Objects == {"absent", "other", "declared"}

\* `policy` stands for all values but `enabled`.
Filters == [exists : BOOLEAN, enabled : BOOLEAN, policy : {"other", "declared"},
            indexers : SUBSET Indexers, actions : [Actions -> Objects]]
Spending == [edits : Nat, intrusions : Nat, faults : Nat]

TypeOK ==
  /\ mode \in Modes
  /\ client \in Objects /\ seenClient \in Objects
  /\ known \in BOOLEAN /\ provided \in BOOLEAN /\ created \in BOOLEAN /\ half \in BOOLEAN
  /\ filter \in Filters /\ seen \in Filters
  /\ pc \in Steps
  /\ planned \in SUBSET Actions /\ desired \in SUBSET Indexers
  /\ spent \in Spending

NoFilter == [exists |-> FALSE, enabled |-> FALSE, policy |-> "other",
             indexers |-> {}, actions |-> [a \in Actions |-> "absent"]]

Init ==
  /\ mode \in Modes
  /\ client \in {"absent", "other"} /\ known = FALSE
  /\ provided \in BOOLEAN
  /\ filter \in {NoFilter} \cup {f \in Filters : f.exists}
  /\ seen = NoFilter /\ seenClient = "absent" /\ created = FALSE
  /\ pc = "idle" /\ planned = {} /\ desired = {}
  /\ half = FALSE
  /\ spent = [edits |-> 0, intrusions |-> 0, faults |-> 0]

\* Everything declared of the filter but whether it is enabled.
Complete(f) ==
  /\ f.exists /\ f.policy = "declared" /\ Selected \subseteq f.indexers
  /\ \A a \in Actions : f.actions[a] = "declared"

---------------------------------------------------------------------------
(* The requests that write, as the server carries them out. *)

WriteClient == client' = "declared" /\ UNCHANGED <<filter, half>>

Write(f) ==
  /\ filter' = f
  /\ half' = ~Complete(f)
  /\ UNCHANGED client

\* POST /api/filters: always disabled at first.
CreateFilter ==
  Write([NoFilter EXCEPT !.exists = TRUE, !.policy = "declared"])

\* Variants: the filter stays as enabled as it was; it is disabled for new
\* values only; the declared indexers take the place of the others.
DisableNot ==
  Write([filter EXCEPT !.policy = "declared",
                       !.indexers = IF desired # seen.indexers THEN desired ELSE @])
DisableForPolicy ==
  Write([filter EXCEPT !.policy = "declared",
                       !.enabled = @ /\ seen.policy = "declared",
                       !.indexers = IF desired # seen.indexers THEN desired ELSE @])
DisableSelecting ==
  Write([filter EXCEPT !.policy = "declared", !.enabled = FALSE, !.indexers = Selected])

\* PATCH /api/filters: all the declared values; the indexers only if some are
\* missing, and then the whole list.
Disable ==
  Write([filter EXCEPT !.policy = "declared", !.enabled = FALSE,
                       !.indexers = IF desired # seen.indexers THEN desired ELSE @])

\* PUT or POST /api/actions.
WriteAction(a) == Write([filter EXCEPT !.actions[a] = "declared"])

Enable == Write([filter EXCEPT !.enabled = TRUE])

---------------------------------------------------------------------------
(* One run of the job. *)

StartJob ==
  /\ pc = "idle"
  /\ pc' = "lists"
  /\ UNCHANGED <<mode, server, known, run, half, spent>>

Lists ==
  /\ pc = "lists"
  /\ seen' = filter /\ seenClient' = client
  /\ pc' = "client"
  /\ UNCHANGED <<mode, server, known, created, planned, desired, half, spent>>

\* Variant: the redacted secrets are replayed in every run.
ClientInOrderNever == mode = "bootstrap"

\* A client is left alone in bootstrap mode, or if it is as declared and its
\* secrets have the saved fingerprints.
ClientInOrder == mode = "bootstrap" \/ (seenClient = "declared" /\ known)

ClientKept ==
  /\ pc = "client"
  /\ seenClient # "absent" /\ ClientInOrder
  /\ pc' = "filter"
  /\ UNCHANGED <<mode, server, known, run, half, spent>>

ClientWritten ==
  /\ pc = "client"
  /\ seenClient = "absent" \/ ~ClientInOrder
  /\ WriteClient
  /\ pc' = "save"
  /\ UNCHANGED <<mode, provided, known, run, spent>>

\* save_state replaces the file by a rename.
SaveFingerprints ==
  /\ pc = "save"
  /\ known' = TRUE
  /\ pc' = "filter"
  /\ UNCHANGED <<mode, server, run, half, spent>>

\* The run is over, and what it knew is gone with the process.
Exit ==
  /\ pc' = "idle"
  /\ seen' = NoFilter /\ seenClient' = "absent" /\ created' = FALSE
  /\ planned' = {} /\ desired' = {}

Goes(f, isNew) ==
  /\ pc' = "disable"
  /\ seen' = f /\ created' = isNew /\ UNCHANGED seenClient
  /\ planned' = {a \in Actions : f.actions[a] # "declared"}
  /\ desired' = f.indexers \cup Selected

\* Variant: whether it is enabled is not compared.
PlanContents(f, isNew) ==
  \/ (isNew \/ ~Complete(f)) /\ Goes(f, isNew)
  \/ ~isNew /\ Complete(f) /\ Exit

\* What there is to do about a filter that was read as f: `planned`, the new
\* list of indexers, or nothing.
Plan(f, isNew) ==
  \/ (isNew \/ ~Complete(f) \/ f.enabled # Enabled) /\ Goes(f, isNew)
  \/ ~isNew /\ Complete(f) /\ f.enabled = Enabled /\ Exit

\* Variant: the mode is not asked for.
FilterManaged ==
  /\ pc = "filter"
  /\ \/ seen.exists /\ provided /\ Plan(filter, FALSE)
     \/ ~seen.exists /\ provided /\ pc' = "create" /\ UNCHANGED run
     \/ ~provided /\ Exit
  /\ UNCHANGED <<mode, server, known, half, spent>>

\* An existing filter is read in detail, in managed mode; selected indexers
\* that are missing end the run.
Filter ==
  /\ pc = "filter"
  /\ \/ seen.exists /\ mode = "bootstrap" /\ Exit
     \/ seen.exists /\ mode = "managed" /\ provided /\ Plan(filter, FALSE)
     \/ ~seen.exists /\ provided /\ pc' = "create" /\ UNCHANGED run
     \/ ~(seen.exists /\ mode = "bootstrap") /\ ~provided /\ Exit
  /\ UNCHANGED <<mode, server, known, half, spent>>

Create ==
  /\ pc = "create"
  /\ CreateFilter
  /\ Plan(filter', TRUE)
  /\ UNCHANGED <<mode, provided, known, spent>>

\* No filter processes announcements while its associations change.
DisableFilter ==
  /\ pc = "disable"
  /\ Disable
  /\ pc' = "actions"
  /\ UNCHANGED <<mode, provided, known, run, spent>>

Action(a) ==
  /\ pc = "actions" /\ a \in planned
  /\ WriteAction(a)
  /\ planned' = planned \ {a}
  /\ UNCHANGED <<mode, provided, known, pc, seen, seenClient, created, desired, spent>>

ActionsDone ==
  /\ pc = "actions" /\ planned = {}
  /\ \/ Enabled /\ pc' = "enable" /\ UNCHANGED run
     \/ ~Enabled /\ Exit
  /\ UNCHANGED <<mode, server, known, half, spent>>

EnableFilter ==
  /\ pc = "enable"
  /\ Enable
  /\ Exit
  /\ UNCHANGED <<mode, provided, known, spent>>

---------------------------------------------------------------------------
(* What goes wrong: every error ends the run. *)

Fault ==
  /\ spent.faults < MaxFaults
  /\ spent' = [spent EXCEPT !.faults = @ + 1]
  /\ Exit

Refused ==
  /\ \/ pc \in {"lists", "client", "filter", "create", "disable", "enable"}
     \/ pc = "actions" /\ planned # {}
  /\ Fault
  /\ UNCHANGED <<mode, server, known, half>>

\* The request of this step takes effect.
Effect ==
  \/ pc = "client" /\ (seenClient = "absent" \/ ~ClientInOrder) /\ WriteClient
  \/ pc = "create" /\ CreateFilter
  \/ pc = "disable" /\ Disable
  \/ pc = "actions" /\ \E a \in planned : WriteAction(a)
  \/ pc = "enable" /\ Enable

\* The answer is lost, or the run killed with its request on the way.
AnswerLost ==
  /\ Effect
  /\ Fault
  /\ UNCHANGED <<mode, provided, known>>

\* The unit's five minutes, a reboot, or the state file cannot be written.
Killed ==
  /\ pc # "idle"
  /\ Fault
  /\ UNCHANGED <<mode, server, known, half>>

---------------------------------------------------------------------------
(* People. *)

\* A person makes the filter into another one, enabled or not, or, between
\* runs, creates or deletes it; whatever it now lacks is by their choice.
EditFilter(f) ==
  /\ spent.edits + spent.intrusions < MaxEdits
  /\ \/ pc = "idle" /\ spent' = [spent EXCEPT !.edits = @ + 1]
     \/ pc # "idle" /\ spent' = [spent EXCEPT !.intrusions = @ + 1]
  /\ f # filter
  /\ f.exists \/ f = NoFilter
  /\ pc # "idle" => filter.exists /\ f.exists
  /\ filter' = f /\ half' = FALSE
  /\ UNCHANGED <<mode, client, known, provided, pc, run>>

\* Between runs the client is changed or deleted (another one has another id
\* and no fingerprints), the provider account comes or goes.
EditRest ==
  /\ pc = "idle"
  /\ spent.edits + spent.intrusions < MaxEdits
  /\ spent' = [spent EXCEPT !.edits = @ + 1]
  /\ \/ /\ client' \in Objects \ {client} /\ UNCHANGED provided
        /\ known' = (known /\ client # "absent" /\ client' # "absent")
     \/ provided' = ~provided /\ UNCHANGED <<client, known>>
  /\ UNCHANGED <<mode, filter, half, pc, run>>

---------------------------------------------------------------------------
Job ==
  \/ StartJob \/ Lists \/ ClientKept \/ ClientWritten \/ SaveFingerprints
  \/ Filter \/ Create \/ DisableFilter \/ ActionsDone \/ EnableFilter
  \/ \E a \in Actions : Action(a)

Failure == Refused \/ AnswerLost \/ Killed

Next == Job \/ Failure \/ EditRest \/ \E f \in Filters : EditFilter(f)

Spec == Init /\ [][Next]_vars

\* The timer starts the job a quarter of an hour after the last one ended, and
\* every request ends within its timeout.
FairSpec == Spec /\ WF_vars(Job)

---------------------------------------------------------------------------
(* Properties. *)

\* People have kept out of the runs.
Undisturbed == spent.intrusions = 0

Edited == spent'.edits # spent.edits \/ spent'.intrusions # spent.intrusions

\* A filter that the job has changed in part is not enabled: no announcement
\* meets new values with old indexers or actions (autobrr.py:421), wherever a
\* run fails, loses an answer or is killed.
NoHalfChangedFilterLive == Undisturbed /\ half => ~filter.enabled

\* A failed operation leaves the filter disabled (docs/autobrr.md:19): an
\* update that ends before the enabling request has left it so.  (If only the
\* answer to that request is lost, the run has failed and the filter is live.)
FailedUpdateDisables ==
  [][Undisturbed' /\ pc = "actions" /\ pc' = "idle" => ~filter'.enabled]_vars

\* Managed updates preserve undeclared indexer associations
\* (docs/autobrr.md:29): no step of the job takes an indexer away.  (One that
\* a person adds between the detail read and the request is lost:
\* docs/setup.md:156 asks them to "avoid concurrent UI edits".)
IndexersKept ==
  [][Undisturbed /\ ~Edited => filter.indexers \subseteq filter'.indexers]_vars

\* Bootstrap preserves an existing filter completely (docs/autobrr.md:31),
\* one that an interrupted run left behind included.
BootstrapKeeps ==
  [][mode = "bootstrap" /\ ~Edited /\ filter.exists /\ ~created
       => filter' = filter]_vars

\* Whatever failed, managed mode ends up with the declaration, once the
\* provider account is there to stay, and with the client's fingerprints
\* saved; in bootstrap mode the filter comes to exist.
Converges ==
  <>[]provided =>
    <>[](/\ filter.exists
         /\ mode = "managed" => /\ Complete(filter) /\ filter.enabled = Enabled
                                /\ client = "declared" /\ known)

\* The client and the filter are as declared, and the run that may be under
\* way has listed them so.
Settled ==
  /\ filter.exists /\ client # "absent"
  /\ mode = "managed" => /\ Complete(filter) /\ filter.enabled = Enabled
                         /\ client = "declared" /\ known
  /\ pc \in {"idle", "lists", "client", "filter"}
  /\ pc \in {"client", "filter"} => seen.exists
  /\ pc = "client" => seenClient # "absent" /\ (mode = "managed" => seenClient = "declared")

\* They are settled for good: no run disables the filter or replays a secret
\* again, failing runs included, until a person changes something
\* (tests/integration/test_autobrr.py:290; docs/autobrr.md:40).
StaysSettled ==
  [][Settled /\ ~Edited => Settled' /\ UNCHANGED <<client, known, filter>>]_vars

\* One run settles them, whatever earlier runs left half done, if nothing fails,
\* nobody intrudes and the provider account is there.
RunSettles ==
  [][pc # "idle" /\ pc' = "idle" /\ spent' = spent /\ Undisturbed /\ provided
       => Settled']_vars

\* The job is idempotent: one run does all there is to do, the next nothing.
Idempotent == RunSettles /\ StaysSettled

---------------------------------------------------------------------------
(* The inductive invariant behind the first three properties.                *)

\* While the update is under way the filter is disabled, and lacks only what
\* is still planned.
UpdateInv ==
  /\ pc \in {"actions", "enable"} =>
       /\ ~filter.enabled /\ filter.exists
       /\ filter.policy = "declared" /\ Selected \subseteq filter.indexers
       /\ \A a \in Actions \ planned : filter.actions[a] = "declared"
  /\ pc = "enable" => planned = {}
  /\ pc = "disable" =>
       /\ filter.exists
       /\ desired = filter.indexers \cup Selected /\ seen.indexers = filter.indexers
       /\ \A a \in Actions \ planned : filter.actions[a] = "declared"
  /\ pc \in {"client", "save", "filter"} => seen = filter
  /\ pc = "create" => ~filter.exists
  /\ ~filter.exists => filter.indexers = {}

IInv == TypeOK /\ (Undisturbed => UpdateInv /\ NoHalfChangedFilterLive)
==========================================================================
