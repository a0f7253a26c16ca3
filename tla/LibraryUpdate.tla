-------------------------- MODULE LibraryUpdate --------------------------
(***************************************************************************)
(* The libraries of Jellyfin under its adapter,                            *)
(* src/scripts/integration/adapters/jellyfin.py.  A job that a timer       *)
(* starts again and again lists the libraries, creates the missing ones    *)
(* and, in managed mode, replaces the paths of the others: it adds the new *)
(* ones, removes the old ones, writes the options, and undoes what it did  *)
(* when one of these requests fails.                                       *)
(*                                                                         *)
(* A request can be refused, or be carried out with its answer lost, or    *)
(* break off with an error the update does not catch; the unit can be      *)
(* killed.  People work with the same libraries.                           *)
(***************************************************************************)
EXTENDS Naturals

CONSTANTS
  Names,              \* the declared libraries
  Paths,              \* the paths a library may have
  Declared,           \* spec["paths"] of each
  Extras,             \* values of the options nobody declares
  MaxEdits,           \* bound: changes people make
  MaxFaults           \* bound: refused requests, lost answers, runs broken off

ASSUME DeclaredAssumption == Declared \in [Names -> SUBSET Paths]
ASSUME BudgetAssumption == MaxEdits \in Nat /\ MaxFaults \in Nat

VARIABLES
  mode,      \* config["mode"]
  library,   \* the server's libraries
  listing,   \* `libraries`: what the job read of them
  pc,        \* the job's next request; "idle" between jobs
  todo,      \* declared names the job has not come to yet
  name,      \* the library being changed
  pending,   \* paths of the running loop that are still to be requested
  added,     \* update_library_paths' `added`
  removed,   \* ... and `removed`
  promised,  \* history: paths of each library when it was last in order
  spent      \* what has happened so far, against the bounds

job == <<listing, pc, todo, name, pending, added, removed>>
vars == <<mode, library, listing, pc, todo, name, pending, added, removed, promised, spent>>

Modes == {"managed", "bootstrap"}
Steps == {"idle", "list", "next", "create", "add", "remove", "options", "readd", "unadd"}

\* `paths` are the locations; `written` says whether the options contain the
\* declared ones, `extra` stands for the rest of them.
Libraries == [exists : BOOLEAN, paths : SUBSET Paths, written : BOOLEAN, extra : Extras]
Spending == [edits : Nat, intrusions : Nat, refusals : Nat, losses : Nat, breaks : Nat]

TypeOK ==
  /\ mode \in Modes
  /\ library \in [Names -> Libraries] /\ listing \in [Names -> Libraries]
  /\ pc \in Steps
  /\ todo \in SUBSET Names /\ name \in Names
  /\ pending \in SUBSET Paths /\ added \in SUBSET Paths /\ removed \in SUBSET Paths
  /\ promised \in [Names -> SUBSET Paths]
  /\ spent \in Spending

Init ==
  /\ mode \in Modes
  /\ library \in [Names -> Libraries]
  /\ \A n \in Names : ~library[n].exists => library[n].paths = {} /\ ~library[n].written
  /\ listing = library
  /\ pc = "idle" /\ todo = {} /\ name \in Names
  /\ pending = {} /\ added = {} /\ removed = {}
  /\ promised = [n \in Names |-> library[n].paths]
  /\ spent = [edits |-> 0, intrusions |-> 0, refusals |-> 0, losses |-> 0, breaks |-> 0]

---------------------------------------------------------------------------
(* The requests, as the server carries them out. *)

\* POST and DELETE /Library/VirtualFolders/Paths: one location more or less.
Attach(p) == library' = [library EXCEPT ![name].paths = @ \cup {p}]
Detach(p) == library' = [library EXCEPT ![name].paths = @ \ {p}]

\* POST /Library/VirtualFolders: a library with the declared options.
CreateLibrary ==
  \E extra \in Extras :
    library' = [library EXCEPT ![name] =
      [exists |-> TRUE, paths |-> Declared[name], written |-> TRUE, extra |-> extra]]

\* Variant: the declared options alone are written.
WriteDeclaredOnly ==
  \E extra \in Extras :
    library' = [library EXCEPT ![name].written = TRUE, ![name].extra = extra]

\* POST /Library/VirtualFolders/LibraryOptions replaces all options by those
\* of the listing merged with the declared ones; it touches no location.
WriteOptions ==
  library' = [library EXCEPT ![name].written = TRUE, ![name].extra = listing[name].extra]

---------------------------------------------------------------------------
(* One run of the job. *)

StartJob ==
  /\ pc = "idle"
  /\ pc' = "list"
  /\ UNCHANGED <<mode, library, listing, todo, name, pending, added, removed, promised, spent>>

List ==
  /\ pc = "list"
  /\ listing' = library
  /\ todo' = Names
  /\ pc' = "next"
  /\ UNCHANGED <<mode, library, name, pending, added, removed, promised, spent>>

\* Variant: the old shortcuts are left to the options.
RemovalsNone(n) == {}

Additions(n) == Declared[n] \ listing[n].paths
Removals(n) == listing[n].paths \ Declared[n]
InOrder(l, n) == l.paths = Declared[n] /\ l.written

\* Variant: the mode is not asked for.
TakeLibraryManaged(n) ==
  /\ pc = "next" /\ n \in todo
  /\ name' = n /\ todo' = todo \ {n}
  /\ added' = {} /\ removed' = {}
  /\ IF ~listing[n].exists THEN pc' = "create" /\ pending' = {}
     ELSE IF InOrder(listing[n], n) THEN pc' = "next" /\ pending' = {}
     ELSE pc' = "add" /\ pending' = Additions(n)
  /\ UNCHANGED <<mode, library, listing, promised, spent>>

\* The loop over the declared libraries: bootstrap leaves the existing ones
\* alone, managed mode those that are in order.
TakeLibrary(n) ==
  /\ pc = "next" /\ n \in todo
  /\ name' = n /\ todo' = todo \ {n}
  /\ added' = {} /\ removed' = {}
  /\ \/ /\ ~listing[n].exists
        /\ pc' = "create" /\ pending' = {}
     \/ /\ listing[n].exists
        /\ mode = "bootstrap" \/ InOrder(listing[n], n)
        /\ pc' = "next" /\ pending' = {}
     \/ /\ listing[n].exists /\ mode = "managed" /\ ~InOrder(listing[n], n)
        /\ pc' = "add" /\ pending' = Additions(n)
  /\ UNCHANGED <<mode, library, listing, promised, spent>>

EndJob ==
  /\ pc = "next" /\ todo = {}
  /\ pc' = "idle"
  /\ UNCHANGED <<mode, library, listing, todo, name, pending, added, removed, promised, spent>>

Create ==
  /\ pc = "create"
  /\ CreateLibrary
  /\ pc' = "next"
  /\ promised' = [promised EXCEPT ![name] = Declared[name]]
  /\ UNCHANGED <<mode, listing, todo, name, pending, added, removed, spent>>

Add(p) ==
  /\ pc = "add" /\ p \in pending
  /\ Attach(p)
  /\ pending' = pending \ {p}
  /\ added' = added \cup {p}
  /\ UNCHANGED <<mode, listing, pc, todo, name, removed, promised, spent>>

Remove(p) ==
  /\ pc = "remove" /\ p \in pending
  /\ Detach(p)
  /\ pending' = pending \ {p}
  /\ removed' = removed \cup {p}
  /\ UNCHANGED <<mode, listing, pc, todo, name, added, promised, spent>>

Options ==
  /\ pc = "options"
  /\ WriteOptions
  /\ pc' = "next"
  /\ promised' = [promised EXCEPT ![name] = Declared[name]]
  /\ UNCHANGED <<mode, listing, todo, name, pending, added, removed, spent>>

\* Variant: nothing of what was added goes.
LoopEndsKeeping ==
  /\ pending = {}
  /\ \/ pc = "add" /\ pc' = "remove" /\ pending' = Removals(name)
     \/ pc = "remove" /\ pc' = "options" /\ UNCHANGED pending
     \/ pc = "readd" /\ pc' = "unadd" /\ UNCHANGED pending
     \/ pc = "unadd" /\ pc' = "idle" /\ UNCHANGED pending
  /\ UNCHANGED <<mode, library, listing, todo, name, added, removed, promised, spent>>

\* A loop with nothing left goes on to the next one.
LoopEnds ==
  /\ pending = {}
  /\ \/ pc = "add" /\ pc' = "remove" /\ pending' = Removals(name)
     \/ pc = "remove" /\ pc' = "options" /\ UNCHANGED pending
     \/ pc = "readd" /\ pc' = "unadd" /\ pending' = added
     \/ pc = "unadd" /\ pc' = "idle" /\ UNCHANGED pending
  /\ UNCHANGED <<mode, library, listing, todo, name, added, removed, promised, spent>>

\* rollback_library_paths: what was removed comes back before what was added
\* goes; a request that fails is passed over.
ReAdd(p) ==
  /\ pc = "readd" /\ p \in pending
  /\ Attach(p)
  /\ pending' = pending \ {p}
  /\ UNCHANGED <<mode, listing, pc, todo, name, added, removed, promised, spent>>

UnAdd(p) ==
  /\ pc = "unadd" /\ p \in pending
  /\ Detach(p)
  /\ pending' = pending \ {p}
  /\ UNCHANGED <<mode, listing, pc, todo, name, added, removed, promised, spent>>

---------------------------------------------------------------------------
(* What goes wrong. *)

FaultLeft == spent.refusals + spent.losses + spent.breaks < MaxFaults

Writing == {"add", "remove", "options", "readd", "unadd"}

\* Variant: only the additions are undone.
RecoverForgetting(p) ==
  \/ /\ pc \in {"add", "remove", "options"}
     /\ pc' = "unadd" /\ pending' = added
  \/ /\ pc \in {"readd", "unadd"}
     /\ pending' = pending \ {p} /\ UNCHANGED pc
  \/ /\ pc \in {"list", "create"}
     /\ pc' = "idle" /\ UNCHANGED pending

\* A caught error in the update starts the undoing, one in the undoing passes
\* on to the next path, and one elsewhere ends the job.
Recover(p) ==
  \/ /\ pc \in {"add", "remove", "options"}
     /\ pc' = "readd" /\ pending' = removed
  \/ /\ pc \in {"readd", "unadd"}
     /\ pending' = pending \ {p} /\ UNCHANGED pc
  \/ /\ pc \in {"list", "create"}
     /\ pc' = "idle" /\ UNCHANGED pending

Requests(p) == pc \in {"list", "create", "options"} \/ (pc \in Writing /\ p \in pending)

Refused(p) ==
  /\ Requests(p) /\ Recover(p)
  /\ FaultLeft
  /\ spent' = [spent EXCEPT !.refusals = @ + 1]
  /\ UNCHANGED <<mode, library, listing, todo, name, added, removed, promised>>

\* The request of this step takes effect.
Effect(p) ==
  \/ pc \in {"add", "readd"} /\ Attach(p)
  \/ pc \in {"remove", "unadd"} /\ Detach(p)
  \/ pc = "options" /\ WriteOptions
  \/ pc = "create" /\ CreateLibrary

\* The answer times out, or cannot be parsed, after the effect.
AnswerLost(p) ==
  /\ pc # "list" /\ Requests(p) /\ Recover(p) /\ Effect(p)
  /\ FaultLeft
  /\ spent' = [spent EXCEPT !.losses = @ + 1]
  /\ promised' = IF pc = "create" THEN [promised EXCEPT ![name] = Declared[name]]
                 ELSE promised
  /\ UNCHANGED <<mode, listing, todo, name, added, removed>>

\* The connection is reset, which is no RECOVERABLE_ERRORS: the job ends with
\* nothing undone.  So does one that is killed, by the unit's five minutes or
\* by a reboot, with or without its request carried out.
Breaks(p) ==
  /\ pc # "idle"
  /\ pc' = "idle"
  /\ \/ UNCHANGED <<library, promised>>
     \/ /\ pc # "list" /\ Requests(p) /\ Effect(p)
        /\ promised' = IF pc \in {"create", "options"}
                         THEN [promised EXCEPT ![name] = Declared[name]] ELSE promised
  /\ FaultLeft
  /\ spent' = [spent EXCEPT !.breaks = @ + 1]
  /\ UNCHANGED <<mode, listing, todo, name, pending, added, removed>>

---------------------------------------------------------------------------
(* People. *)

\* A person gives a library other paths or other options, or creates it.
\* What they leave is what the next update has to keep whole.
Edit(n, to) ==
  /\ spent.edits + spent.intrusions < MaxEdits
  /\ \/ /\ pc = "idle"
        /\ spent' = [spent EXCEPT !.edits = @ + 1]
     \/ /\ pc # "idle" /\ library[n].exists
        /\ spent' = [spent EXCEPT !.intrusions = @ + 1]
  /\ to.exists /\ to # library[n]
  /\ to.written => library[n].written /\ to.paths = library[n].paths
  /\ library' = [library EXCEPT ![n] = to]
  /\ promised' = [promised EXCEPT ![n] = to.paths]
  /\ UNCHANGED <<mode, job>>

---------------------------------------------------------------------------
Job ==
  \/ StartJob \/ List \/ EndJob \/ Create \/ Options \/ LoopEnds
  \/ \E n \in Names : TakeLibrary(n)
  \/ \E p \in Paths : Add(p) \/ Remove(p) \/ ReAdd(p) \/ UnAdd(p)

Failure == \E p \in Paths : Refused(p) \/ AnswerLost(p) \/ Breaks(p)

Next ==
  \/ Job \/ Failure
  \/ \E n \in Names, to \in Libraries : Edit(n, to)

Spec == Init /\ [][Next]_vars

\* The timer starts the job a quarter of an hour after the last one ended, and
\* every request ends within its timeout.
FairSpec == Spec /\ WF_vars(Job)

---------------------------------------------------------------------------
(* Properties. *)

Edited == spent'.edits # spent.edits \/ spent'.intrusions # spent.intrusions

\* A library keeps all the paths it had when it was last in order, or has all
\* the declared ones: no media disappear from it while it is being changed.
\* "New paths are attached before old references are removed"
\* (docs/integration.md:171).
Covered ==
  \A n \in Names : library[n].exists =>
    promised[n] \subseteq library[n].paths \/ Declared[n] \subseteq library[n].paths

\* That holds through kills, reset connections and one refused request, with
\* its rollback, wherever in the change they come, while people keep out.
Calm == spent.intrusions = 0 /\ spent.losses = 0 /\ spent.refusals <= 1
CoveredThroughOneRefusal == Calm => Covered

\* A rollback in which no request failed leaves the locations as they were
\* found.
UndoneAsFound ==
  [][pc = "unadd" /\ pc' = "idle" /\ spent' = spent /\ Calm
       => library[name].paths = listing[name].paths]_vars

\* "Other fields and undeclared objects remain intact" (docs/integration.md:25):
\* no step of the job changes an option that nobody declared, as far as people
\* "avoid concurrent UI edits" (docs/setup.md:156).
ExtraKept ==
  [][spent.intrusions = 0 /\ ~Edited =>
       \A n \in Names : library[n].exists => library'[n].extra = library[n].extra]_vars

\* Bootstrap never touches a library that exists (docs/integration.md:22).
BootstrapKeeps ==
  [][mode = "bootstrap" /\ ~Edited =>
       \A n \in Names : library[n].exists => library'[n] = library[n]]_vars

\* Whatever failed, the libraries are as declared in the end: all of them in
\* managed mode, the missing ones in bootstrap mode.
Converges ==
  <>[](\A n \in Names : library[n].exists /\ (mode = "managed" => InOrder(library[n], n)))

\* The libraries are as declared, and the run that may be under way has read
\* those it has yet to come to as they are.
Settled ==
  /\ \A n \in Names : library[n].exists /\ (mode = "managed" => InOrder(library[n], n))
  /\ pc \in {"idle", "list", "next"}
  /\ pc = "next" => \A n \in todo : listing[n] = library[n]

\* Settled libraries are written by no run, failing runs included, until a
\* person changes one: "an idempotent reconciliation design"
\* (docs/research/project-comparison.md:129).
StaysSettled == [][Settled /\ ~Edited => Settled' /\ library' = library]_vars

\* A run that comes to its end has settled them, whatever earlier runs left
\* half done, if nobody intrudes: every error ends it earlier.
RunSettles == [][EndJob /\ spent.intrusions = 0 => Settled']_vars

\* The job is idempotent: one run does all there is to do, the next nothing.
Idempotent == RunSettles /\ StaysSettled

---------------------------------------------------------------------------
(* The inductive invariant behind CoveredThroughOneRefusal and UndoneAsFound. *)

\* The libraries the job has yet to come to are as it read them.
TodoInv ==
  /\ pc \notin {"idle", "list"} => \A n \in todo : library[n] = listing[n]
  /\ pc \in Writing \cup {"create"} => name \notin todo

\* How far the loops have come, in terms of the paths they met.
Had == listing[name].paths
Now == library[name].paths

ForwardInv ==
  /\ pc = "add" =>
       /\ added \cup pending = Additions(name) /\ removed = {}
       /\ Now = Had \cup added
  /\ pc \in {"remove", "options"} =>
       /\ added = Additions(name) /\ removed \cup pending = Removals(name)
       /\ Now = (Had \cup added) \ removed
  /\ pc = "options" => pending = {}

UndoInv ==
  /\ pc \in {"readd", "unadd"} => spent.refusals > 0 /\ added \subseteq Additions(name)
  /\ pc = "readd" =>
       /\ pending \subseteq Removals(name)
       /\ pending # {} => added = Additions(name)
       /\ Now = (Had \cup added) \ pending
  /\ pc = "unadd" => pending \subseteq added /\ Now = Had \cup pending

\* What the update found was in order itself.
FoundInv ==
  pc \in Writing => promised[name] \subseteq Had \/ Declared[name] \subseteq Had

\* Behind RunSettles: of the libraries a run has come to, all but the one at
\* hand are as declared; those that are changed exist.
DoneInv ==
  /\ pc \in {"next", "create", "add", "remove", "options"} =>
       \A n \in Names \ todo : n # name \/ pc = "next" =>
         library[n].exists /\ (mode = "managed" => InOrder(library[n], n))
  /\ pc \in {"add", "remove", "options"} => library[name].exists

IInv == TypeOK /\ (Calm => TodoInv /\ ForwardInv /\ UndoInv /\ FoundInv /\ Covered)
==========================================================================
