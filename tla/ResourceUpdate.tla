-------------------------- MODULE ResourceUpdate --------------------------
(***************************************************************************)
(* Declared objects and settings of an application that an integration job *)
(* reads, compares and writes: the Servarr, Bazarr, Seerr and              *)
(* Audiobookshelf adapters under src/scripts/integration/adapters/ and the *)
(* qBittorrent job, src/scripts/downloaders/qbittorrent-config.py.  Two    *)
(* objects are declared; what a run does is a short program per adapter,   *)
(* `Program`.  The adapters differ in when they list the objects, what they*)
(* send of them, and what they look up elsewhere.                          *)
(*                                                                         *)
(* Requests fail, lose their answers or arrive after their run has ended,  *)
(* runs are killed, and people work with the same objects at any moment.   *)
(***************************************************************************)
EXTENDS Integers, FiniteSets, Sequences

CONSTANTS
  MaxId,     \* bound: objects that ever exist
  MaxEdits,  \* bound: changes people make
  MaxFaults  \* bound: requests that fail, runs that are killed

ASSUME BoundsAssumption == MaxId \in Nat /\ MaxEdits \in Nat /\ MaxFaults \in Nat

Ids == 1..MaxId
Services == {"arr", "bazarr", "seerr", "audiobookshelf", "qbittorrent"}

\* The declared names, in the order of the declaration; arr's second resource
\* and Bazarr's default profile refer to the first one by name.
First == "first"
Second == "second"
Declared == {First, Second}

VARIABLES
  service,      \* config["kind"]
  mode,         \* config["mode"]
  object,       \* the application's objects by id
  setting,      \* its singleton settings
  initialized,  \* its onboarding is over (Seerr, Audiobookshelf)
  shelf,        \* the library that Seerr is to enable
  profile,      \* id of the quality profile on the manager Seerr talks to; 0: none
  at,           \* the step of the run; 0 between runs
  late,         \* the step whose write is still on its way after its run; 0: none
  listed,       \* the objects as the run listed them
  read,         \* the settings as it read them
  found,        \* the id its last lookup returned
  setup,        \* `initialized` as it read it
  touched,      \* history: what people changed since the run read it: objects, the
                \* settings (0), the onboarding (-1)
  alone,        \* history: they have changed nothing since the run began
  spent         \* how much of each bound is used

app == <<object, setting, initialized, shelf, profile>>
local == <<listed, read, found, setup>>
vars == <<service, mode, app, at, late, local, touched, alone, spent>>

\* `ours`: the declared fields have the declared values; `extra`: all others;
\* `kin`: the implementation is the declared one; `link`: the id it refers to.
Names == {First, Second, "undeclared", "gone", "unborn"}
Links == 0..(MaxId + 2)
Objects == [name : Names, ours : BOOLEAN, extra : 0..1, kin : BOOLEAN, link : Links]
Settings == [ours : BOOLEAN, extra : 0..1, link : Links]
Unborn == [name |-> "unborn", ours |-> FALSE, extra |-> 0, kin |-> TRUE, link |-> 0]
Gone == [Unborn EXCEPT !.name = "gone"]
Exists(o) == o.name \notin {"gone", "unborn"}

Do(step, name) == [step |-> step, name |-> name]

\* The order of the adapters' requests.
Program ==
  [arr |-> <<Do("read", "none"), Do("set", "none"), Do("list", First), Do("write", First),
             Do("lookup", Second), Do("list", Second), Do("write", Second)>>,
   bazarr |-> <<Do("read", "none"), Do("list", "none"), Do("replace", "none")>>,
   seerr |-> <<Do("public", "none"), Do("sync", "none"), Do("enable", "none"), Do("list", "none"),
               Do("lookup", First), Do("write", First), Do("lookup", Second),
               Do("write", Second), Do("read", "none"), Do("set", "none"), Do("initialize", "none")>>,
   audiobookshelf |-> <<Do("public", "none"), Do("initialize", "none"), Do("list", "none"),
                        Do("write", First), Do("write", Second)>>,
   qbittorrent |-> <<Do("list", First), Do("write", First),
                     Do("list", Second), Do("write", Second)>>]

Task(k) == Program[service][k]
Now(step) == at # 0 /\ Task(at).step = step
After(k) == IF k = Len(Program[service]) THEN 0 ELSE k + 1

Spending == [edits : 0..MaxEdits, faults : 0..MaxFaults]

TypeOK ==
  /\ service \in Services /\ mode \in {"managed", "bootstrap"}
  /\ object \in [Ids -> Objects] /\ setting \in Settings
  /\ initialized \in BOOLEAN /\ shelf \in {"missing", "off", "on"} /\ profile \in 0..2
  /\ at \in 0..Len(Program[service]) /\ late \in 0..Len(Program[service])
  /\ listed \in [Ids -> Objects] /\ read \in Settings /\ found \in Links /\ setup \in BOOLEAN
  /\ touched \in SUBSET (Ids \cup {0, -1}) /\ alone \in BOOLEAN
  /\ spent \in Spending

NoList == [i \in Ids |-> Unborn]
NoSettings == [ours |-> FALSE, extra |-> 0, link |-> 0]

\* What an application keeps apart: qBittorrent's names are unique and a tag
\* is its name; only providers of arr have implementations.
Refers(name) == service = "seerr" \/ (service = "arr" /\ name = Second)
Possible(objects) ==
  \A i \in Ids :
    /\ service # "arr" => objects[i].kin
    /\ service = "qbittorrent" =>
         /\ objects[i].name = Second => objects[i].ours
         /\ \A j \in Ids \ {i} : objects[i].name \in Declared => objects[j].name # objects[i].name

\* What people make: a tag is as declared, everything else is not.
Made == {[Unborn EXCEPT !.name = name, !.ours = (service = "qbittorrent" /\ name = Second)] :
           name \in Declared \cup {"undeclared"}}

\* Up to two such objects, of either implementation.
Found == {[NoList EXCEPT ![1] = o, ![2] = p] : o, p \in
            {Unborn} \cup Made \cup {[o EXCEPT !.kin = FALSE] : o \in Made}}

Init ==
  /\ service \in Services /\ mode \in {"managed", "bootstrap"}
  /\ object \in Found
  /\ Possible(object)
  /\ setting = NoSettings
  /\ initialized \in (IF service \in {"seerr", "audiobookshelf"} THEN BOOLEAN ELSE {TRUE})
  /\ shelf = "missing" /\ profile = 1
  /\ at = 0 /\ late = 0
  /\ listed = NoList /\ read = NoSettings /\ found = 0 /\ setup = FALSE
  /\ touched = {} /\ alone = TRUE /\ spent = [edits |-> 0, faults |-> 0]

---------------------------------------------------------------------------
(* What a run makes of what it has read. *)

\* Variants: an object of another provider does not count; references are not
\* looked at once they are there.
BearersOfKind(name) == {i \in Ids : listed[i].name = name /\ listed[i].kin}
DesiredUnlinked(i) == [listed[i] EXCEPT !.ours = TRUE]

Bearers(name) == {i \in Ids : listed[i].name = name}
The(name) == CHOOSE i \in Bearers(name) : TRUE

LinkOf(name) == IF Refers(name) THEN found ELSE 0
New(name) == [name |-> name, ours |-> TRUE, extra |-> 0, kin |-> TRUE, link |-> LinkOf(name)]

\* merge(current, values): the object as listed, with what is declared.
Desired(i) == [listed[i] EXCEPT !.ours = TRUE, !.link = LinkOf(listed[i].name)]

\* A name that more than one object bears, or an object of another provider.
Refused(name) ==
  \/ \E i, j \in Bearers(name) : i # j
  \/ mode = "managed" /\ \E i \in Bearers(name) : ~listed[i].kin

\* Bazarr takes the whole collection: the listed profiles with the declared
\* ones merged in, a new one under the next id.
Top == IF \A i \in Ids : ~Exists(listed[i]) THEN 0
       ELSE CHOOSE i \in Ids : /\ Exists(listed[i])
                               /\ \A j \in Ids : Exists(listed[j]) => j <= i
\* Variant: a profile gets a new id each time.
GivenFresh(name) == IF name = Second THEN Top + 2 ELSE Top + 1

Given(name) ==
  IF Bearers(name) # {} THEN The(name)
  ELSE IF name = Second /\ Bearers(First) = {} THEN Top + 2 ELSE Top + 1
Merged ==
  [i \in Ids |->
     IF i \in Bearers(First) \cup Bearers(Second) THEN Desired(i)
     ELSE IF ~Exists(listed[i]) /\ \E name \in Declared : i = Given(name)
            THEN New(CHOOSE name \in Declared : i = Given(name))
     ELSE listed[i]]

\* Variant: nothing but the mode is asked for.
MayManaged == mode = "managed"

\* Singletons have no absent state: bootstrap writes them during Seerr's
\* onboarding only.
MayConfigure == mode = "managed" \/ (service = "seerr" /\ ~setup)

\* Variant: the mode is not asked for what exists.
WantsManaged(k) ==
  \/ Task(k).step = "set" /\ MayConfigure /\ ~read.ours
  \/ Task(k).step = "sync" /\ MayConfigure /\ shelf = "missing"
  \/ Task(k).step = "enable" /\ MayConfigure /\ shelf = "off"
  \/ Task(k).step = "write" /\ \A i \in Bearers(Task(k).name) : listed[i] # Desired(i)
  \/ Task(k).step = "initialize" /\ ~setup

\* The run has something to write at this step.
Wants(k) ==
  LET task == Task(k) IN
  \/ task.step = "set" /\ MayConfigure /\ ~read.ours
  \/ task.step = "sync" /\ MayConfigure /\ shelf = "missing"
  \/ task.step = "enable" /\ MayConfigure /\ shelf = "off"
  \/ task.step = "write" /\ Bearers(task.name) = {}
  \/ /\ task.step = "write" /\ mode = "managed"
     /\ \E i \in Bearers(task.name) : listed[i] # Desired(i)
  \/ /\ task.step = "replace"
     /\ \/ Bearers(First) = {} \/ Bearers(Second) = {} \/ Merged # listed
        \/ ~read.ours \/ read.link # Given(First)
  \/ task.step = "initialize" /\ ~setup

\* In bootstrap Seerr does not ask the manager about what exists.
Skipped(name) == service = "seerr" /\ mode = "bootstrap" /\ Bearers(name) # {}

\* What a lookup by name can return: exactly one is expected.
Targets ==
  IF service = "seerr" THEN {profile} \ {0} ELSE {i \in Ids : object[i].name = First}

\* A check that fails raises and ends the run.
Stops(k) ==
  LET task == Task(k) IN
  \/ task.step = "enable" /\ MayConfigure /\ shelf = "missing"
  \/ task.step = "lookup" /\ ~Skipped(task.name) /\ Cardinality(Targets) # 1
  \/ task.step = "write" /\ Refused(task.name)
  \/ task.step = "replace" /\ \E name \in Declared : Refused(name)

---------------------------------------------------------------------------
(* What the application does with a write. *)

\* Where a write to a listed object goes: by id, in qBittorrent by name.
Goal(name) ==
  IF service = "qbittorrent" THEN {i \in Ids : object[i].name = name}
  ELSE {i \in Bearers(name) : Exists(object[i])}

\* It answers 404 for an object that has gone, and qBittorrent 409 for a name
\* that is taken.
Lands(k) ==
  Task(k).step = "write" =>
    IF Bearers(Task(k).name) # {} THEN Goal(Task(k).name) # {}
    ELSE service = "qbittorrent" => Goal(Task(k).name) = {}

\* Variant: what is not declared goes back to its default.
PutDeclared(i) == [Unborn EXCEPT !.name = object[i].name, !.ours = TRUE]

\* PUT takes the object as merged from the listing, PATCH and editCategory
\* the declared fields.
Put(i) ==
  IF service \in {"arr", "seerr"} THEN Desired(i) ELSE [object[i] EXCEPT !.ours = TRUE]

\* The application's next id.
Free(i) == object[i].name = "unborn" /\ \A j \in 1..(i - 1) : object[j].name # "unborn"

Create(name) == \E i \in Ids : Free(i) /\ object' = [object EXCEPT ![i] = New(name)]
Change(name) == object' = [i \in Ids |-> IF i \in Goal(name) THEN Put(i) ELSE object[i]]

WriteObject(name) ==
  /\ IF Bearers(name) = {} THEN Create(name) ELSE Change(name)
  /\ UNCHANGED <<setting, initialized, shelf, profile>>

\* arr and Seerr send the settings whole.
WriteSettings ==
  /\ setting' = [read EXCEPT !.ours = TRUE]
  /\ UNCHANGED <<object, initialized, shelf, profile>>

\* Bazarr is sent what differs: the collection, if any profile does, and
\* single settings, the default profile's id among them.  (Ids end at MaxId.)
Replace ==
  /\ \A name \in Declared : Given(name) \in Ids
  /\ object' =
       IF Merged = listed THEN object
       ELSE [i \in Ids |-> IF Exists(Merged[i]) THEN Merged[i]
                           ELSE IF Exists(object[i]) THEN Gone ELSE object[i]]
  /\ setting' =
       [setting EXCEPT
          !.ours = @ \/ ~read.ours,
          !.link = IF read.link # Given(First) THEN Given(First) ELSE @]
  /\ UNCHANGED <<initialized, shelf, profile>>

\* A library that the media server does not have stays missing.
Sync == shelf' \in {"missing", "off"} /\ UNCHANGED <<object, setting, initialized, profile>>
Enable == shelf' = "on" /\ UNCHANGED <<object, setting, initialized, profile>>
Initialize == initialized' = TRUE /\ UNCHANGED <<object, setting, shelf, profile>>

Effect(k) ==
  LET task == Task(k) IN
  \/ task.step = "set" /\ WriteSettings
  \/ task.step = "sync" /\ Sync
  \/ task.step = "enable" /\ Enable
  \/ task.step = "write" /\ WriteObject(task.name)
  \/ task.step = "replace" /\ Replace
  \/ task.step = "initialize" /\ Initialize

---------------------------------------------------------------------------
(* A run. *)

Forget ==
  /\ late' = 0 /\ touched' = {} /\ alone' = TRUE
  /\ listed' = NoList /\ read' = NoSettings /\ found' = 0 /\ setup' = FALSE
End == at' = 0 /\ Forget
Proceed ==
  IF After(at) = 0 THEN End ELSE at' = After(at) /\ UNCHANGED <<late, local, touched, alone>>

Start ==
  /\ at = 0 /\ late = 0
  /\ at' = 1
  /\ UNCHANGED <<service, mode, app, late, local, touched, alone, spent>>

ReadPublic ==
  /\ Now("public")
  /\ setup' = initialized /\ at' = After(at)
  /\ UNCHANGED <<service, mode, app, late, listed, read, found, touched, alone, spent>>

\* In bootstrap Bazarr's run reads the settings and no more.
ReadSettings ==
  /\ Now("read")
  /\ IF service = "bazarr" /\ mode = "bootstrap" THEN End
     ELSE /\ read' = setting /\ at' = After(at) /\ touched' = touched \ {0}
          /\ UNCHANGED <<late, listed, found, setup, alone>>
  /\ UNCHANGED <<service, mode, app, spent>>

List ==
  /\ Now("list")
  /\ listed' = object /\ at' = After(at) /\ touched' = touched \ Ids
  /\ UNCHANGED <<service, mode, app, late, read, found, setup, alone, spent>>

Lookup ==
  /\ Now("lookup") /\ ~Stops(at)
  /\ found' = IF Skipped(Task(at).name) THEN 0 ELSE CHOOSE i \in Targets : TRUE
  /\ at' = After(at)
  /\ UNCHANGED <<service, mode, app, late, listed, read, setup, touched, alone, spent>>

Writing == at # 0 /\ Task(at).step \notin {"public", "read", "list", "lookup"}

Write ==
  /\ Writing /\ ~Stops(at) /\ Wants(at) /\ Lands(at)
  /\ Effect(at) /\ Proceed
  /\ UNCHANGED <<service, mode, spent>>

Pass ==
  /\ Writing /\ ~Stops(at) /\ ~Wants(at)
  /\ Proceed
  /\ UNCHANGED <<service, mode, app, spent>>

Stop ==
  /\ at # 0
  /\ Stops(at) \/ (Writing /\ Wants(at) /\ ~Lands(at))
  /\ End
  /\ UNCHANGED <<service, mode, app, spent>>

\* A request fails or the run is killed.  A write may be under way then.
BreakOff ==
  /\ at # 0 /\ spent.faults < MaxFaults
  /\ \/ End
     \/ /\ Writing /\ ~Stops(at) /\ Wants(at)
        /\ at' = 0 /\ late' = at
        /\ UNCHANGED <<local, touched, alone>>
  /\ spent' = [spent EXCEPT !.faults = @ + 1]
  /\ UNCHANGED <<service, mode, app>>

\* It arrives or does not, at the latest before the next run, a quarter of an
\* hour later.
Arrive ==
  /\ late # 0 /\ Lands(late)
  /\ Effect(late)
  /\ Forget
  /\ UNCHANGED <<service, mode, at, spent>>
Vanish ==
  /\ late # 0
  /\ Forget
  /\ UNCHANGED <<service, mode, app, at, spent>>

---------------------------------------------------------------------------
(* People. *)

Touch(what) ==
  /\ spent.edits < MaxEdits
  /\ spent' = [spent EXCEPT !.edits = @ + 1]
  /\ touched' = IF at = 0 /\ late = 0 THEN touched ELSE touched \cup what
  /\ alone' = (alone /\ at = 0)
  /\ UNCHANGED <<service, mode, at, late, local>>

EditObject(i) ==
  /\ \E o \in IF Exists(object[i])
                THEN {[object[i] EXCEPT !.ours = FALSE], [object[i] EXCEPT !.extra = 1 - @], Gone}
                ELSE Made :
       object' = [object EXCEPT ![i] = o]
  /\ Exists(object[i]) \/ Free(i)
  /\ Possible(object')
  /\ Touch({i})
  /\ UNCHANGED <<setting, initialized, shelf, profile>>

EditSettings ==
  /\ setting' \in {[setting EXCEPT !.ours = FALSE], [setting EXCEPT !.extra = 1 - @]}
  /\ Touch({0})
  /\ UNCHANGED <<object, initialized, shelf, profile>>

\* The profile that bears the name on the manager.
EditProfile ==
  /\ service = "seerr" /\ profile' \in (0..2) \ {profile}
  /\ Touch({})
  /\ UNCHANGED <<object, setting, initialized, shelf>>

\* Somebody goes through the onboarding in the browser.
Onboard ==
  /\ ~initialized /\ initialized' = TRUE
  /\ Touch({-1})
  /\ UNCHANGED <<object, setting, shelf, profile>>

Job == Start \/ ReadPublic \/ ReadSettings \/ List \/ Lookup \/ Write \/ Pass \/ Stop
Network == Arrive \/ Vanish
People == EditSettings \/ EditProfile \/ Onboard \/ \E i \in Ids : EditObject(i)

Next == Job \/ BreakOff \/ Network \/ People

Spec == Init /\ [][Next]_vars

\* The timer starts the job again and again, and no request lasts for ever.
FairSpec == Spec /\ WF_vars(Job) /\ WF_vars(Network)

---------------------------------------------------------------------------
(* Properties. *)

ByJob == spent'.edits = spent.edits

\* "Other fields and undeclared objects remain intact" (docs/integration.md:25),
\* and ambiguous names and other providers are left alone (:30): what the job
\* changes of an existing object are declared fields of the only bearer of a
\* declared name, and of the settings the declared ones, unless people worked
\* on it after the run had read it ("avoid concurrent UI edits while a managed
\* API job changes the same object", docs/setup.md:156).
OthersKept ==
  [][ByJob =>
       /\ \A i \in Ids \ touched :
            Exists(object[i]) /\ object'[i] # object[i] =>
              /\ object[i].name \in Declared /\ object[i].kin
              /\ \A j \in Ids \ (touched \cup {i}) : object[j].name # object[i].name
              /\ object'[i] = [object[i] EXCEPT !.ours = TRUE, !.link = object'[i].link]
       /\ 0 \in touched \/ setting'.extra = setting.extra]_vars

\* The job does not create an object of a name that is taken, lost answers and
\* late writes of earlier runs included, unless people took it since.
NoDuplicate ==
  [][ByJob => \A i \in Ids :
       ~Exists(object[i]) /\ Exists(object'[i]) =>
         i \in touched \/ \A j \in Ids \ (touched \cup {i}) : object[j].name # object'[i].name]_vars

\* "bootstrap creates missing collection objects and preserves existing
\* objects" (docs/integration.md:22), people's own included, whenever they
\* appear; settings it writes only while Seerr is not yet set up (:32), or was
\* not when the run looked.
BootstrapKeeps ==
  [][mode = "bootstrap" /\ ByJob =>
       /\ \A i \in Ids : Exists(object[i]) => object'[i] = object[i]
       /\ setting' # setting => service = "seerr" /\ (~initialized \/ -1 \in touched)]_vars

\* Seerr's onboarding is closed last: bootstrap applies the settings during
\* onboarding only, and could not make up for what it missed.
SetupComplete ==
  [][service = "seerr" /\ ByJob /\ initialized' # initialized /\ touched = {} =>
       /\ setting.ours /\ shelf = "on"
       /\ \A name \in Declared : \E i \in Ids : object[i].name = name]_vars

Bearing(name) == {i \in Ids : object[i].name = name}

\* What only people can put right.  In bootstrap objects of another provider
\* are as good as any, and once Seerr is set up its library is not asked for.
Blocked ==
  \/ \E name \in Declared : Cardinality(Bearing(name)) > 1
  \/ mode = "managed" /\ \E i \in Ids : object[i].name \in Declared /\ ~object[i].kin
  \/ service = "seerr" /\ (profile = 0 \/ ((mode = "managed" \/ ~initialized) /\ shelf = "missing"))

AsDeclared ==
  /\ \A name \in Declared : \E i \in Bearing(name) :
       mode = "managed" =>
         /\ object[i].ours
         /\ object[i].link \in IF Refers(name) THEN Targets ELSE {0}
  /\ mode = "managed" /\ service \notin {"audiobookshelf", "qbittorrent"} => setting.ours
  /\ mode = "managed" /\ service = "bazarr" => setting.link \in Bearing(First)
  /\ mode = "managed" /\ service = "seerr" => shelf = "on"
  /\ service \in {"seerr", "audiobookshelf"} => initialized

\* Left alone, an application ends as declared: after failures and late
\* writes, and with references to objects that people have replaced.
Converges == <>[](Blocked \/ AsDeclared \/ (service = "bazarr" /\ mode = "bootstrap"))

\* The run has looked up what it is about to refer to.
LookedUp ==
  \E l \in 1..(at - 1) :
    Task(l).step = "lookup" /\ \A k \in l..(at - 1) : Task(k).step # "write"

\* The application is as declared, nothing is on its way to it, and the run
\* that may be under way has found it so.
Settled ==
  /\ AsDeclared /\ ~Blocked
  /\ late = 0 /\ touched = {}
  /\ at > 1 /\ service \in {"seerr", "audiobookshelf"} => setup
  /\ at > 1 /\ mode = "managed" /\ LookedUp => found \in Targets

\* A settled application is written by no run, failing runs included, until
\* people change something: the adapters are idempotent
\* (tests/integration/test_audiobooks.py:17;
\* docs/research/project-comparison.md:129: "A second run produces no duplicate
\* clients or indexers").
StaysSettled == [][Settled /\ ByJob => Settled' /\ UNCHANGED app]_vars

\* The run does its last step; Bazarr's stops short of it in bootstrap.
Finishes == (Write \/ Pass) /\ After(at) = 0

\* One run settles an application, whatever earlier runs left half done, if
\* nobody changes it meanwhile: what it cannot put right it has refused.
RunSettles ==
  [][Finishes /\ alone => AsDeclared' /\ (mode = "managed" => ~Blocked')]_vars

\* The adapters are idempotent: one run does all there is to do, the next
\* nothing.
Idempotent == RunSettles /\ StaysSettled

---------------------------------------------------------------------------
(* The inductive invariant behind the four action properties. *)

\* The step whose snapshots count: the run's, or that of the late write.
Step == IF at # 0 THEN at ELSE late

\* The write of the name is still to come, after no other listing.
Open(name) ==
  \E w \in Step..Len(Program[service]) :
    /\ Task(w).step = "write" /\ Task(w).name = name
    /\ \A l \in Step..w : Task(l).step # "list"

\* A late write is one that a run had to make; Bazarr's run goes no further
\* than its first step in bootstrap.
ControlInv ==
  /\ late # 0 =>
       /\ at = 0 /\ Task(late).step \notin {"public", "read", "list", "lookup"}
       /\ ~Stops(late) /\ Wants(late)
  /\ service = "bazarr" /\ mode = "bootstrap" => Step <= 1

\* The listing holds for what is still to be written.
ListInv ==
  Step # 0 =>
    /\ \A name \in Declared : Open(name) => \A i \in Ids \ touched :
         name \in {listed[i].name, object[i].name} => listed[i] = object[i]
    /\ Task(Step).step = "replace" => \A i \in Ids \ touched : listed[i] = object[i]

\* The settings are as read until they are written.
ReadInv ==
  Step # 0 /\ 0 \notin touched =>
    /\ Task(Step).step = "set" => read = setting
    /\ service = "bazarr" /\ Step > 1 => read = setting

\* What Seerr's onboarding has seen to so far.
SetupInv ==
  service = "seerr" /\ Step > 1 /\ ~setup =>
    /\ -1 \in touched \/ ~initialized
    /\ Step > 3 => shelf = "on"
    /\ Step > 6 => touched \cap Ids # {} \/ \E i \in Ids : object[i].name = First
    /\ Step > 8 => touched \cap Ids # {} \/ \E i \in Ids : object[i].name = Second
    /\ Step > 10 => 0 \in touched \/ setting.ours

IInv == TypeOK /\ ControlInv /\ ListInv /\ ReadInv /\ SetupInv

\* Behind RunSettles: what each of the run's steps so far has put in order.
Done(name) ==
  /\ Bearing(name) # {} /\ \A i, j \in Bearing(name) : i = j
  /\ mode = "managed" => \A i \in Bearing(name) :
       /\ object[i].ours /\ object[i].kin
       /\ object[i].link \in IF Refers(name) THEN Targets ELSE {0}

DoneUpTo(k) ==
  \A j \in 1..(k - 1) :
    /\ Task(j).step = "write" => Done(Task(j).name)
    /\ Task(j).step = "set" /\ mode = "managed" => setting.ours
    /\ Task(j).step = "enable" /\ mode = "managed" => shelf = "on"
    /\ Task(j).step = "initialize" => initialized

RunInv ==
  /\ at = 0 /\ late = 0 => touched = {}
  /\ at # 0 /\ alone =>
       /\ touched = {} /\ DoneUpTo(at)
       /\ mode = "managed" /\ LookedUp => found \in Targets
  /\ setup => initialized
  /\ service \in {"audiobookshelf", "qbittorrent"} => \A i \in Ids : object[i].link = 0
===========================================================================
