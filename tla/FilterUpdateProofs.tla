------------------------ MODULE FilterUpdateProofs ------------------------
(***************************************************************************)
(* Proofs about FilterUpdate for any indexers, actions and bounds.         *)
(***************************************************************************)
EXTENDS FilterUpdate, TLAPS

\* The records the job writes are filters.
LEMMA FilterTypes ==
  ASSUME TypeOK
  PROVE  /\ NoFilter \in Filters
         /\ [NoFilter EXCEPT !.exists = TRUE, !.policy = "declared"] \in Filters
         /\ \A i \in SUBSET Indexers :
              [filter EXCEPT !.policy = "declared", !.enabled = FALSE, !.indexers = i] \in Filters
         /\ \A a \in Actions : [filter EXCEPT !.actions[a] = "declared"] \in Filters
         /\ [filter EXCEPT !.enabled = TRUE] \in Filters
         /\ filter.indexers \in SUBSET Indexers /\ seen.indexers \in SUBSET Indexers
BY DEF TypeOK, Filters, NoFilter, Objects

\* Spending one more of a bound.
LEMMA SpentStep ==
  ASSUME TypeOK
  PROVE  /\ [spent EXCEPT !.edits = @ + 1] \in Spending
         /\ [spent EXCEPT !.intrusions = @ + 1] \in Spending
         /\ [spent EXCEPT !.faults = @ + 1] \in Spending
BY DEF TypeOK, Spending

\* What the requests leave of the filter.
LEMMA DisableEffect ==
  ASSUME TypeOK, Disable
  PROVE  /\ filter' \in Filters /\ half' \in BOOLEAN /\ client' = client
         /\ half' = ~Complete(filter')
         /\ filter'.exists = filter.exists /\ filter'.policy = "declared" /\ ~filter'.enabled
         /\ filter'.actions = filter.actions
         /\ filter'.indexers = IF desired # seen.indexers THEN desired ELSE filter.indexers
<1> DEFINE list == IF desired # seen.indexers THEN desired ELSE filter.indexers
<1>1. list \in SUBSET Indexers
  BY FilterTypes DEF TypeOK
<1>2. filter' = [filter EXCEPT !.policy = "declared", !.enabled = FALSE, !.indexers = list]
  BY DEF Disable, Write
<1>3. half' = ~Complete(filter') /\ client' = client
  BY DEF Disable, Write
<1> HIDE DEF list
<1>4. filter' \in Filters
  BY <1>1, <1>2, FilterTypes
<1>5. /\ filter'.exists = filter.exists /\ filter'.policy = "declared" /\ ~filter'.enabled
      /\ filter'.actions = filter.actions /\ filter'.indexers = list
  BY <1>2 DEF TypeOK, Filters
<1> QED
  BY <1>3, <1>4, <1>5 DEF list, Complete

LEMMA ActionEffect ==
  ASSUME TypeOK, NEW a \in Actions, WriteAction(a)
  PROVE  /\ filter' \in Filters /\ half' \in BOOLEAN /\ client' = client
         /\ filter'.exists = filter.exists /\ filter'.policy = filter.policy
         /\ filter'.enabled = filter.enabled /\ filter'.indexers = filter.indexers
         /\ filter'.actions[a] = "declared"
         /\ \A b \in Actions \ {a} : filter'.actions[b] = filter.actions[b]
<1>1. filter' = [filter EXCEPT !.actions = [filter.actions EXCEPT ![a] = "declared"]]
  BY DEF WriteAction, Write
<1>2. filter.actions \in [Actions -> Objects] /\ filter \in Filters
  BY DEF TypeOK, Filters
<1>3. half' \in BOOLEAN /\ client' = client
  BY DEF WriteAction, Write, Complete
<1>4. [filter.actions EXCEPT ![a] = "declared"] \in [Actions -> Objects]
  BY <1>2 DEF Objects
<1>5. filter' \in Filters
  BY <1>1, <1>2, <1>4 DEF Filters
<1> QED
  BY <1>1, <1>2, <1>3, <1>5 DEF Filters

\* The type invariant is inductive.
LEMMA TypeStep ==
  ASSUME TypeOK, [Next]_vars
  PROVE  TypeOK'
<1> USE SelectedAssumption DEF TypeOK, Steps, Modes, Objects, server, run
<1>0. ASSUME Exit
      PROVE  /\ pc' = "idle" /\ seen' \in Filters /\ seenClient' \in Objects /\ created' \in BOOLEAN
             /\ planned' \in SUBSET Actions /\ desired' \in SUBSET Indexers
  BY <1>0, FilterTypes DEF Exit
<1>1. CASE StartJob BY <1>1 DEF StartJob
<1>2. CASE Lists BY <1>2 DEF Lists
<1>3. CASE ClientKept BY <1>3 DEF ClientKept
<1>4. CASE ClientWritten BY <1>4 DEF ClientWritten, WriteClient
<1>5. CASE SaveFingerprints BY <1>5 DEF SaveFingerprints
<1>6. CASE Filter
  <2>1. CASE Exit
    BY <1>0, <1>6, <2>1 DEF Filter
  <2>2. CASE Goes(filter, FALSE)
    BY <1>6, <2>2, FilterTypes DEF Filter, Goes
  <2>3. CASE pc' = "create" /\ UNCHANGED run
    BY <1>6, <2>3 DEF Filter
  <2> QED BY <1>6, <2>1, <2>2, <2>3 DEF Filter, Plan
<1>7. CASE Create
  <2>1. filter' \in Filters /\ half' \in BOOLEAN /\ client' = client
    BY <1>7, FilterTypes DEF Create, CreateFilter, Write, Complete
  <2>2. filter'.indexers \in SUBSET Indexers
    BY <2>1 DEF Filters
  <2> QED BY <1>7, <2>1, <2>2 DEF Create, Plan, Goes
<1>8. CASE DisableFilter BY <1>8, DisableEffect DEF DisableFilter
<1>9. ASSUME NEW a \in Actions, Action(a) PROVE TypeOK'
  BY <1>9, ActionEffect DEF Action
<1>10. CASE ActionsDone BY <1>0, <1>10 DEF ActionsDone
<1>11. CASE EnableFilter
  <2>1. filter' \in Filters /\ half' \in BOOLEAN /\ client' = client
    BY <1>11, FilterTypes DEF EnableFilter, Enable, Write, Complete
  <2> QED BY <1>0, <1>11, <2>1 DEF EnableFilter
<1>12. CASE Refused BY <1>0, <1>12, SpentStep DEF Refused, Fault
<1>13. ASSUME Effect
       PROVE  filter' \in Filters /\ half' \in BOOLEAN /\ client' \in Objects
  <2>1. CASE pc = "client" /\ WriteClient
    BY <2>1 DEF WriteClient
  <2>2. CASE pc = "create" /\ CreateFilter
    BY <2>2, FilterTypes DEF CreateFilter, Write, Complete
  <2>3. CASE pc = "disable" /\ Disable
    BY <2>3, DisableEffect
  <2>4. ASSUME NEW a \in planned, WriteAction(a)
        PROVE  filter' \in Filters /\ half' \in BOOLEAN /\ client' \in Objects
    BY <2>4, ActionEffect
  <2>5. CASE pc = "enable" /\ Enable
    BY <2>5, FilterTypes DEF Enable, Write, Complete
  <2> QED
    BY <1>13, <2>1, <2>2, <2>3, <2>4, <2>5 DEF Effect
<1>14. CASE AnswerLost BY <1>0, <1>13, <1>14, SpentStep DEF AnswerLost, Fault
<1>15. CASE Killed BY <1>0, <1>15, SpentStep DEF Killed, Fault
<1>16. CASE EditRest BY <1>16, SpentStep DEF EditRest
<1>17. ASSUME NEW f \in Filters, EditFilter(f) PROVE TypeOK'
  BY <1>17, SpentStep DEF EditFilter
<1>18. CASE UNCHANGED vars BY <1>18 DEF vars
<1> QED
  BY <1>1, <1>2, <1>3, <1>4, <1>5, <1>6, <1>7, <1>8, <1>9, <1>10, <1>11, <1>12, <1>14,
     <1>15, <1>16, <1>17, <1>18 DEF Next, Job, Failure

\* Type correctness, for all parameters.
THEOREM TypeCorrect == Spec => []TypeOK
<1>1. Init => TypeOK
  <2> SUFFICES ASSUME Init PROVE TypeOK
    OBVIOUS
  <2>1. NoFilter \in Filters
    BY DEF NoFilter, Filters, Objects
  <2>2. spent \in Spending
    BY DEF Init, Spending
  <2> QED
    BY <2>1, <2>2 DEF Init, TypeOK, Steps, Modes, Objects
<1> QED
  BY <1>1, TypeStep, PTL DEF Spec

\* What the creating request leaves, and the enabling one.
LEMMA CreateEffect ==
  ASSUME TypeOK, CreateFilter
  PROVE  /\ filter'.exists /\ ~filter'.enabled /\ filter'.policy = "declared"
         /\ filter'.indexers = {} /\ \A a \in Actions : filter'.actions[a] = "absent"
BY FilterTypes DEF CreateFilter, Write, NoFilter

LEMMA EnableEffect ==
  ASSUME TypeOK, Enable
  PROVE  /\ filter'.exists = filter.exists /\ filter'.policy = filter.policy
         /\ filter'.indexers = filter.indexers /\ filter'.actions = filter.actions
         /\ half' = ~Complete(filter')
<1>1. filter' = [filter EXCEPT !.enabled = TRUE] /\ half' = ~Complete(filter')
  BY DEF Enable, Write
<1> QED
  BY <1>1 DEF TypeOK, Filters

\* Any request that takes effect leaves the filter complete or disabled.
LEMMA EffectSafe ==
  ASSUME TypeOK, UpdateInv, half => ~filter.enabled, Effect
  PROVE  (half' => ~filter'.enabled) /\ (~filter'.exists => filter'.indexers = {})
<1>1. CASE pc = "client" /\ WriteClient
  BY <1>1 DEF WriteClient, UpdateInv
<1>2. CASE pc = "create" /\ CreateFilter
  BY <1>2, CreateEffect
<1>3. CASE pc = "disable" /\ Disable
  BY <1>3, DisableEffect DEF UpdateInv
<1>4. ASSUME NEW a \in planned, WriteAction(a), pc = "actions"
      PROVE  filter'.exists /\ ~filter'.enabled
  BY <1>4, ActionEffect DEF UpdateInv, TypeOK
<1>5. CASE pc = "enable" /\ Enable
  <2>1. Complete(filter') /\ filter'.exists
    BY <1>5, EnableEffect DEF UpdateInv, Complete
  <2> QED
    BY <1>5, <2>1, EnableEffect
<1> QED
  BY <1>1, <1>2, <1>3, <1>4, <1>5 DEF Effect

\* Whether people kept out of the runs only ever becomes false.
LEMMA UndisturbedBefore ==
  ASSUME TypeOK, [Next]_vars, Undisturbed'
  PROVE  Undisturbed /\ \A f \in Filters : EditFilter(f) => pc = "idle"
<1>1. ASSUME NEW f \in Filters, EditFilter(f) PROVE pc = "idle" /\ Undisturbed
  BY <1>1 DEF EditFilter, Undisturbed, TypeOK, Spending
<1>2. CASE spent' = spent \/ spent' = [spent EXCEPT !.faults = @ + 1]
           \/ spent' = [spent EXCEPT !.edits = @ + 1]
  BY <1>1, <1>2 DEF Undisturbed, TypeOK, Spending
<1> QED
  BY <1>1, <1>2 DEF Next, Job, Failure, StartJob, Lists, ClientKept, ClientWritten,
     SaveFingerprints, Filter, Create, DisableFilter, Action, ActionsDone, EnableFilter,
     Refused, AnswerLost, Killed, Fault, EditRest, vars

\* The invariant of the update is inductive while people keep out of the runs.
LEMMA UpdateStep ==
  ASSUME TypeOK, UpdateInv, half => ~filter.enabled, [Next]_vars, Undisturbed'
  PROVE  UpdateInv' /\ (half' => ~filter'.enabled)
<1> USE DEF UpdateInv
<1>0. Exit => pc' = "idle"
  BY DEF Exit
<1>1. CASE StartJob BY <1>1 DEF StartJob, server, run
<1>2. CASE Lists
  <2>1. pc' = "client" /\ seen' = filter /\ UNCHANGED <<filter, half, planned, desired>>
    BY <1>2 DEF Lists, server
  <2> QED BY <2>1
<1>3. CASE ClientKept
  <2>1. pc' = "filter" /\ pc = "client" /\ UNCHANGED <<filter, half, planned, desired, seen>>
    BY <1>3 DEF ClientKept, server, run
  <2> QED BY <2>1
<1>4. CASE ClientWritten
  <2>1. pc' = "save" /\ pc = "client" /\ UNCHANGED <<filter, half, planned, desired, seen>>
    BY <1>4 DEF ClientWritten, WriteClient, run
  <2> QED BY <2>1
<1>5. CASE SaveFingerprints
  <2>1. pc' = "filter" /\ pc = "save" /\ UNCHANGED <<filter, half, planned, desired, seen>>
    BY <1>5 DEF SaveFingerprints, server, run
  <2> QED BY <2>1
<1>6. CASE Filter
  <2>1. UNCHANGED <<filter, half>>
    BY <1>6 DEF Filter, server
  <2>2. CASE Goes(filter, FALSE) /\ filter.exists
    <3>1. /\ seen' = filter /\ planned' = {a \in Actions : filter.actions[a] # "declared"}
          /\ desired' = filter.indexers \cup Selected /\ pc' = "disable"
      BY <2>2 DEF Goes
    <3>2. \A a \in Actions \ planned' : filter.actions[a] = "declared"
      BY <3>1
    <3> QED
      BY <2>1, <2>2, <3>1, <3>2
  <2>3. CASE pc' \in {"create", "idle"} /\ (pc' = "create" => ~filter.exists)
    BY <2>1, <2>3
  <2> QED
    BY <1>0, <1>6, <2>1, <2>2, <2>3 DEF Filter, Plan
<1>7. CASE Create
  <2>1. pc' = "disable" /\ desired' = filter'.indexers \cup Selected /\ seen' = filter'
        /\ planned' = {a \in Actions : filter'.actions[a] # "declared"}
    BY <1>7 DEF Create, Plan, Goes
  <2> QED
    BY <1>7, <2>1, CreateEffect DEF Create
<1>8. CASE DisableFilter
  BY <1>8, DisableEffect, FilterTypes DEF DisableFilter, run
<1>9. ASSUME NEW a \in Actions, Action(a) PROVE UpdateInv' /\ (half' => ~filter'.enabled)
  BY <1>9, ActionEffect DEF Action
<1>10. CASE ActionsDone
  BY <1>0, <1>10 DEF ActionsDone, server, run
<1>11. CASE EnableFilter
  <2>1. Effect
    BY <1>11 DEF EnableFilter, Effect
  <2> QED
    BY <1>0, <1>11, <2>1, EffectSafe DEF EnableFilter
<1>12. CASE Refused BY <1>0, <1>12 DEF Refused, Fault, server
<1>13. CASE AnswerLost
  BY <1>0, <1>13, EffectSafe DEF AnswerLost, Fault
<1>14. CASE Killed
  BY <1>0, <1>14 DEF Killed, Fault, server
<1>15. CASE EditRest
  BY <1>15 DEF EditRest
<1>16. ASSUME NEW f \in Filters, EditFilter(f) PROVE UpdateInv' /\ (half' => ~filter'.enabled)
  <2>1. pc = "idle" /\ pc' = "idle" /\ filter' = f /\ half' = FALSE /\ (f.exists \/ f = NoFilter)
    BY <1>16, UndisturbedBefore DEF EditFilter
  <2> QED BY <2>1 DEF NoFilter
<1>17. CASE UNCHANGED vars BY <1>17 DEF vars
<1> QED
  BY <1>1, <1>2, <1>3, <1>4, <1>5, <1>6, <1>7, <1>8, <1>9, <1>10, <1>11, <1>12, <1>13,
     <1>14, <1>15, <1>16, <1>17 DEF Next, Job, Failure

\* The inductive invariant of FilterUpdate.
THEOREM Inductive == Spec => []IInv
<1> DEFINE Inv == Undisturbed => UpdateInv /\ (half => ~filter.enabled)
<1>1. Init => Inv
  <2> SUFFICES ASSUME Init PROVE UpdateInv /\ (half => ~filter.enabled)
    OBVIOUS
  <2>1. NoFilter.indexers = {}
    BY DEF NoFilter
  <2> QED
    BY <2>1 DEF Init, UpdateInv
<1>2. TypeOK /\ Inv /\ [Next]_vars => Inv'
  BY UpdateStep, UndisturbedBefore
<1>3. TypeOK /\ Inv => IInv
  BY DEF IInv, NoHalfChangedFilterLive
<1> HIDE DEF Inv
<1> QED
  BY <1>1, <1>2, <1>3, TypeCorrect, PTL DEF Spec

\* Announcements never meet a filter the job has changed in part
\* (autobrr.py:421), if people keep out of its runs.
THEOREM NeverHalfLive == Spec => []NoHalfChangedFilterLive
<1>1. IInv => NoHalfChangedFilterLive
  BY DEF IInv, NoHalfChangedFilterLive
<1> QED
  BY <1>1, Inductive, PTL

\* An update that ends among its actions leaves the filter disabled
\* (docs/autobrr.md:19).
THEOREM FailureDisables == Spec => FailedUpdateDisables
<1>1. ASSUME IInv, [Next]_vars, Undisturbed', pc = "actions", pc' = "idle"
      PROVE  ~filter'.enabled
  <2>1. TypeOK /\ UpdateInv /\ ~filter.enabled
    BY <1>1, UndisturbedBefore DEF IInv, UpdateInv
  <2>2. CASE UNCHANGED filter
    BY <2>1, <2>2
  <2>3. CASE \E a \in Actions : WriteAction(a)
    BY <2>1, <2>3, ActionEffect
  <2>4. \A f \in Filters : ~EditFilter(f)
    BY <1>1, <2>1, UndisturbedBefore
  <2> QED
    BY <1>1, <2>1, <2>2, <2>3, <2>4 DEF Next, Job, Failure, StartJob, Lists, ClientKept,
       ClientWritten, SaveFingerprints, Filter, Create, DisableFilter, Action, ActionsDone,
       EnableFilter, Refused, AnswerLost, Killed, Effect, EditRest, server, vars, TypeOK
<1>2. IInv /\ [Next]_vars
        => (Undisturbed' /\ pc = "actions" /\ pc' = "idle" => ~filter'.enabled)
  BY <1>1
<1> QED
  BY <1>2, Inductive, PTL DEF Spec, FailedUpdateDisables

\* The job takes no indexer association away (docs/autobrr.md:29).
THEOREM IndexersStay == Spec => IndexersKept
<1> DEFINE Keeps == filter.indexers \subseteq filter'.indexers
<1>1. ASSUME TypeOK, UpdateInv, Effect PROVE Keeps
  <2>1. CASE pc = "client" /\ WriteClient
    BY <2>1 DEF WriteClient
  <2>2. CASE pc = "create" /\ CreateFilter
    BY <1>1, <2>2 DEF UpdateInv
  <2>3. CASE pc = "disable" /\ Disable
    BY <1>1, <2>3, DisableEffect DEF UpdateInv
  <2>4. ASSUME NEW a \in planned, WriteAction(a) PROVE Keeps
    BY <1>1, <2>4, ActionEffect DEF TypeOK
  <2>5. CASE pc = "enable" /\ Enable
    BY <1>1, <2>5, EnableEffect
  <2> QED
    BY <1>1, <2>1, <2>2, <2>3, <2>4, <2>5 DEF Effect
<1>2. ASSUME TypeOK, UpdateInv, [Next]_vars, ~Edited PROVE Keeps
  <2>1. CASE UNCHANGED filter
    BY <2>1
  <2>2. CASE Effect
    BY <1>1, <1>2, <2>2
  <2>3. \A f \in Filters : ~EditFilter(f)
    BY <1>2 DEF EditFilter, Edited, TypeOK, Spending
  <2> QED
    BY <1>2, <2>1, <2>2, <2>3 DEF Next, Job, Failure, StartJob, Lists, ClientKept, ClientWritten,
       SaveFingerprints, Filter, Create, DisableFilter, Action, ActionsDone, EnableFilter,
       Refused, AnswerLost, Killed, Effect, EditRest, server, vars, WriteClient
<1>3. IInv /\ [Next]_vars => (Undisturbed /\ ~Edited => Keeps)
  BY <1>2 DEF IInv
<1> QED
  BY <1>3, Inductive, PTL DEF Spec, IndexersKept

\* In bootstrap mode a filter is created where there is none, and what follows
\* belongs to the run that created it.
OwnInv ==
  mode = "bootstrap" =>
    /\ pc \in {"client", "save", "filter"} => seen.exists \/ ~filter.exists
    /\ pc = "create" => ~filter.exists
    /\ pc \in {"disable", "actions", "enable"} => created

\* OwnInv is inductive: edits during a run neither create nor delete.
LEMMA OwnStep == ASSUME OwnInv, [Next]_vars PROVE OwnInv'
<1> USE DEF OwnInv
<1>1. Exit => pc' = "idle"
  BY DEF Exit
<1>2. CASE UNCHANGED vars BY <1>2 DEF vars
<1>3. CASE StartJob \/ Lists \/ ClientKept \/ ClientWritten \/ SaveFingerprints
  BY <1>3 DEF StartJob, Lists, ClientKept, ClientWritten, SaveFingerprints, WriteClient,
              server, run
<1>4. CASE Filter BY <1>1, <1>4 DEF Filter, Plan, server, run
<1>5. CASE Create BY <1>1, <1>5 DEF Create, Plan, Goes
<1>6. CASE DisableFilter \/ ActionsDone \/ EnableFilter
  BY <1>1, <1>6 DEF DisableFilter, ActionsDone, EnableFilter, run
<1>7. ASSUME NEW a \in Actions, Action(a) PROVE OwnInv'
  BY <1>7 DEF Action
<1>8. CASE Failure BY <1>1, <1>8 DEF Failure, Refused, AnswerLost, Killed, Fault
<1>9. CASE EditRest BY <1>9 DEF EditRest, run
<1>10. ASSUME NEW f \in Filters, EditFilter(f) PROVE OwnInv'
  BY <1>10 DEF EditFilter, run
<1> QED
  BY <1>2, <1>3, <1>4, <1>5, <1>6, <1>7, <1>8, <1>9, <1>10 DEF Next, Job

\* In bootstrap mode an existing filter is preserved completely
\* (docs/autobrr.md:31), but for the run that creates it.
THEOREM KeepsInBootstrap == Spec => BootstrapKeeps
<1>1. Init => OwnInv
  BY DEF Init, OwnInv
<1>2. ASSUME TypeOK, OwnInv, [Next]_vars, mode = "bootstrap", ~Edited, filter.exists, ~created
      PROVE  filter' = filter
  <2>1. pc \notin {"create", "disable", "actions", "enable"}
    BY <1>2 DEF OwnInv
  <2>2. \A f \in Filters : ~EditFilter(f)
    BY <1>2 DEF EditFilter, Edited, TypeOK, Spending
  <2> QED
    BY <1>2, <2>1, <2>2 DEF Next, Job, Failure, StartJob, Lists, ClientKept, ClientWritten,
       SaveFingerprints, WriteClient, Filter, Create, DisableFilter, Action, ActionsDone,
       EnableFilter, Refused, AnswerLost, Killed, Effect, EditRest, server, vars
<1>3. OwnInv /\ [Next]_vars => OwnInv'
  BY OwnStep
<1>4. TypeOK /\ OwnInv /\ [Next]_vars =>
        [mode = "bootstrap" /\ ~Edited /\ filter.exists /\ ~created => filter' = filter]_vars
  BY <1>2
<1> QED
  BY <1>1, <1>3, <1>4, TypeCorrect, PTL DEF Spec, BootstrapKeeps

---------------------------------------------------------------------------
(* Rest. *)

\* A run that finds everything as declared makes no request but the lists.
LEMMA SettledStep ==
  ASSUME TypeOK, Settled, [Next]_vars, ~Edited
  PROVE  Settled' /\ UNCHANGED <<client, known, filter>>
<1> DEFINE Same == UNCHANGED <<mode, client, known, filter>>
<1>1. ASSUME Same, pc' \in {"idle", "lists"} PROVE Settled'
  BY <1>1 DEF Settled, Complete
<1>2. CASE UNCHANGED vars BY <1>2 DEF vars, Settled, Complete
<1>3. CASE StartJob BY <1>1, <1>3 DEF StartJob, server
<1>4. CASE Lists
  <2>1. Same /\ pc' = "client" /\ seen' = filter /\ seenClient' = client
    BY <1>4 DEF Lists, server
  <2> QED BY <2>1 DEF Settled, Complete
<1>5. CASE ClientKept
  <2>1. Same /\ pc = "client" /\ pc' = "filter" /\ seen' = seen
    BY <1>5 DEF ClientKept, server, run
  <2> QED BY <2>1 DEF Settled, Complete
<1>6. ~Effect /\ ~ClientWritten
  BY DEF Effect, ClientWritten, Settled, ClientInOrder, TypeOK, Modes
<1>7. CASE Filter
  <2>1. Same /\ pc = "filter"
    BY <1>7 DEF Filter, server
  <2>2. Exit
    BY <1>7, <2>1 DEF Filter, Plan, Settled, TypeOK, Modes
  <2> QED BY <1>1, <2>1, <2>2 DEF Exit
<1>8. CASE Failure
  BY <1>1, <1>6, <1>8 DEF Failure, Refused, AnswerLost, Killed, Fault, Exit, server
<1>9. ~EditRest /\ \A f \in Filters : ~EditFilter(f)
  BY DEF EditRest, EditFilter, Edited, TypeOK, Spending
<1>10. /\ ~SaveFingerprints /\ ~Create /\ ~DisableFilter /\ ~ActionsDone /\ ~EnableFilter
       /\ \A a \in Actions : ~Action(a)
  BY DEF SaveFingerprints, Create, DisableFilter, ActionsDone, EnableFilter, Action, Settled
<1> QED
  BY <1>2, <1>3, <1>4, <1>5, <1>6, <1>7, <1>8, <1>9, <1>10
     DEF Next, Job, StartJob, Lists, ClientKept, Filter, Failure, Refused, AnswerLost, Killed,
         server, vars

\* Once the client and the filter are as declared, no run writes them or the
\* fingerprints again, failing runs included, until a person changes something
\* (autobrr.py:337 to :353, :390 to :418).
THEOREM SettledStays == Spec => StaysSettled
<1>1. TypeOK /\ [Next]_vars =>
        [Settled /\ ~Edited => Settled' /\ UNCHANGED <<client, known, filter>>]_vars
  BY SettledStep
<1> QED
  BY <1>1, TypeCorrect, PTL DEF Spec, StaysSettled

\* Behind the client's requests the client is in order; the filter is enabled
\* only if that is declared.
ClientInv ==
  /\ pc = "client" => seenClient = client
  /\ pc = "save" => client = "declared"
  /\ pc \in {"filter", "create", "disable", "actions", "enable"} =>
       client # "absent" /\ (mode = "managed" => client = "declared" /\ known)
  /\ pc = "enable" => Enabled

\* People change the client between the runs only.
LEMMA ClientStep == ASSUME TypeOK, ClientInv, [Next]_vars PROVE ClientInv'
<1> USE DEF ClientInv
<1>1. Exit => pc' = "idle"
  BY DEF Exit
<1>2. CASE UNCHANGED vars BY <1>2 DEF vars
<1>3. CASE StartJob \/ Lists \/ SaveFingerprints
  BY <1>3 DEF StartJob, Lists, SaveFingerprints, server, run
<1>4. CASE ClientKept
  BY <1>4 DEF ClientKept, ClientInOrder, server, run, TypeOK, Modes
<1>5. CASE ClientWritten
  BY <1>5 DEF ClientWritten, WriteClient
<1>6. CASE Filter
  BY <1>1, <1>6 DEF Filter, Plan, Goes, server, run
<1>7. CASE Create
  BY <1>1, <1>7 DEF Create, CreateFilter, Write, Plan, Goes
<1>8. CASE DisableFilter \/ ActionsDone \/ EnableFilter
  BY <1>1, <1>8 DEF DisableFilter, Disable, ActionsDone, EnableFilter, Write, server, run
<1>9. ASSUME NEW a \in Actions, Action(a) PROVE ClientInv'
  BY <1>9 DEF Action, WriteAction, Write
<1>10. CASE Failure BY <1>1, <1>10 DEF Failure, Refused, AnswerLost, Killed, Fault
<1>11. CASE EditRest BY <1>11 DEF EditRest, run
<1>12. ASSUME NEW f \in Filters, EditFilter(f) PROVE ClientInv'
  BY <1>12 DEF EditFilter, run
<1> QED
  BY <1>2, <1>3, <1>4, <1>5, <1>6, <1>7, <1>8, <1>9, <1>10, <1>11, <1>12 DEF Next, Job

\* A run that ends by itself leaves the client and the filter as declared.
LEMMA RunEndsSettled ==
  ASSUME TypeOK, UpdateInv, ClientInv, Next, pc # "idle", pc' = "idle", spent' = spent, provided
  PROVE  Settled'
<1>1. ~Failure /\ ~EditRest /\ \A f \in Filters : ~EditFilter(f)
  <2>1. spent.faults \in Nat /\ spent.intrusions \in Nat
    BY DEF TypeOK, Spending
  <2>2. ~Fault
    <3>1. SUFFICES ASSUME Fault PROVE FALSE
      OBVIOUS
    <3>2. spent'.faults = spent.faults + 1
      BY <3>1 DEF Fault, TypeOK, Spending
    <3> QED BY <2>1, <3>2
  <2>3. ~EditRest
    BY DEF EditRest
  <2>4. ASSUME NEW f \in Filters, EditFilter(f) PROVE FALSE
    <3>1. spent'.intrusions = spent.intrusions + 1
      BY <2>4 DEF EditFilter, TypeOK, Spending
    <3> QED BY <2>1, <3>1
  <2> QED BY <2>2, <2>3, <2>4 DEF Failure, Refused, AnswerLost, Killed
<1>2. CASE Filter
  <2>1. UNCHANGED <<mode, client, known, filter>> /\ pc = "filter" /\ seen = filter
    BY <1>2 DEF Filter, server, UpdateInv
  <2>2. filter.exists
    BY <1>2, <2>1 DEF Filter
  <2>3. mode = "managed" => Complete(filter) /\ filter.enabled = Enabled
    BY <1>2, <2>1, <2>2 DEF Filter, Plan, Goes
  <2> QED BY <2>1, <2>2, <2>3 DEF Settled, ClientInv, Complete
<1>3. CASE ActionsDone
  <2>1. UNCHANGED <<mode, client, known, filter>> /\ pc = "actions" /\ planned = {} /\ ~Enabled
    BY <1>3 DEF ActionsDone, server
  <2>2. filter.exists /\ Complete(filter) /\ ~filter.enabled
    BY <2>1 DEF UpdateInv, Complete
  <2>3. filter.enabled \in BOOLEAN
    BY DEF TypeOK, Filters
  <2>4. filter.enabled = Enabled
    BY <2>1, <2>2, <2>3, EnabledAssumption
  <2> QED BY <2>1, <2>2, <2>4 DEF Settled, ClientInv, Complete
<1>4. CASE EnableFilter
  <2>1. /\ UNCHANGED <<mode, client, known>> /\ pc = "enable" /\ Enabled
        /\ Complete(filter) /\ filter \in Filters /\ filter' = [filter EXCEPT !.enabled = TRUE]
    BY <1>4 DEF EnableFilter, Enable, Write, ClientInv, UpdateInv, Complete, TypeOK
  <2>2. /\ filter'.exists = filter.exists /\ filter'.policy = filter.policy
        /\ filter'.indexers = filter.indexers /\ filter'.actions = filter.actions
        /\ filter'.enabled = TRUE
    BY <2>1 DEF Filters
  <2>3. Enabled = TRUE
    BY <2>1, EnabledAssumption
  <2>4. Complete(filter') /\ filter'.exists /\ filter'.enabled = Enabled
    BY <2>1, <2>2, <2>3 DEF Complete
  <2> QED BY <2>1, <2>4 DEF Settled, ClientInv, Complete
<1>5. /\ ~StartJob /\ ~Lists /\ ~ClientKept /\ ~ClientWritten /\ ~SaveFingerprints
      /\ ~Create /\ ~DisableFilter /\ \A a \in Actions : ~Action(a)
  BY DEF StartJob, Lists, ClientKept, ClientWritten, SaveFingerprints, Create, Plan, Goes,
         DisableFilter, Action
<1> QED
  BY <1>1, <1>2, <1>3, <1>4, <1>5 DEF Next, Job

\* One run settles the client and the filter, and no later one writes them or
\* the fingerprints again.
THEOREM Idempotence == Spec => Idempotent
<1>1. Init => ClientInv
  BY DEF Init, ClientInv
<1>2. TypeOK /\ ClientInv /\ [Next]_vars => ClientInv'
  BY ClientStep
<1>3. IInv /\ ClientInv /\ [Next]_vars =>
        [pc # "idle" /\ pc' = "idle" /\ spent' = spent /\ Undisturbed /\ provided
           => Settled']_vars
  BY RunEndsSettled DEF IInv
<1>4. Spec => RunSettles
  BY <1>1, <1>2, <1>3, TypeCorrect, Inductive, PTL DEF Spec, RunSettles
<1> QED BY <1>4, SettledStays DEF Idempotent

==========================================================================
