----------------------- MODULE LibraryUpdateProofs -----------------------
(***************************************************************************)
(* Proofs about LibraryUpdate for any libraries, paths and bounds.         *)
(***************************************************************************)
EXTENDS LibraryUpdate, TLAPS

CalmInv == TodoInv /\ ForwardInv /\ UndoInv /\ FoundInv /\ Covered

\* A step never forgets a refusal or a lost answer, so that what is calm after
\* it was calm before.
LEMMA CalmBefore ==
  ASSUME TypeOK, Next, Calm'
  PROVE  Calm
<1>1. \/ spent' = spent
      \/ spent' = [spent EXCEPT !.edits = @ + 1]
      \/ spent' = [spent EXCEPT !.intrusions = @ + 1]
      \/ spent' = [spent EXCEPT !.refusals = @ + 1]
      \/ spent' = [spent EXCEPT !.losses = @ + 1]
      \/ spent' = [spent EXCEPT !.breaks = @ + 1]
  BY DEF TypeOK, Spending, Next, Job, Failure, StartJob, List, EndJob, Create,
         Options, LoopEnds, TakeLibrary, Add, Remove, ReAdd, UnAdd, Refused,
         AnswerLost, Breaks, Edit, vars
<1>2. /\ spent.intrusions <= spent'.intrusions /\ spent.intrusions \in Nat /\ spent'.intrusions \in Nat
      /\ spent.refusals <= spent'.refusals /\ spent.refusals \in Nat /\ spent'.refusals \in Nat
      /\ spent.losses <= spent'.losses /\ spent.losses \in Nat /\ spent'.losses \in Nat
  BY <1>1 DEF TypeOK, Spending
<1> QED
  BY <1>2 DEF Calm

\* Each request changes the library at hand and no other, and keeps the type.
LEMMA AttachEffect ==
  ASSUME TypeOK, NEW p \in Paths, Attach(p)
  PROVE  /\ library' \in [Names -> Libraries]
         /\ library'[name].paths = library[name].paths \cup {p}
         /\ \A n \in Names \ {name} : library'[n] = library[n]
<1>1. name \in Names /\ library \in [Names -> Libraries] /\ library[name] \in Libraries
  BY DEF TypeOK
<1>2. [library[name] EXCEPT !.paths = @ \cup {p}] \in Libraries
  BY <1>1 DEF Libraries
<1>3. library' = [library EXCEPT ![name] = [library[name] EXCEPT !.paths = @ \cup {p}]]
  BY DEF Attach
<1> QED
  BY <1>1, <1>2, <1>3 DEF Libraries

LEMMA DetachEffect ==
  ASSUME TypeOK, NEW p \in Paths, Detach(p)
  PROVE  /\ library' \in [Names -> Libraries]
         /\ library'[name].paths = library[name].paths \ {p}
         /\ \A n \in Names \ {name} : library'[n] = library[n]
<1>1. name \in Names /\ library \in [Names -> Libraries] /\ library[name] \in Libraries
  BY DEF TypeOK
<1>2. [library[name] EXCEPT !.paths = @ \ {p}] \in Libraries
  BY <1>1 DEF Libraries
<1>3. library' = [library EXCEPT ![name] = [library[name] EXCEPT !.paths = @ \ {p}]]
  BY DEF Detach
<1> QED
  BY <1>1, <1>2, <1>3 DEF Libraries

LEMMA CreateEffect ==
  ASSUME TypeOK, CreateLibrary
  PROVE  /\ library' \in [Names -> Libraries]
         /\ library'[name].paths = Declared[name]
         /\ \A n \in Names \ {name} : library'[n] = library[n]
<1>1. /\ name \in Names /\ library \in [Names -> Libraries] /\ Declared[name] \in SUBSET Paths
  BY DeclaredAssumption DEF TypeOK
<1>2. PICK extra \in Extras : library' = [library EXCEPT ![name] =
        [exists |-> TRUE, paths |-> Declared[name], written |-> TRUE, extra |-> extra]]
  BY DEF CreateLibrary
<1> DEFINE created == [exists |-> TRUE, paths |-> Declared[name], written |-> TRUE, extra |-> extra]
<1>3. created \in Libraries /\ created.paths = Declared[name]
  BY <1>1, <1>2 DEF Libraries
<1> HIDE DEF created
<1>4. library' = [library EXCEPT ![name] = created]
  BY <1>2 DEF created
<1> QED
  BY <1>1, <1>3, <1>4

LEMMA OptionsEffect ==
  ASSUME TypeOK, WriteOptions
  PROVE  /\ library' \in [Names -> Libraries]
         /\ library'[name].paths = library[name].paths
         /\ \A n \in Names \ {name} : library'[n] = library[n]
<1>1. /\ name \in Names /\ library \in [Names -> Libraries]
      /\ library[name] \in Libraries /\ listing[name].extra \in Extras
  BY DEF TypeOK, Libraries
<1> DEFINE changed == [library[name] EXCEPT !.written = TRUE, !.extra = listing[name].extra]
<1>2. changed \in Libraries /\ changed.paths = library[name].paths
  BY <1>1 DEF Libraries
<1>3. library' = [library EXCEPT ![name] = changed]
  BY DEF WriteOptions
<1> HIDE DEF changed
<1> QED
  BY <1>1, <1>2, <1>3

\* The type invariant is inductive.
LEMMA TypeStep ==
  ASSUME TypeOK, [Next]_vars
  PROVE  TypeOK'
<1> USE DeclaredAssumption
<1>1. CASE StartJob \/ List \/ EndJob \/ LoopEnds
  BY <1>1 DEF TypeOK, Steps, StartJob, List, EndJob, LoopEnds, Additions, Removals, Libraries
<1>2. CASE Create
  BY <1>2, CreateEffect DEF TypeOK, Steps, Create
<1>3. CASE Options
  BY <1>3, OptionsEffect DEF TypeOK, Steps, Options
<1>4. ASSUME NEW n \in Names, TakeLibrary(n) PROVE TypeOK'
  BY <1>4 DEF TypeOK, Steps, TakeLibrary, Additions, Libraries
<1>5. ASSUME NEW p \in Paths, Add(p) \/ Remove(p) \/ ReAdd(p) \/ UnAdd(p) PROVE TypeOK'
  BY <1>5, AttachEffect, DetachEffect DEF TypeOK, Steps, Add, Remove, ReAdd, UnAdd
<1>6. ASSUME NEW p \in Paths, Refused(p) PROVE TypeOK'
  BY <1>6 DEF TypeOK, Steps, Spending, Refused, Recover
<1>7. ASSUME NEW p \in Paths, AnswerLost(p) PROVE TypeOK'
  <2>1. library' \in [Names -> Libraries]
    BY <1>7, AttachEffect, DetachEffect, CreateEffect, OptionsEffect DEF AnswerLost, Effect
  <2>2. spent' \in Spending
    BY <1>7 DEF TypeOK, Spending, AnswerLost
  <2>3. promised' \in [Names -> SUBSET Paths]
    BY <1>7 DEF TypeOK, AnswerLost
  <2>4. pc' \in Steps /\ pending' \in SUBSET Paths
    BY <1>7 DEF TypeOK, Steps, AnswerLost, Recover
  <2>5. UNCHANGED <<mode, listing, todo, name, added, removed>>
    BY <1>7 DEF AnswerLost
  <2> QED
    BY <2>1, <2>2, <2>3, <2>4, <2>5 DEF TypeOK
<1>8. ASSUME NEW p \in Paths, Breaks(p) PROVE TypeOK'
  <2>1. library' \in [Names -> Libraries]
    BY <1>8, AttachEffect, DetachEffect, CreateEffect, OptionsEffect DEF Breaks, Effect, TypeOK
  <2>2. spent' \in Spending
    BY <1>8 DEF TypeOK, Spending, Breaks
  <2>3. promised' \in [Names -> SUBSET Paths]
    BY <1>8 DEF TypeOK, Breaks
  <2>4. pc' \in Steps /\ UNCHANGED <<mode, listing, todo, name, pending, added, removed>>
    BY <1>8 DEF Steps, Breaks
  <2> QED
    BY <2>1, <2>2, <2>3, <2>4 DEF TypeOK
<1>9. ASSUME NEW n \in Names, NEW to \in Libraries, Edit(n, to) PROVE TypeOK'
  <2>1. spent' \in Spending /\ library' \in [Names -> Libraries] /\ promised' \in [Names -> SUBSET Paths]
    BY <1>9 DEF TypeOK, Spending, Edit, Libraries
  <2> QED BY <1>9, <2>1 DEF TypeOK, Edit, job
<1>10. CASE UNCHANGED vars
  BY <1>10 DEF vars, TypeOK
<1> QED
  BY <1>1, <1>2, <1>3, <1>4, <1>5, <1>6, <1>7, <1>8, <1>9, <1>10 DEF Next, Job, Failure

\* Type correctness, for all parameters.
THEOREM TypeCorrect == Spec => []TypeOK
<1>1. Init => TypeOK
  BY DEF Init, TypeOK, Steps, Spending, Libraries
<1> QED
  BY <1>1, TypeStep, PTL DEF Spec

---------------------------------------------------------------------------
(* The change of a library, step by step. *)

\* Steps that go from one library to the next, or begin and end the job.
LEMMA BetweenStep ==
  ASSUME TypeOK, CalmInv, StartJob \/ List \/ EndJob \/ UNCHANGED vars
  PROVE  CalmInv'
<1> USE DEF CalmInv, TodoInv, ForwardInv, UndoInv, FoundInv, Covered, Writing, Had, Now,
            Additions, Removals
<1>1. CASE StartJob BY <1>1 DEF StartJob
<1>2. CASE List BY <1>2 DEF List, TypeOK
<1>3. CASE EndJob BY <1>3 DEF EndJob
<1>4. CASE UNCHANGED vars BY <1>4 DEF vars
<1> QED
  BY <1>1, <1>2, <1>3, <1>4

\* A library is taken as it was read, which is as it is.
LEMMA TakeStep ==
  ASSUME TypeOK, CalmInv, NEW n \in Names, TakeLibrary(n)
  PROVE  CalmInv'
<1>1. /\ pc = "next" /\ n \in todo /\ name' = n /\ todo' = todo \ {n}
      /\ library[n] = listing[n]
      /\ library' = library /\ listing' = listing /\ promised' = promised
      /\ added' = {} /\ removed' = {}
      /\ pc' \in {"next", "create", "add"}
      /\ pc' = "add" => pending' = Declared[n] \ listing[n].paths /\ listing[n].exists
  BY DEF TakeLibrary, CalmInv, TodoInv, Additions
<1>2. TodoInv'
  BY <1>1 DEF CalmInv, TodoInv, Writing
<1>3. ForwardInv'
  BY <1>1 DEF ForwardInv, Additions, Had, Now
<1>4. UndoInv'
  BY <1>1 DEF UndoInv
<1>5. Covered'
  BY <1>1 DEF CalmInv, Covered
<1>6. FoundInv'
  BY <1>1 DEF CalmInv, Covered, FoundInv, Had, Writing
<1> QED
  BY <1>2, <1>3, <1>4, <1>5, <1>6 DEF CalmInv

\* Adding: everything it had stays.
LEMMA AddStep ==
  ASSUME TypeOK, CalmInv, NEW p \in Paths, Add(p)
  PROVE  CalmInv'
<1>1. /\ library'[name].paths = library[name].paths \cup {p}
      /\ \A n \in Names \ {name} : library'[n] = library[n]
  BY AttachEffect DEF Add
<1>2. /\ pc = "add" /\ pc' = "add" /\ p \in pending /\ pending' = pending \ {p}
      /\ added' = added \cup {p} /\ removed' = removed /\ todo' = todo /\ name' = name
      /\ listing' = listing /\ promised' = promised /\ name \in Names /\ todo \subseteq Names
  BY DEF Add, TypeOK
<1>3. TodoInv'
  BY <1>1, <1>2 DEF CalmInv, TodoInv, Writing
<1>4. ForwardInv'
  BY <1>1, <1>2 DEF CalmInv, ForwardInv, Additions, Had, Now
<1>5. UndoInv' /\ FoundInv'
  BY <1>2 DEF CalmInv, UndoInv, FoundInv, Had, Writing
<1>6. Covered'
  <2> SUFFICES ASSUME NEW n \in Names, library'[n].exists
               PROVE  \/ promised[n] \subseteq library'[n].paths
                      \/ Declared[n] \subseteq library'[n].paths
    BY <1>2 DEF Covered
  <2>1. CASE n = name
    BY <2>1, <1>1, <1>2 DEF CalmInv, ForwardInv, FoundInv, Had, Now, Writing
  <2>2. CASE n # name
    BY <2>2, <1>1 DEF CalmInv, Covered
  <2> QED
    BY <2>1, <2>2
<1> QED
  BY <1>3, <1>4, <1>5, <1>6 DEF CalmInv

\* Removing: everything declared is there and stays.
LEMMA RemoveStep ==
  ASSUME TypeOK, CalmInv, NEW p \in Paths, Remove(p)
  PROVE  CalmInv'
<1>1. /\ library'[name].paths = library[name].paths \ {p}
      /\ \A n \in Names \ {name} : library'[n] = library[n]
  BY DetachEffect DEF Remove
<1>2. /\ pc = "remove" /\ pc' = "remove" /\ p \in pending /\ pending' = pending \ {p}
      /\ added' = added /\ removed' = removed \cup {p} /\ todo' = todo /\ name' = name
      /\ listing' = listing /\ promised' = promised /\ name \in Names /\ todo \subseteq Names
  BY DEF Remove, TypeOK
<1>3. TodoInv'
  BY <1>1, <1>2 DEF CalmInv, TodoInv, Writing
<1>4. ForwardInv'
  BY <1>1, <1>2 DEF CalmInv, ForwardInv, Additions, Removals, Had, Now
<1>5. UndoInv' /\ FoundInv'
  BY <1>2 DEF CalmInv, UndoInv, FoundInv, Had, Writing
<1>6. Covered'
  <2> SUFFICES ASSUME NEW n \in Names, library'[n].exists
               PROVE  \/ promised[n] \subseteq library'[n].paths
                      \/ Declared[n] \subseteq library'[n].paths
    BY <1>2 DEF Covered
  <2>1. CASE n = name
    BY <2>1, <1>2, <1>4 DEF ForwardInv, Additions, Removals, Had, Now
  <2>2. CASE n # name
    BY <2>2, <1>1 DEF CalmInv, Covered
  <2> QED
    BY <2>1, <2>2
<1> QED
  BY <1>3, <1>4, <1>5, <1>6 DEF CalmInv

\* The requests that end a library's change leave it as declared.
LEMMA DoneStep ==
  ASSUME TypeOK, CalmInv, name \notin todo,
         /\ library'[name].paths = library[name].paths \/ library'[name].paths = Declared[name]
         /\ pc = "options" => library'[name].paths = library[name].paths
         /\ pc = "create" => library'[name].paths = Declared[name]
         /\ \A n \in Names \ {name} : library'[n] = library[n],
         pc \in {"create", "options"}, pc' \in {"next", "idle"},
         promised' = [promised EXCEPT ![name] = Declared[name]],
         UNCHANGED <<listing, todo, name>>
  PROVE  CalmInv'
<1>1. Covered'
  <2> SUFFICES ASSUME NEW n \in Names, library'[n].exists
               PROVE  \/ promised'[n] \subseteq library'[n].paths
                      \/ Declared[n] \subseteq library'[n].paths
    BY DEF Covered
  <2>1. CASE n = name
    BY <2>1 DEF CalmInv, ForwardInv, Additions, Removals, Had, Now
  <2>2. CASE n # name
    BY <2>2 DEF CalmInv, Covered, TypeOK
  <2> QED
    BY <2>1, <2>2
<1>2. TodoInv'
  BY DEF CalmInv, TodoInv, Writing, TypeOK
<1> QED
  BY <1>1, <1>2 DEF CalmInv, ForwardInv, UndoInv, FoundInv, Writing

\* The loops follow one another when all of their paths are done.
LEMMA LoopStep ==
  ASSUME TypeOK, CalmInv, LoopEnds
  PROVE  CalmInv'
<1>1. /\ library' = library /\ listing' = listing /\ promised' = promised /\ spent' = spent
      /\ todo' = todo /\ name' = name /\ added' = added /\ removed' = removed
      /\ pending = {} /\ pc \in Writing /\ pc' \in Writing \cup {"idle"}
  BY DEF LoopEnds, Writing
<1>2. TodoInv' /\ FoundInv' /\ Covered'
  BY <1>1 DEF CalmInv, TodoInv, FoundInv, Covered, Had, Writing
<1>3. ForwardInv'
  BY <1>1 DEF CalmInv, LoopEnds, ForwardInv, Additions, Removals, Had, Now
<1>4. UndoInv'
  BY <1>1 DEF CalmInv, LoopEnds, UndoInv, Additions, Had, Now
<1> QED
  BY <1>2, <1>3, <1>4 DEF CalmInv

\* Undoing: what was removed comes back, then what was added goes.
LEMMA UndoStep ==
  ASSUME TypeOK, CalmInv, NEW p \in Paths, ReAdd(p) \/ UnAdd(p)
  PROVE  CalmInv'
<1>1. \A n \in Names \ {name} : library'[n] = library[n]
  BY AttachEffect, DetachEffect DEF ReAdd, UnAdd
<1>2. /\ pc \in {"readd", "unadd"} /\ pc' = pc /\ p \in pending /\ pending' = pending \ {p}
      /\ added' = added /\ removed' = removed /\ todo' = todo /\ name' = name /\ spent' = spent
      /\ listing' = listing /\ promised' = promised /\ name \in Names /\ todo \subseteq Names
  BY DEF ReAdd, UnAdd, TypeOK
<1>3. /\ pc = "readd" => library'[name].paths = library[name].paths \cup {p}
      /\ pc = "unadd" => library'[name].paths = library[name].paths \ {p}
  BY AttachEffect, DetachEffect DEF ReAdd, UnAdd
<1>4. TodoInv' /\ ForwardInv' /\ FoundInv'
  BY <1>1, <1>2 DEF CalmInv, TodoInv, ForwardInv, FoundInv, Had, Writing
<1>5. UndoInv'
  BY <1>2, <1>3 DEF CalmInv, UndoInv, Additions, Removals, Had, Now
<1>6. Covered'
  <2> SUFFICES ASSUME NEW n \in Names, library'[n].exists
               PROVE  \/ promised[n] \subseteq library'[n].paths
                      \/ Declared[n] \subseteq library'[n].paths
    BY <1>2 DEF Covered
  <2>1. CASE n = name /\ pc = "readd"
    BY <2>1, <1>2, <1>3 DEF CalmInv, UndoInv, FoundInv, Additions, Removals, Had, Now, Writing
  <2>2. CASE n = name /\ pc = "unadd"
    BY <2>2, <1>2, <1>5 DEF CalmInv, UndoInv, FoundInv, Had, Now, Writing
  <2>3. CASE n # name
    BY <2>3, <1>1 DEF CalmInv, Covered
  <2> QED
    BY <1>2, <2>1, <2>2, <2>3
<1> QED
  BY <1>4, <1>5, <1>6 DEF CalmInv

\* The one refused request starts the undoing from wherever the change is.
LEMMA RefusedStep ==
  ASSUME TypeOK, CalmInv, NEW p \in Paths, Refused(p), Calm'
  PROVE  CalmInv'
<1>1. /\ library' = library /\ listing' = listing /\ promised' = promised
      /\ todo' = todo /\ name' = name /\ added' = added /\ removed' = removed
      /\ spent' = [spent EXCEPT !.refusals = @ + 1]
  BY DEF Refused
<1>2. spent'.refusals = spent.refusals + 1 /\ spent.refusals = 0
  BY <1>1 DEF TypeOK, Spending, Calm
<1>3. pc \notin {"readd", "unadd"}
  BY <1>2 DEF CalmInv, UndoInv
<1>4. \/ pc \in {"add", "remove", "options"} /\ pc' = "readd" /\ pending' = removed
      \/ pc \in {"list", "create"} /\ pc' = "idle"
  BY <1>3 DEF Refused, Recover
<1>5. TodoInv' /\ ForwardInv' /\ FoundInv' /\ Covered'
  BY <1>1, <1>4 DEF CalmInv, TodoInv, ForwardInv, FoundInv, Covered, Had, Writing
<1>6. UndoInv'
  BY <1>1, <1>2, <1>4 DEF CalmInv, ForwardInv, UndoInv, Additions, Removals, Had, Now
<1> QED
  BY <1>5, <1>6 DEF CalmInv

\* Where a run breaks off, and whether or not its last request was carried
\* out, the library is covered.
LEMMA BreaksStep ==
  ASSUME TypeOK, CalmInv, NEW p \in Paths, Breaks(p)
  PROVE  CalmInv'
<1>1. /\ pc' = "idle" /\ listing' = listing
      /\ todo' = todo /\ name' = name /\ added' = added /\ removed' = removed
      /\ pending' = pending /\ name \in Names
  BY DEF Breaks, TypeOK
<1>2. TodoInv' /\ ForwardInv' /\ UndoInv' /\ FoundInv'
  BY <1>1 DEF TodoInv, ForwardInv, UndoInv, FoundInv, Writing
<1>3. CASE UNCHANGED <<library, promised>>
  BY <1>2, <1>3 DEF CalmInv, Covered
<1>4. CASE pc = "options" /\ WriteOptions /\ promised' = [promised EXCEPT ![name] = Declared[name]]
  BY <1>1, <1>4, OptionsEffect, DoneStep DEF CalmInv, TodoInv, Writing
<1>5. CASE pc = "create" /\ CreateLibrary /\ promised' = [promised EXCEPT ![name] = Declared[name]]
  BY <1>1, <1>5, CreateEffect, DoneStep DEF CalmInv, TodoInv, Writing
<1>6. CASE ((pc = "add" /\ p \in pending /\ Attach(p)) \/ (pc = "remove" /\ p \in pending /\ Detach(p)))
           /\ promised' = promised
  <2>1. \A n \in Names \ {name} : library'[n] = library[n]
    BY <1>6, AttachEffect, DetachEffect
  <2>2. /\ pc = "add" => library'[name].paths = library[name].paths \cup {p}
        /\ pc = "remove" => library'[name].paths = library[name].paths \ {p}
    BY <1>6, AttachEffect, DetachEffect
  <2>3. \/ promised[name] \subseteq library'[name].paths
        \/ Declared[name] \subseteq library'[name].paths
    BY <1>6, <2>2 DEF CalmInv, ForwardInv, FoundInv, Additions, Removals, Had, Now, Writing
  <2> QED
    BY <1>2, <1>6, <2>1, <2>3 DEF CalmInv, Covered
<1>7. CASE ((pc = "readd" /\ p \in pending /\ Attach(p)) \/ (pc = "unadd" /\ p \in pending /\ Detach(p)))
           /\ promised' = promised
  <2>1. \A n \in Names \ {name} : library'[n] = library[n]
    BY <1>7, AttachEffect, DetachEffect
  <2>2. /\ pc = "readd" => library'[name].paths = library[name].paths \cup {p}
        /\ pc = "unadd" => library'[name].paths = library[name].paths \ {p}
    BY <1>7, AttachEffect, DetachEffect
  <2>3. \/ promised[name] \subseteq library'[name].paths
        \/ Declared[name] \subseteq library'[name].paths
    BY <1>7, <2>2 DEF CalmInv, UndoInv, FoundInv, Additions, Removals, Had, Now, Writing
  <2> QED
    BY <1>2, <1>7, <2>1, <2>3 DEF CalmInv, Covered
<1>8. ASSUME Requests(p), Effect(p),
             promised' = IF pc \in {"create", "options"}
                           THEN [promised EXCEPT ![name] = Declared[name]] ELSE promised
      PROVE  CalmInv'
  <2>1. pc \in {"create", "options"} => promised' = [promised EXCEPT ![name] = Declared[name]]
    BY <1>8
  <2>2. pc \notin {"create", "options"} => promised' = promised
    BY <1>8
  <2>3. pc \in {"add", "remove", "readd", "unadd"} => p \in pending
    BY <1>8 DEF Requests, Writing
  <2>4. CASE pc = "options" /\ WriteOptions
    BY <1>4, <2>1, <2>4
  <2>5. CASE pc = "create" /\ CreateLibrary
    BY <1>5, <2>1, <2>5
  <2>6. CASE (pc = "add" /\ Attach(p)) \/ (pc = "remove" /\ Detach(p))
    BY <1>6, <2>2, <2>3, <2>6
  <2>7. CASE (pc = "readd" /\ Attach(p)) \/ (pc = "unadd" /\ Detach(p))
    BY <1>7, <2>2, <2>3, <2>7
  <2> QED
    BY <1>8, <2>4, <2>5, <2>6, <2>7 DEF Effect
<1> QED
  BY <1>3, <1>8 DEF Breaks

\* While people keep out of a run their edits only ever meet an idle job, and
\* what they leave is what is promised.
LEMMA EditStep ==
  ASSUME TypeOK, CalmInv, spent'.intrusions = 0,
         NEW n \in Names, NEW to \in Libraries, Edit(n, to)
  PROVE  CalmInv'
<1>1. /\ pc = "idle" /\ pc' = "idle" /\ UNCHANGED job
      /\ library' = [library EXCEPT ![n] = to]
      /\ promised' = [promised EXCEPT ![n] = to.paths]
  BY DEF Edit, job, TypeOK, Spending
<1>2. Covered'
  BY <1>1 DEF CalmInv, Covered, TypeOK
<1> QED
  BY <1>1, <1>2 DEF CalmInv, TodoInv, ForwardInv, UndoInv, FoundInv, Writing

---------------------------------------------------------------------------
(* The theorems. *)

\* Nothing is under way at first.
LEMMA Initial == ASSUME Init PROVE IInv
<1>1. TypeOK
  BY DEF Init, TypeOK, Steps, Spending, Libraries
<1>2. CalmInv
  BY DEF Init, CalmInv, TodoInv, ForwardInv, UndoInv, FoundInv, Covered, Writing
<1> QED
  BY <1>1, <1>2 DEF IInv, CalmInv

\* The inductive step.
LEMMA Inductive ==
  ASSUME IInv, [Next]_vars
  PROVE  IInv'
<1>1. TypeOK /\ TypeOK'
  BY TypeStep DEF IInv
<1> SUFFICES ASSUME Calm' PROVE CalmInv'
  BY <1>1 DEF IInv, CalmInv
<1>2. Calm
  BY <1>1, CalmBefore DEF vars, Calm
<1>3. CalmInv
  BY <1>2 DEF IInv, CalmInv
<1>4. CASE StartJob \/ List \/ EndJob \/ UNCHANGED vars
  BY <1>1, <1>3, <1>4, BetweenStep
<1>5. CASE LoopEnds
  BY <1>1, <1>3, <1>5, LoopStep
<1>6. CASE Create
  BY <1>1, <1>3, <1>6, CreateEffect, DoneStep DEF Create, CalmInv, TodoInv, Writing
<1>7. CASE Options
  BY <1>1, <1>3, <1>7, OptionsEffect, DoneStep DEF Options, CalmInv, TodoInv, Writing
<1>8. ASSUME NEW n \in Names, TakeLibrary(n) PROVE CalmInv'
  BY <1>1, <1>3, <1>8, TakeStep
<1>9. ASSUME NEW p \in Paths, Add(p) \/ Remove(p) \/ ReAdd(p) \/ UnAdd(p) PROVE CalmInv'
  BY <1>1, <1>3, <1>9, AddStep, RemoveStep, UndoStep
<1>10. ASSUME NEW p \in Paths, Refused(p) PROVE CalmInv'
  BY <1>1, <1>3, <1>10, RefusedStep
<1>11. ASSUME NEW p \in Paths, AnswerLost(p) PROVE CalmInv'
  <2>1. spent'.losses = spent.losses + 1 /\ spent.losses \in Nat
    BY <1>1, <1>11 DEF AnswerLost, TypeOK, Spending
  <2> QED
    BY <2>1 DEF Calm
<1>12. ASSUME NEW p \in Paths, Breaks(p) PROVE CalmInv'
  BY <1>1, <1>3, <1>12, BreaksStep
<1>13. ASSUME NEW n \in Names, NEW to \in Libraries, Edit(n, to) PROVE CalmInv'
  BY <1>1, <1>2, <1>3, <1>13, EditStep DEF Calm
<1> QED
  BY <1>4, <1>5, <1>6, <1>7, <1>8, <1>9, <1>10, <1>11, <1>12, <1>13 DEF Next, Job, Failure

\* Every library holds all the paths it had or all the declared ones, through
\* kills, broken connections and one refused request with its rollback.
THEOREM CoveredThrough == Spec => []CoveredThroughOneRefusal
<1>1. IInv => CoveredThroughOneRefusal
  BY DEF IInv, CoveredThroughOneRefusal
<1> QED
  BY <1>1, Initial, Inductive, PTL DEF Spec

\* A rollback in which no request failed ends with the paths it began with.
THEOREM RollbackExact == Spec => UndoneAsFound
<1>1. ASSUME IInv, [Next]_vars
      PROVE  [pc = "unadd" /\ pc' = "idle" /\ spent' = spent /\ Calm
                => library[name].paths = listing[name].paths]_vars
  <2> SUFFICES ASSUME pc = "unadd", pc' = "idle", spent' = spent, Calm, Next
               PROVE  library[name].paths = listing[name].paths
    BY <1>1 DEF vars
  <2>1. TypeOK /\ spent \in Spending
    BY <1>1 DEF IInv, TypeOK
  <2>2. \A p \in Paths : ~Breaks(p) /\ ~Refused(p) /\ ~AnswerLost(p)
    BY <2>1 DEF Breaks, Refused, AnswerLost, Spending
  <2>3. \A n \in Names, to \in Libraries : ~Edit(n, to)
    BY <2>1 DEF Edit, Spending
  <2>4. LoopEnds
    BY <2>2, <2>3 DEF Next, Job, Failure, StartJob, List, EndJob, Create, Options,
                      TakeLibrary, Add, Remove, ReAdd, UnAdd
  <2> QED
    BY <1>1, <2>4 DEF LoopEnds, IInv, UndoInv, Had, Now
<1> QED
  BY <1>1, Initial, Inductive, PTL DEF Spec, UndoneAsFound

---------------------------------------------------------------------------
(* What the job leaves alone, whatever fails. *)

\* Libraries that are missing from the listing are missing until the job comes
\* to them, and in bootstrap mode only those are written; what the listing
\* says of an undeclared option stays true while people keep out of the run.
MissingInv ==
  /\ pc \in Writing \cup {"create"} => name \notin todo
  /\ pc \notin {"idle", "list"} => \A n \in todo : listing[n].exists \/ ~library[n].exists
  /\ pc = "create" => ~library[name].exists
  /\ mode = "bootstrap" => pc \notin Writing

ExtraInv ==
  spent.intrusions = 0 =>
    /\ pc \notin {"idle", "list"} => \A n \in todo : library[n].extra = listing[n].extra
    /\ pc \in Writing => library[name].extra = listing[name].extra

KeepInv == MissingInv /\ ExtraInv

\* The options request puts back what the listing says.
LEMMA OptionsExtra ==
  ASSUME TypeOK, WriteOptions
  PROVE  library'[name].extra = listing[name].extra
         /\ \A n \in Names \ {name} : library'[n] = library[n]
<1>1. /\ name \in Names /\ library \in [Names -> Libraries] /\ library[name] \in Libraries
  BY DEF TypeOK
<1> QED BY <1>1 DEF WriteOptions, Libraries

\* A request changes the library at hand only, and no option but by a creation
\* or by what the listing says.
LEMMA EffectKeeps ==
  ASSUME TypeOK, NEW p \in Paths, Effect(p)
  PROVE  /\ \A n \in Names \ {name} : library'[n] = library[n]
         /\ pc \in {"add", "remove", "readd", "unadd"} => library'[name].extra = library[name].extra
         /\ pc = "options" => library'[name].extra = listing[name].extra
<1>1. /\ name \in Names /\ library \in [Names -> Libraries] /\ library[name] \in Libraries
  BY DEF TypeOK
<1>2. \A n \in Names \ {name} : library'[n] = library[n]
  BY AttachEffect, DetachEffect, CreateEffect, OptionsEffect DEF Effect
<1>3. Attach(p) => library'[name].extra = library[name].extra
  BY <1>1 DEF Attach, Libraries
<1>4. Detach(p) => library'[name].extra = library[name].extra
  BY <1>1 DEF Detach, Libraries
<1> QED BY <1>2, <1>3, <1>4, OptionsExtra DEF Effect

\* KeepInv is inductive.
LEMMA KeepStep == ASSUME TypeOK, KeepInv, [Next]_vars PROVE KeepInv'
<1> USE DEF KeepInv, MissingInv, ExtraInv, Writing
<1>1. CASE UNCHANGED vars BY <1>1 DEF vars
<1>2. CASE StartJob \/ EndJob BY <1>2 DEF StartJob, EndJob
<1>3. CASE List BY <1>3 DEF List
<1>4. ASSUME NEW n \in Names, TakeLibrary(n) PROVE KeepInv'
  BY <1>4 DEF TakeLibrary
<1>5. CASE LoopEnds BY <1>5 DEF LoopEnds
<1>6. CASE Create
  BY <1>6, CreateEffect DEF Create, TypeOK
<1>7. CASE Options
  BY <1>7, OptionsEffect DEF Options, TypeOK
<1>8. ASSUME NEW p \in Paths, Add(p) \/ Remove(p) \/ ReAdd(p) \/ UnAdd(p) PROVE KeepInv'
  <2>1. Effect(p)
    BY <1>8 DEF Effect, Add, Remove, ReAdd, UnAdd
  <2> QED
    BY <1>8, <2>1, EffectKeeps DEF Add, Remove, ReAdd, UnAdd, TypeOK
<1>9. ASSUME NEW p \in Paths, Refused(p) \/ AnswerLost(p) PROVE KeepInv'
  <2>1. /\ UNCHANGED <<mode, listing, todo, name>> /\ spent'.intrusions = spent.intrusions
        /\ Recover(p)
    BY <1>9 DEF Refused, AnswerLost, TypeOK, Spending
  <2>2. \/ UNCHANGED library
        \/ Effect(p)
    BY <1>9 DEF Refused, AnswerLost
  <2> QED
    BY <2>1, <2>2, EffectKeeps DEF Recover, TypeOK
<1>10. ASSUME NEW p \in Paths, Breaks(p) PROVE KeepInv'
  BY <1>10 DEF Breaks
<1>11. ASSUME NEW n \in Names, NEW to \in Libraries, Edit(n, to) PROVE KeepInv'
  <2>1. /\ pc' = pc /\ UNCHANGED <<mode, listing, todo, name>>
        /\ \A k \in Names : pc # "idle" /\ ~library[k].exists => library'[k] = library[k]
        /\ pc # "idle" => spent'.intrusions # 0
    BY <1>11 DEF Edit, job, TypeOK, Spending
  <2> QED
    BY <2>1 DEF TypeOK
<1> QED
  BY <1>1, <1>2, <1>3, <1>4, <1>5, <1>6, <1>7, <1>8, <1>9, <1>10, <1>11 DEF Next, Job, Failure

\* What the listing misses stays missing, and what it says of options holds.
THEOREM Kept == Spec => []KeepInv
<1>1. Init => KeepInv
  BY DEF Init, KeepInv, MissingInv, ExtraInv, Writing
<1>2. TypeOK /\ KeepInv /\ [Next]_vars => KeepInv'
  BY KeepStep
<1> QED BY <1>1, <1>2, TypeCorrect, PTL DEF Spec

\* A step that writes does so by the request of a path, of a creation or of
\* the options.
LEMMA WritesByRequest ==
  ASSUME TypeOK, Next, ~Edited
  PROVE  \/ library' = library
         \/ pc = "create" /\ CreateLibrary
         \/ pc = "options" /\ WriteOptions
         \/ \E p \in Paths : Effect(p)
<1>1. \A n \in Names, to \in Libraries : ~Edit(n, to)
  BY DEF Edit, Edited, TypeOK, Spending
<1>2. ASSUME NEW p \in Paths, Add(p) \/ Remove(p) \/ ReAdd(p) \/ UnAdd(p) PROVE Effect(p)
  BY <1>2 DEF Effect, Add, Remove, ReAdd, UnAdd
<1>3. ASSUME NEW p \in Paths, Refused(p) \/ AnswerLost(p) \/ Breaks(p)
      PROVE  library' = library \/ Effect(p)
  BY <1>3 DEF Refused, AnswerLost, Breaks
<1> QED
  BY <1>1, <1>2, <1>3 DEF Next, Job, Failure, StartJob, List, EndJob, TakeLibrary, LoopEnds,
     Create, Options

\* No step of the job changes an option that nobody declared, failures and
\* rollbacks included (jellyfin.py:140 to :160).
THEOREM ExtraStays == Spec => ExtraKept
<1>1. ASSUME TypeOK, KeepInv, [Next]_vars, spent.intrusions = 0, ~Edited,
             NEW n \in Names, library[n].exists
      PROVE  library'[n].extra = library[n].extra
  <2>1. CASE library' = library BY <2>1
  <2>2. ASSUME NEW p \in Paths, Effect(p) PROVE library'[n].extra = library[n].extra
    BY <1>1, <2>2, EffectKeeps DEF KeepInv, MissingInv, ExtraInv, Writing, Effect
  <2>3. CASE (pc = "create" /\ CreateLibrary) \/ (pc = "options" /\ WriteOptions)
    BY <1>1, <2>3, CreateEffect, OptionsExtra DEF KeepInv, MissingInv, ExtraInv, Writing
  <2> QED BY <1>1, <2>1, <2>2, <2>3, WritesByRequest DEF vars
<1>2. TypeOK /\ KeepInv /\ [Next]_vars =>
        [spent.intrusions = 0 /\ ~Edited =>
           \A n \in Names : library[n].exists => library'[n].extra = library[n].extra]_vars
  BY <1>1
<1> QED BY <1>2, Kept, TypeCorrect, PTL DEF Spec, ExtraKept

\* Bootstrap mode writes no library that exists, whatever fails.
THEOREM KeepsInBootstrap == Spec => BootstrapKeeps
<1>1. ASSUME TypeOK, KeepInv, [Next]_vars, mode = "bootstrap", ~Edited,
             NEW n \in Names, library[n].exists
      PROVE  library'[n] = library[n]
  <2>1. CASE library' = library BY <2>1
  <2>2. ASSUME NEW p \in Paths, Effect(p) PROVE library'[n] = library[n]
    BY <1>1, <2>2, EffectKeeps DEF KeepInv, MissingInv, Writing, Effect
  <2>3. CASE (pc = "create" /\ CreateLibrary) \/ (pc = "options" /\ WriteOptions)
    BY <1>1, <2>3, CreateEffect DEF KeepInv, MissingInv, Writing
  <2> QED BY <1>1, <2>1, <2>2, <2>3, WritesByRequest DEF vars
<1>2. TypeOK /\ KeepInv /\ [Next]_vars =>
        [mode = "bootstrap" /\ ~Edited =>
           \A n \in Names : library[n].exists => library'[n] = library[n]]_vars
  BY <1>1
<1> QED BY <1>2, Kept, TypeCorrect, PTL DEF Spec, BootstrapKeeps

---------------------------------------------------------------------------
(* Rest. *)

\* A run that finds the libraries as declared makes no request but the listing.
LEMMA SettledStep ==
  ASSUME TypeOK, Settled, [Next]_vars, ~Edited
  PROVE  Settled' /\ library' = library
<1> USE DEF Settled
<1>1. CASE UNCHANGED vars BY <1>1 DEF vars
<1>2. CASE StartJob \/ EndJob BY <1>2 DEF StartJob, EndJob
<1>3. CASE List BY <1>3 DEF List
<1>4. ASSUME NEW n \in Names, TakeLibrary(n) PROVE Settled' /\ library' = library
  BY <1>4 DEF TakeLibrary
<1>5. ASSUME NEW p \in Paths, Refused(p) \/ AnswerLost(p) \/ Breaks(p)
      PROVE  Settled' /\ library' = library
  <2>1. ~Effect(p)
    BY DEF Effect
  <2> QED BY <1>5, <2>1 DEF Refused, AnswerLost, Breaks, Recover
<1>6. \A n \in Names, to \in Libraries : ~Edit(n, to)
  BY DEF Edit, Edited, TypeOK, Spending
<1>7. ~Create /\ ~Options /\ ~LoopEnds /\ \A p \in Paths : ~Add(p) /\ ~Remove(p) /\ ~ReAdd(p) /\ ~UnAdd(p)
  BY DEF Create, Options, LoopEnds, Add, Remove, ReAdd, UnAdd
<1> QED
  BY <1>1, <1>2, <1>3, <1>4, <1>5, <1>6, <1>7 DEF Next, Job, Failure

\* Once the libraries are as declared, no run writes one again, failing runs
\* included, until a person changes one (jellyfin.py:135 to :181).
THEOREM SettledStays == Spec => StaysSettled
<1>1. TypeOK /\ [Next]_vars => [Settled /\ ~Edited => Settled' /\ library' = library]_vars
  BY SettledStep
<1> QED BY <1>1, TypeCorrect, PTL DEF Spec, StaysSettled
---------------------------------------------------------------------------
(* What a run that comes to its end has done. *)

SettleInv == TodoInv /\ ForwardInv /\ DoneInv

\* What the requests do to the rest of a library.
LEMMA PathsEffect ==
  ASSUME TypeOK, NEW p \in Paths, Attach(p) \/ Detach(p)
  PROVE  library'[name].exists = library[name].exists
<1>1. name \in Names /\ library \in [Names -> Libraries] /\ library[name] \in Libraries
  BY DEF TypeOK
<1>2. CASE Attach(p) BY <1>1, <1>2 DEF Attach, Libraries
<1>3. CASE Detach(p) BY <1>1, <1>3 DEF Detach, Libraries
<1> QED BY <1>2, <1>3

LEMMA CreateSettles ==
  ASSUME TypeOK, CreateLibrary
  PROVE  library'[name].exists /\ InOrder(library'[name], name)
<1>1. name \in Names /\ library \in [Names -> Libraries]
  BY DEF TypeOK
<1>2. PICK extra \in Extras : library' = [library EXCEPT ![name] =
        [exists |-> TRUE, paths |-> Declared[name], written |-> TRUE, extra |-> extra]]
  BY DEF CreateLibrary
<1> QED BY <1>1, <1>2 DEF InOrder

LEMMA OptionsSettle ==
  ASSUME TypeOK, WriteOptions
  PROVE  /\ library'[name].exists = library[name].exists
         /\ library'[name].paths = library[name].paths
         /\ library'[name].written
<1>1. name \in Names /\ library \in [Names -> Libraries] /\ library[name] \in Libraries
  BY DEF TypeOK
<1> QED BY <1>1 DEF WriteOptions, Libraries

\* Beside the one at hand every library stays as it was.
LEMMA OthersDone ==
  ASSUME TypeOK, TodoInv, DoneInv, UNCHANGED <<mode, listing, todo, name>>,
         pc \in Writing \cup {"create"},
         \A n \in Names \ {name} : library'[n] = library[n]
  PROVE  /\ \A n \in todo : library'[n] = listing[n]
         /\ pc \in {"create", "add", "remove", "options"} => \A n \in Names \ todo : n # name =>
              library'[n].exists /\ (mode = "managed" => InOrder(library'[n], n))
BY DEF TypeOK, TodoInv, DoneInv, Writing

\* Every step of a run nobody intrudes on keeps what it has done so far.
LEMMA SettleTake ==
  ASSUME TypeOK, SettleInv, NEW n \in Names, TakeLibrary(n)
  PROVE  SettleInv'
<1>1. /\ pc = "next" /\ n \in todo /\ name' = n /\ todo' = todo \ {n}
      /\ library[n] = listing[n]
      /\ library' = library /\ listing' = listing /\ mode' = mode
      /\ added' = {} /\ removed' = {}
      /\ pc' \in {"next", "create", "add"}
      /\ pc' = "add" => pending' = Additions(n) /\ listing[n].exists
      /\ pc' = "next" => listing[n].exists /\ (mode = "bootstrap" \/ InOrder(listing[n], n))
  BY DEF TakeLibrary, SettleInv, TodoInv
<1>2. TodoInv'
  BY <1>1 DEF SettleInv, TodoInv, Writing
<1>3. ForwardInv'
  BY <1>1 DEF ForwardInv, Additions, Had, Now
<1>4. DoneInv'
  BY <1>1 DEF SettleInv, DoneInv, InOrder
<1> QED BY <1>2, <1>3, <1>4 DEF SettleInv

LEMMA SettleLoops ==
  ASSUME TypeOK, SettleInv, NEW p \in Paths, Add(p) \/ Remove(p)
  PROVE  SettleInv'
<1>1. /\ pc \in {"add", "remove"} /\ pc' = pc /\ p \in pending /\ pending' = pending \ {p}
      /\ UNCHANGED <<mode, listing, todo, name>> /\ name \in Names
      /\ pc = "add" => added' = added \cup {p} /\ removed' = removed
      /\ pc = "remove" => added' = added /\ removed' = removed \cup {p}
  BY DEF Add, Remove, TypeOK
<1>2. /\ \A n \in Names \ {name} : library'[n] = library[n]
      /\ library'[name].exists = library[name].exists
      /\ pc = "add" => library'[name].paths = library[name].paths \cup {p}
      /\ pc = "remove" => library'[name].paths = library[name].paths \ {p}
  BY AttachEffect, DetachEffect, PathsEffect DEF Add, Remove
<1>3. TodoInv'
  BY <1>1, <1>2, OthersDone DEF SettleInv, TodoInv, Writing
<1>4. ForwardInv'
  BY <1>1, <1>2 DEF SettleInv, ForwardInv, Additions, Removals, Had, Now
<1>5. DoneInv'
  BY <1>1, <1>2, OthersDone DEF SettleInv, DoneInv, InOrder, Writing
<1> QED BY <1>3, <1>4, <1>5 DEF SettleInv

LEMMA SettleDone ==
  ASSUME TypeOK, SettleInv, Create \/ Options
  PROVE  SettleInv'
<1>1. /\ pc \in {"create", "options"} /\ pc' = "next"
      /\ UNCHANGED <<mode, listing, todo, name>> /\ name \in Names
  BY DEF Create, Options, TypeOK
<1>2. \A n \in Names \ {name} : library'[n] = library[n]
  BY CreateEffect, OptionsEffect DEF Create, Options
<1>3. library'[name].exists /\ InOrder(library'[name], name)
  <2>1. CASE Create BY <2>1, CreateSettles DEF Create
  <2>2. CASE Options
    <3>1. library[name].exists /\ library[name].paths = Declared[name]
      BY <2>2 DEF Options, SettleInv, DoneInv, ForwardInv, Additions, Removals, Had, Now
    <3> QED BY <2>2, <3>1, OptionsSettle DEF Options, InOrder
  <2> QED BY <2>1, <2>2
<1>4. TodoInv'
  BY <1>1, <1>2, OthersDone DEF SettleInv, TodoInv, Writing
<1>5. ForwardInv'
  BY <1>1 DEF ForwardInv
<1>6. DoneInv'
  BY <1>1, <1>2, <1>3, OthersDone DEF SettleInv, DoneInv, InOrder, Writing
<1> QED BY <1>4, <1>5, <1>6 DEF SettleInv

LEMMA SettleUndo ==
  ASSUME TypeOK, SettleInv, NEW p \in Paths,
         (pc \in Writing /\ pc' \in {"readd", "unadd"}) \/ pc' = "idle",
         UNCHANGED <<mode, listing, todo, name>>,
         \/ UNCHANGED library
         \/ Effect(p)
  PROVE  SettleInv'
<1>1. \A n \in Names \ {name} : library'[n] = library[n]
  BY EffectKeeps
<1>2. CASE pc \in Writing /\ pc' \in {"readd", "unadd"}
  <2>1. \A n \in todo : library'[n] = listing[n]
    BY <1>1, <1>2, OthersDone DEF SettleInv
  <2> QED BY <1>2, <2>1 DEF SettleInv, TodoInv, ForwardInv, DoneInv, Writing
<1>3. CASE pc' = "idle"
  BY <1>3 DEF SettleInv, TodoInv, ForwardInv, DoneInv, Writing
<1> QED BY <1>2, <1>3

LEMMA SettleStep ==
  ASSUME TypeOK, spent.intrusions = 0 => SettleInv, [Next]_vars
  PROVE  spent'.intrusions = 0 => SettleInv'
<1> SUFFICES ASSUME spent'.intrusions = 0 PROVE SettleInv'
  OBVIOUS
<1>1. spent.intrusions = 0
  <2>1. \/ spent' = spent
        \/ spent' = [spent EXCEPT !.edits = @ + 1]
        \/ spent' = [spent EXCEPT !.intrusions = @ + 1]
        \/ spent' = [spent EXCEPT !.refusals = @ + 1]
        \/ spent' = [spent EXCEPT !.losses = @ + 1]
        \/ spent' = [spent EXCEPT !.breaks = @ + 1]
    BY DEF TypeOK, Spending, Next, Job, Failure, StartJob, List, EndJob, Create,
           Options, LoopEnds, TakeLibrary, Add, Remove, ReAdd, UnAdd, Refused,
           AnswerLost, Breaks, Edit, vars
  <2> QED BY <2>1 DEF TypeOK, Spending
<1>2. SettleInv
  BY <1>1
<1> USE DEF TodoInv, ForwardInv, DoneInv, Writing
<1>3. CASE UNCHANGED vars BY <1>2, <1>3 DEF vars, SettleInv, Had, Now, Additions, Removals
<1>4. CASE StartJob \/ EndJob BY <1>4 DEF StartJob, EndJob, SettleInv
<1>5. CASE List BY <1>5 DEF List, SettleInv
<1>6. ASSUME NEW n \in Names, TakeLibrary(n) PROVE SettleInv'
  BY <1>2, <1>6, SettleTake
<1>7. ASSUME NEW p \in Paths, Add(p) \/ Remove(p) PROVE SettleInv'
  BY <1>2, <1>7, SettleLoops
<1>8. CASE Create \/ Options
  BY <1>2, <1>8, SettleDone
<1>9. CASE LoopEnds
  <2>1. UNCHANGED <<mode, library, listing, todo, name, added, removed>> /\ pending = {}
    BY <1>9 DEF LoopEnds
  <2>2. TodoInv' /\ DoneInv'
    BY <1>2, <1>9, <2>1 DEF LoopEnds, SettleInv
  <2>3. ForwardInv'
    BY <1>2, <1>9, <2>1 DEF LoopEnds, SettleInv, Had, Now, Additions, Removals
  <2> QED BY <2>2, <2>3 DEF SettleInv
<1>10. ASSUME NEW p \in Paths, ReAdd(p) \/ UnAdd(p) PROVE SettleInv'
  BY <1>2, <1>10, SettleUndo DEF ReAdd, UnAdd, Effect
<1>11. ASSUME NEW p \in Paths, Refused(p) \/ AnswerLost(p) PROVE SettleInv'
  BY <1>2, <1>11, SettleUndo DEF Refused, AnswerLost, Recover
<1>12. ASSUME NEW p \in Paths, Breaks(p) PROVE SettleInv'
  BY <1>12 DEF Breaks, SettleInv
<1>13. ASSUME NEW n \in Names, NEW to \in Libraries, Edit(n, to) PROVE SettleInv'
  <2>1. pc = "idle" /\ pc' = "idle"
    BY <1>13 DEF Edit, job, TypeOK, Spending
  <2> QED BY <2>1 DEF SettleInv
<1> QED
  BY <1>3, <1>4, <1>5, <1>6, <1>7, <1>8, <1>9, <1>10, <1>11, <1>12, <1>13 DEF Next, Job, Failure

\* One run settles the libraries, however earlier ones failed, and no later one
\* writes them again.
THEOREM Idempotence == Spec => Idempotent
<1>1. Init => (spent.intrusions = 0 => SettleInv)
  BY DEF Init, SettleInv, TodoInv, ForwardInv, DoneInv, Writing
<1>2. TypeOK /\ (spent.intrusions = 0 => SettleInv) /\ [Next]_vars
        => (spent.intrusions = 0 => SettleInv)'
  BY SettleStep
<1>3. TypeOK /\ (spent.intrusions = 0 => SettleInv)
        => [EndJob /\ spent.intrusions = 0 => Settled']_vars
  BY DEF EndJob, SettleInv, DoneInv, Settled
<1>4. Spec => RunSettles
  BY <1>1, <1>2, <1>3, TypeCorrect, PTL DEF Spec, RunSettles
<1> QED BY <1>4, SettledStays DEF Idempotent
==========================================================================
