------------------------ MODULE ResourceUpdateProofs ------------------------
(***************************************************************************)
(* The adapters' writes disturb nothing that people keep, for any number   *)
(* of objects, edits and faults.                                           *)
(***************************************************************************)
EXTENDS ResourceUpdate, TLAPS, FiniteSetTheorems, WellFoundedInduction

USE BoundsAssumption DEF Ids, Task

Steps == {"read", "set", "list", "lookup", "write", "replace", "public", "sync", "enable",
          "initialize"}
Length == Len(Program[service])

---------------------------------------------------------------------------
(* The programs. *)

LEMMA ServarrProgram ==
  ASSUME service = "arr"
  PROVE  /\ Length = 7
         /\ Task(1).step = "read" /\ Task(1).name = "none"
         /\ Task(2).step = "set" /\ Task(2).name = "none"
         /\ Task(3).step = "list" /\ Task(3).name = First
         /\ Task(4).step = "write" /\ Task(4).name = First
         /\ Task(5).step = "lookup" /\ Task(5).name = Second
         /\ Task(6).step = "list" /\ Task(6).name = Second
         /\ Task(7).step = "write" /\ Task(7).name = Second
BY DEF Length, Task, Program, Do

LEMMA BazarrProgram ==
  ASSUME service = "bazarr"
  PROVE  /\ Length = 3
         /\ Task(1).step = "read" /\ Task(1).name = "none"
         /\ Task(2).step = "list" /\ Task(2).name = "none"
         /\ Task(3).step = "replace" /\ Task(3).name = "none"
BY DEF Length, Task, Program, Do

LEMMA SeerrProgram ==
  ASSUME service = "seerr"
  PROVE  /\ Length = 11
         /\ Task(1).step = "public" /\ Task(1).name = "none"
         /\ Task(2).step = "sync" /\ Task(2).name = "none"
         /\ Task(3).step = "enable" /\ Task(3).name = "none"
         /\ Task(4).step = "list" /\ Task(4).name = "none"
         /\ Task(5).step = "lookup" /\ Task(5).name = First
         /\ Task(6).step = "write" /\ Task(6).name = First
         /\ Task(7).step = "lookup" /\ Task(7).name = Second
         /\ Task(8).step = "write" /\ Task(8).name = Second
         /\ Task(9).step = "read" /\ Task(9).name = "none"
         /\ Task(10).step = "set" /\ Task(10).name = "none"
         /\ Task(11).step = "initialize" /\ Task(11).name = "none"
BY DEF Length, Task, Program, Do

LEMMA ShelfProgram ==
  ASSUME service = "audiobookshelf"
  PROVE  /\ Length = 5
         /\ Task(1).step = "public" /\ Task(1).name = "none"
         /\ Task(2).step = "initialize" /\ Task(2).name = "none"
         /\ Task(3).step = "list" /\ Task(3).name = "none"
         /\ Task(4).step = "write" /\ Task(4).name = First
         /\ Task(5).step = "write" /\ Task(5).name = Second
BY DEF Length, Task, Program, Do

LEMMA TorrentProgram ==
  ASSUME service = "qbittorrent"
  PROVE  /\ Length = 4
         /\ Task(1).step = "list" /\ Task(1).name = First
         /\ Task(2).step = "write" /\ Task(2).name = First
         /\ Task(3).step = "list" /\ Task(3).name = Second
         /\ Task(4).step = "write" /\ Task(4).name = Second
BY DEF Length, Task, Program, Do

\* What the services' programs have in common.
LEMMA Order ==
  ASSUME service \in Services
  PROVE  /\ Length \in Nat /\ Length >= 3
         /\ Task(1).step \in {"read", "public", "list"}
         /\ \A k \in 1..Length :
              /\ Task(k).step \in Steps
              /\ Task(k).name \in Declared \cup {"none"}
              /\ Task(k).step = "write" => Task(k).name \in Declared
              /\ Task(k).step = "lookup" => Task(k).name \in Declared
              /\ Task(k).step = "set" => service = "arr" \/ (service = "seerr" /\ k = 10)
              /\ Task(k).step = "read" => k < Length
              /\ Task(k).step = "replace" => service = "bazarr" /\ k = 3
              /\ Task(k).step \in {"sync", "enable"} => service = "seerr"
              /\ Task(k).step = "initialize" /\ service = "seerr" => k = 11
              /\ k < Length /\ Task(k + 1).step = "set" => Task(k).step = "read"
              /\ k < Length /\ Task(k + 1).step = "replace" => Task(k).step = "list"
<1> DEFINE Goes(k) ==
             /\ Task(k).step \in Steps
             /\ Task(k).name \in Declared \cup {"none"}
             /\ Task(k).step \in {"write", "lookup"} => Task(k).name \in Declared
             /\ Task(k).step = "set" => service = "arr" \/ (service = "seerr" /\ k = 10)
             /\ Task(k).step = "read" => k < Length
             /\ Task(k).step = "replace" => service = "bazarr" /\ k = 3
             /\ Task(k).step \in {"sync", "enable"} => service = "seerr"
             /\ Task(k).step = "initialize" /\ service = "seerr" => k = 11
             /\ k < Length /\ Task(k + 1).step = "set" => Task(k).step = "read"
             /\ k < Length /\ Task(k + 1).step = "replace" => Task(k).step = "list"
<1>1. CASE service = "arr"
  <2>1. \A k \in {1, 2, 3, 4, 5, 6, 7} : Goes(k)
    BY <1>1, ServarrProgram DEF Steps, Declared
  <2>2. QED
    BY <1>1, <2>1, ServarrProgram
<1>2. CASE service = "bazarr"
  <2>1. \A k \in {1, 2, 3} : Goes(k)
    BY <1>2, BazarrProgram DEF Steps, Declared
  <2>2. QED
    BY <1>2, <2>1, BazarrProgram
<1>3. CASE service = "seerr"
  <2>1. \A k \in {1, 2, 3, 4, 5, 6, 7, 8, 9, 10, 11} : Goes(k)
    BY <1>3, SeerrProgram DEF Steps, Declared
  <2>2. QED
    BY <1>3, <2>1, SeerrProgram
<1>4. CASE service = "audiobookshelf"
  <2>1. \A k \in {1, 2, 3, 4, 5} : Goes(k)
    BY <1>4, ShelfProgram DEF Steps, Declared
  <2>2. QED
    BY <1>4, <2>1, ShelfProgram
<1>5. CASE service = "qbittorrent"
  <2>1. \A k \in {1, 2, 3, 4} : Goes(k)
    BY <1>5, TorrentProgram DEF Steps, Declared
  <2>2. QED
    BY <1>5, <2>1, TorrentProgram
<1>6. QED
  BY <1>1, <1>2, <1>3, <1>4, <1>5 DEF Services

\* A write follows a listing, and a name is written once after it.
LEMMA WritesAfterList ==
  ASSUME service \in Services, NEW k \in 1..Length, NEW w \in k..Length,
         Task(w).step = "write", \A l \in k..w : Task(l).step # "list"
  PROVE  /\ k # 1
         /\ Task(k).step = "write" /\ k # w => Task(k).name # Task(w).name
<1>1. CASE service = "arr"
  BY <1>1, ServarrProgram DEF First, Second
<1>2. CASE service = "bazarr"
  BY <1>2, BazarrProgram
<1>3. CASE service = "seerr"
  <2>1. w \in {1, 2, 3, 4, 5, 6, 7, 8, 9, 10, 11} /\ k \in 1..w
    BY <1>3, SeerrProgram
  <2>2. w \in {6, 8}
    BY <1>3, <2>1, SeerrProgram
  <2>3. Task(4).step = "list"
    BY <1>3, SeerrProgram
  <2>4. k \in {5, 6, 7, 8}
    BY <2>1, <2>2, <2>3
  <2>5. QED
    BY <1>3, <2>2, <2>4, SeerrProgram DEF First, Second
<1>4. CASE service = "audiobookshelf"
  BY <1>4, ShelfProgram DEF First, Second
<1>5. CASE service = "qbittorrent"
  BY <1>5, TorrentProgram DEF First, Second
<1>6. QED
  BY <1>1, <1>2, <1>3, <1>4, <1>5 DEF Services

---------------------------------------------------------------------------
(* What a run makes of its snapshots. *)

LEMMA Blanks ==
  /\ Unborn \in Objects /\ Gone \in Objects /\ ~Exists(Unborn) /\ ~Exists(Gone)
  /\ NoList \in [Ids -> Objects] /\ NoSettings \in Settings
<1>1. /\ Unborn.name = "unborn" /\ Gone.name = "gone"
      /\ Unborn \in Objects /\ Gone \in Objects
  <2>1. Unborn.name = "unborn" /\ Unborn \in Objects
    BY DEF Unborn, Objects, Names, Links
  <2>2. Gone.name = "gone" /\ Gone \in Objects
    BY <2>1 DEF Gone, Objects, Names
  <2>3. QED
    BY <2>1, <2>2
<1>2. NoList \in [Ids -> Objects]
  BY <1>1 DEF NoList
<1>3. NoSettings \in Settings
  BY DEF NoSettings, Settings, Links
<1>4. QED
  BY <1>1, <1>2, <1>3 DEF Exists

LEMMA DesiredObject ==
  ASSUME TypeOK, NEW i \in Ids
  PROVE  /\ Desired(i) \in Objects
         /\ Desired(i) = [listed[i] EXCEPT !.ours = TRUE, !.link = Desired(i).link]
         /\ Desired(i).name = listed[i].name /\ Desired(i).ours
         /\ Desired(i).extra = listed[i].extra /\ Desired(i).kin = listed[i].kin
<1>1. listed[i] \in Objects /\ LinkOf(listed[i].name) \in Links
  BY DEF TypeOK, LinkOf, Links
<1>2. QED
  BY <1>1 DEF Desired, Objects

LEMMA NewObject ==
  ASSUME TypeOK, NEW name \in Declared
  PROVE  /\ New(name) \in Objects /\ Exists(New(name)) /\ New(name).name = name
<1>1. LinkOf(name) \in Links
  BY DEF TypeOK, LinkOf, Links
<1>2. name \in Names /\ name \notin {"gone", "unborn"}
  BY DEF Declared, First, Second, Names
<1>3. QED
  BY <1>1, <1>2 DEF New, Objects, Exists

LEMMA Maximum ==
  ASSUME NEW S \in SUBSET Ids, S # {}
  PROVE  \E i \in S : \A j \in S : j <= i
<1> DEFINE T == {n \in Nat : \E i \in S : n = MaxId - i}
           R == OpToRel(<, Nat)
<1>1. IsWellFoundedOn(R, Nat)
  BY NatLessThanWellFounded
<1>2. T \subseteq Nat /\ T # {}
  <2>1. PICK i \in S : TRUE
    OBVIOUS
  <2>2. MaxId - i \in T
    BY <2>1
  <2>3. QED
    BY <2>2
<1>3. PICK x \in T : \A y \in T : ~ (<<y, x>> \in R)
  <2> HIDE DEF T, R
  <2>1. QED
    BY <1>1, <1>2, WFMin
<1>4. \A y \in T : ~ (y < x)
  <2>1. \A y, z \in Nat : y < z => <<y, z>> \in R
    BY DEF OpToRel
  <2>2. QED
    BY <1>2, <1>3, <2>1
<1>5. PICK i \in S : x = MaxId - i
  OBVIOUS
<1>6. \A j \in S : j <= i
  <2> TAKE j \in S
  <2>1. MaxId - j \in T
    OBVIOUS
  <2>2. QED
    BY <1>4, <1>5, <2>1
<1>7. QED
  BY <1>6

LEMMA TopType == Top \in 0..MaxId
<1> DEFINE S == {i \in Ids : Exists(listed[i])}
<1>1. CASE S = {}
  BY <1>1 DEF Top
<1>2. CASE S # {}
  <2>1. \E i \in S : \A j \in S : j <= i
    BY <1>2, Maximum
  <2>2. \E i \in Ids : Exists(listed[i]) /\ \A j \in Ids : Exists(listed[j]) => j <= i
    BY <2>1
  <2>3. Top = CHOOSE i \in Ids : Exists(listed[i]) /\ \A j \in Ids : Exists(listed[j]) => j <= i
    BY <1>2 DEF Top
  <2>4. Top \in Ids
    BY <2>2, <2>3
  <2>5. QED
    BY <2>4
<1>3. QED
  BY <1>1, <1>2

LEMMA GivenType ==
  ASSUME NEW name \in Declared
  PROVE  /\ Given(name) \in Links
         /\ Bearers(name) # {} => Given(name) \in Bearers(name)
<1>1. CASE Bearers(name) # {}
  BY <1>1 DEF Given, The, Bearers, Links
<1>2. CASE Bearers(name) = {}
  BY <1>2, TopType DEF Given, Links
<1>3. QED
  BY <1>1, <1>2

\* What the collection that Bazarr is sent has at each place.
LEMMA MergedObject ==
  ASSUME TypeOK, NEW i \in Ids
  PROVE  /\ Merged[i] \in Objects
         /\ \/ i \in Bearers(First) \cup Bearers(Second) /\ Merged[i] = Desired(i)
            \/ /\ ~Exists(listed[i])
               /\ \E name \in Declared : Bearers(name) = {} /\ Merged[i] = New(name)
            \/ Merged[i] = listed[i]
<1>1. listed[i] \in Objects
  BY DEF TypeOK
<1>2. CASE i \in Bearers(First) \cup Bearers(Second)
  <2>1. Merged[i] = Desired(i)
    BY <1>2 DEF Merged
  <2>2. QED
    BY <1>2, <2>1, DesiredObject
<1>3. CASE /\ i \notin Bearers(First) \cup Bearers(Second)
           /\ ~Exists(listed[i]) /\ \E name \in Declared : i = Given(name)
  <2> DEFINE n == CHOOSE name \in Declared : i = Given(name)
  <2>1. n \in Declared /\ i = Given(n)
    BY <1>3
  <2>2. Merged[i] = New(n)
    BY <1>3 DEF Merged
  <2>3. Bearers(n) = {}
    BY <1>3, <2>1, GivenType DEF Declared
  <2>4. QED
    BY <1>3, <2>1, <2>2, <2>3, NewObject
<1>4. CASE /\ i \notin Bearers(First) \cup Bearers(Second)
           /\ ~(~Exists(listed[i]) /\ \E name \in Declared : i = Given(name))
  <2>1. Merged[i] = listed[i]
    BY <1>4 DEF Merged
  <2>2. QED
    BY <1>1, <2>1
<1>5. QED
  BY <1>2, <1>3, <1>4

---------------------------------------------------------------------------
(* What a write does to one object. *)

Created(i) ==
  /\ ~Exists(object[i])
  /\ \E n \in Declared : /\ object'[i] = New(n)
                         /\ \A j \in Ids \ (touched \cup {i}) : object[j].name # n

Amended(i) ==
  /\ mode = "managed" /\ object[i].name \in Declared /\ object[i].kin
  /\ \A j \in Ids \ (touched \cup {i}) : object[j].name # object[i].name
  /\ object'[i] = [object[i] EXCEPT !.ours = TRUE, !.link = object'[i].link]

\* The run's listing is still right about the name.
Fresh(n) ==
  \A i \in Ids \ touched : n \in {listed[i].name, object[i].name} => listed[i] = object[i]

\* The objects of a name that the run has listed, where nobody worked on them.
LEMMA SoleBearer ==
  ASSUME TypeOK, mode \in {"managed", "bootstrap"}, NEW n \in Declared, Fresh(n), ~Refused(n),
         NEW i \in Ids \ touched, listed[i].name = n
  PROVE  /\ object[i] = listed[i] /\ (mode = "managed" => object[i].kin)
         /\ \A j \in Ids \ (touched \cup {i}) : object[j].name # n
<1>1. object[i] = listed[i] /\ i \in Bearers(n)
  BY DEF Fresh, Bearers
<1>2. mode = "managed" => listed[i].kin
  BY <1>1 DEF Refused
<1>3. ASSUME NEW j \in Ids \ (touched \cup {i}), object[j].name = n PROVE FALSE
  <2>1. j \in Bearers(n)
    BY <1>3 DEF Fresh, Bearers
  <2>2. QED
    BY <1>1, <1>3, <2>1 DEF Refused
<1>4. QED
  BY <1>1, <1>2, <1>3

LEMMA PutObject ==
  ASSUME TypeOK, NEW i \in Ids
  PROVE  /\ Put(i) \in Objects
         /\ service \in {"arr", "seerr"} => Put(i) = Desired(i)
         /\ service \notin {"arr", "seerr"} =>
              /\ Put(i) = [object[i] EXCEPT !.ours = TRUE]
              /\ Put(i).name = object[i].name /\ Put(i).link = object[i].link
<1>1. object[i] \in Objects
  BY DEF TypeOK
<1>2. CASE service \in {"arr", "seerr"}
  BY <1>2, DesiredObject DEF Put
<1>3. CASE service \notin {"arr", "seerr"}
  BY <1>1, <1>3 DEF Put, Objects
<1>4. QED
  BY <1>2, <1>3

LEMMA WriteSafe ==
  ASSUME TypeOK, NEW n \in Declared, WriteObject(n), ~Refused(n), Fresh(n),
         Bearers(n) = {} \/ mode = "managed"
  PROVE  /\ object' \in [Ids -> Objects]
         /\ \A i \in Ids \ touched :
              object'[i] # object[i] =>
                /\ Created(i) \/ Amended(i)
                /\ object'[i].name = n
                /\ Exists(object[i]) => object[i].name = n
         /\ Bearers(n) = {} => /\ \A i \in Ids : Exists(object[i]) => object'[i] = object[i]
                               /\ \E i \in Ids : object'[i].name = n
         /\ Bearers(n) # {} /\ touched \cap Ids = {} =>
              \E i \in Ids : object'[i].name = n
<1>1. CASE Bearers(n) = {}
  <2>1. PICK i \in Ids : Free(i) /\ object' = [object EXCEPT ![i] = New(n)]
    BY <1>1 DEF WriteObject, Create
  <2>2. /\ object' \in [Ids -> Objects] /\ object'[i] = New(n)
        /\ \A j \in Ids \ {i} : object'[j] = object[j]
    BY <2>1, NewObject DEF TypeOK
  <2>3. ~Exists(object[i])
    BY <2>1 DEF Free, Exists
  <2>4. \A j \in Ids \ touched : object[j].name # n
    BY <1>1 DEF Fresh, Bearers
  <2>5. Created(i)
    BY <2>2, <2>3, <2>4 DEF Created
  <2>6. object'[i].name = n
    BY <2>2, NewObject
  <2>7. QED
    BY <1>1, <2>2, <2>3, <2>5, <2>6
<1>2. CASE Bearers(n) # {}
  <2>1. mode = "managed"
    BY <1>2
  <2>2. object' = [i \in Ids |-> IF i \in Goal(n) THEN Put(i) ELSE object[i]]
    BY <1>2 DEF WriteObject, Change
  <2>3. object' \in [Ids -> Objects]
    BY <2>2, PutObject DEF TypeOK
  <2>4. ASSUME NEW i \in Ids \ touched, i \in Goal(n)
        PROVE  /\ listed[i] = object[i] /\ object[i].name = n
               /\ object'[i] = [object[i] EXCEPT !.ours = TRUE, !.link = object'[i].link]
               /\ object'[i].name = n
    <3>1. listed[i].name = n \/ object[i].name = n
      BY <2>4 DEF Goal, Bearers
    <3>2. listed[i] = object[i] /\ object[i].name = n
      BY <3>1 DEF Fresh
    <3>3. object[i] \in Objects /\ object'[i] = Put(i)
      BY <2>2, <2>4 DEF TypeOK
    <3>4. CASE service \in {"arr", "seerr"}
      <4>1. object'[i] = Desired(i)
        BY <3>3, <3>4, PutObject
      <4>2. /\ Desired(i) = [listed[i] EXCEPT !.ours = TRUE, !.link = Desired(i).link]
            /\ Desired(i).name = listed[i].name
        BY DesiredObject
      <4>3. QED
        BY <3>2, <4>1, <4>2
    <3>5. CASE service \notin {"arr", "seerr"}
      BY <3>2, <3>3, <3>5, PutObject DEF Objects
    <3>6. QED
      BY <3>2, <3>4, <3>5
  <2>5. ASSUME NEW i \in Ids \ touched, object'[i] # object[i]
        PROVE  Amended(i) /\ object'[i].name = n /\ object[i].name = n
    <3>1. i \in Goal(n)
      BY <2>2, <2>5
    <3>2. listed[i] = object[i] /\ object[i].name = n
      BY <2>4, <3>1
    <3>3. object[i].kin /\ \A j \in Ids \ (touched \cup {i}) : object[j].name # n
      BY <2>1, <3>2, SoleBearer
    <3>4. object'[i] = [object[i] EXCEPT !.ours = TRUE, !.link = object'[i].link]
      BY <2>4, <3>1
    <3>5. QED
      BY <2>1, <2>4, <3>1, <3>2, <3>3, <3>4 DEF Amended
  <2>6. ASSUME touched \cap Ids = {} PROVE \E i \in Ids : object'[i].name = n
    <3>1. PICK i \in Ids : listed[i].name = n
      BY <1>2 DEF Bearers
    <3>2. object[i].name = n /\ i \in Ids \ touched
      BY <2>6, <3>1 DEF Fresh
    <3>3. CASE object'[i] = object[i]
      BY <3>2, <3>3
    <3>4. CASE object'[i] # object[i]
      BY <2>5, <3>2, <3>4
    <3>5. QED
      BY <3>3, <3>4
  <2>7. QED
    BY <1>2, <2>3, <2>5, <2>6
<1>3. QED
  BY <1>1, <1>2

LEMMA ReplaceSafe ==
  ASSUME TypeOK, Replace, mode = "managed", \A n \in Declared : ~Refused(n),
         \A i \in Ids \ touched : listed[i] = object[i]
  PROVE  /\ object' \in [Ids -> Objects] /\ setting' \in Settings
         /\ setting'.extra = setting.extra
         /\ \A i \in Ids \ touched : object'[i] # object[i] => Created(i) \/ Amended(i)
<1> DEFINE Sent(i) == IF Exists(Merged[i]) THEN Merged[i]
                      ELSE IF Exists(object[i]) THEN Gone ELSE object[i]
<1>1. setting' \in Settings /\ setting'.extra = setting.extra
  <2>1. Given(First) \in Links
    BY GivenType DEF Declared
  <2>2. setting' = [setting EXCEPT !.ours = @ \/ ~read.ours,
                      !.link = IF read.link # Given(First) THEN Given(First) ELSE @]
    BY DEF Replace
  <2>3. QED
    BY <2>1, <2>2 DEF TypeOK, Settings
<1>2. object' = object \/ object' = [i \in Ids |-> Sent(i)]
  BY DEF Replace
<1>3. \A i \in Ids : Sent(i) \in Objects
  BY MergedObject, Blanks DEF TypeOK
<1>4. object' \in [Ids -> Objects]
  BY <1>2, <1>3 DEF TypeOK
<1>5. ASSUME NEW i \in Ids \ touched, object'[i] # object[i]
      PROVE  Created(i) \/ Amended(i)
  <2>1. object'[i] = Sent(i)
    BY <1>2, <1>5
  <2>2. listed[i] = object[i]
    OBVIOUS
  <2>3. CASE i \in Bearers(First) \cup Bearers(Second) /\ Merged[i] = Desired(i)
    <3>1. PICK n \in Declared : listed[i].name = n
      BY <2>3 DEF Bearers, Declared
    <3>2. Desired(i).name = n /\ Exists(Desired(i))
      BY <3>1, DesiredObject DEF Exists, Declared, First, Second
    <3>3. object'[i] = Desired(i)
      BY <2>1, <2>3, <3>2
    <3>4. object'[i] = [object[i] EXCEPT !.ours = TRUE, !.link = object'[i].link]
      BY <2>2, <3>3, DesiredObject
    <3>5. Fresh(n)
      BY DEF Fresh
    <3>6. object[i].kin /\ \A j \in Ids \ (touched \cup {i}) : object[j].name # n
      BY <3>1, <3>5, SoleBearer
    <3>7. QED
      BY <2>2, <3>1, <3>4, <3>6 DEF Amended
  <2>4. ASSUME ~Exists(listed[i]), NEW n \in Declared, Bearers(n) = {}, Merged[i] = New(n)
        PROVE  Created(i)
    <3>1. object'[i] = New(n)
      BY <2>1, <2>4, NewObject
    <3>2. \A j \in Ids \ touched : object[j].name # n
      BY <2>4 DEF Bearers
    <3>3. QED
      BY <2>2, <2>4, <3>1, <3>2 DEF Created
  <2>5. CASE Merged[i] = listed[i]
    BY <1>5, <2>1, <2>2, <2>5
  <2>6. QED
    BY <2>3, <2>4, <2>5, MergedObject
<1>6. QED
  BY <1>1, <1>4, <1>5

LEMMA SettingsWritten ==
  ASSUME TypeOK, WriteSettings
  PROVE  setting' \in Settings /\ setting'.ours /\ setting'.extra = read.extra
BY DEF TypeOK, WriteSettings, Settings

---------------------------------------------------------------------------
(* A write, by the run or after it. *)

\* It is the one to be made now.
Due(k) == k # 0 /\ k = Step /\ ~Stops(k) /\ Wants(k)

LEMMA StepType ==
  ASSUME TypeOK
  PROVE  /\ Step \in 0..Length
         /\ at \in 0..Length /\ late \in 0..Length
         /\ service \in Services /\ mode \in {"managed", "bootstrap"}
BY DEF TypeOK, Step, Length

\* The parts of the invariant that a write relies on.
LEMMA DueFacts ==
  ASSUME IInv, NEW k \in 1..Length, Due(k)
  PROVE  /\ Task(k).step = "write" =>
              /\ Task(k).name \in Declared /\ Fresh(Task(k).name) /\ ~Refused(Task(k).name)
              /\ Bearers(Task(k).name) = {} \/ mode = "managed"
         /\ Task(k).step = "replace" =>
              /\ service = "bazarr" /\ mode = "managed"
              /\ \A n \in Declared : ~Refused(n)
              /\ \A i \in Ids \ touched : listed[i] = object[i]
         /\ Task(k).step = "set" =>
              /\ MayConfigure /\ ~read.ours
              /\ 0 \in touched \/ read = setting
<1>1. /\ TypeOK /\ k = Step /\ Step # 0 /\ service \in Services
  BY StepType DEF IInv, Due
<1>2. ASSUME Task(k).step = "write"
      PROVE  /\ Task(k).name \in Declared /\ Fresh(Task(k).name) /\ ~Refused(Task(k).name)
             /\ Bearers(Task(k).name) = {} \/ mode = "managed"
  <2>1. Task(k).name \in Declared
    BY <1>1, <1>2, Order
  <2>2. Open(Task(k).name)
    BY <1>1, <1>2, StepType DEF Open, Length
  <2>3. Fresh(Task(k).name)
    BY <1>1, <2>1, <2>2 DEF IInv, ListInv, Fresh
  <2>4. ~Refused(Task(k).name)
    BY <1>2 DEF Due, Stops
  <2>5. Bearers(Task(k).name) = {} \/ mode = "managed"
    BY <1>2 DEF Due, Wants
  <2>6. QED
    BY <2>1, <2>3, <2>4, <2>5
<1>3. ASSUME Task(k).step = "replace"
      PROVE  /\ service = "bazarr" /\ mode = "managed"
             /\ \A n \in Declared : ~Refused(n)
             /\ \A i \in Ids \ touched : listed[i] = object[i]
  <2>1. service = "bazarr" /\ k = 3
    BY <1>1, <1>3, Order
  <2>2. mode = "managed"
    BY <1>1, <2>1 DEF IInv, ControlInv, TypeOK
  <2>3. \A n \in Declared : ~Refused(n)
    BY <1>3 DEF Due, Stops
  <2>4. \A i \in Ids \ touched : listed[i] = object[i]
    BY <1>1, <1>3 DEF IInv, ListInv
  <2>5. QED
    BY <2>1, <2>2, <2>3, <2>4
<1>4. ASSUME Task(k).step = "set"
      PROVE  MayConfigure /\ ~read.ours /\ (0 \in touched \/ read = setting)
  <2>1. MayConfigure /\ ~read.ours
    BY <1>4 DEF Due, Wants
  <2>2. 0 \in touched \/ read = setting
    BY <1>1, <1>4 DEF IInv, ReadInv
  <2>3. QED
    BY <2>1, <2>2
<1>5. QED
  BY <1>2, <1>3, <1>4

LEMMA EffectSafe ==
  ASSUME IInv, NEW k \in 1..Length, Due(k), Effect(k)
  PROVE  /\ object' \in [Ids -> Objects] /\ setting' \in Settings
         /\ initialized' \in BOOLEAN /\ shelf' \in {"missing", "off", "on"} /\ profile' = profile
         /\ \A i \in Ids \ touched : object'[i] # object[i] => Created(i) \/ Amended(i)
         /\ 0 \in touched \/ setting'.extra = setting.extra
         /\ mode = "bootstrap" =>
              /\ \A i \in Ids : Exists(object[i]) => object'[i] = object[i]
              /\ setting' # setting => service = "seerr" /\ k = 10 /\ ~setup
         /\ initialized' # initialized => Task(k).step = "initialize" /\ ~setup
<1>1. TypeOK /\ service \in Services
  BY StepType DEF IInv
<1>2. CASE Task(k).step = "set" /\ WriteSettings
  <2>1. /\ object' = object /\ initialized' = initialized /\ shelf' = shelf /\ profile' = profile
    BY <1>2 DEF WriteSettings
  <2>2. setting' \in Settings /\ setting'.extra = read.extra
    BY <1>1, <1>2, SettingsWritten
  <2>3. MayConfigure /\ (0 \in touched \/ read = setting)
    BY <1>2, DueFacts
  <2>4. mode = "bootstrap" => service = "seerr" /\ k = 10 /\ ~setup
    BY <1>1, <1>2, <2>3, Order DEF MayConfigure
  <2>5. QED
    BY <1>1, <2>1, <2>2, <2>3, <2>4 DEF TypeOK
<1>3. CASE Task(k).step = "sync" /\ Sync
  BY <1>1, <1>3 DEF Sync, TypeOK
<1>4. CASE Task(k).step = "enable" /\ Enable
  BY <1>1, <1>4 DEF Enable, TypeOK
<1>5. CASE Task(k).step = "write" /\ WriteObject(Task(k).name)
  <2>1. /\ setting' = setting /\ initialized' = initialized /\ shelf' = shelf /\ profile' = profile
    BY <1>5 DEF WriteObject
  <2> DEFINE n == Task(k).name
  <2>2. n \in Declared /\ Fresh(n) /\ ~Refused(n) /\ (Bearers(n) = {} \/ mode = "managed")
    BY <1>5, DueFacts
  <2>3. WriteObject(n)
    BY <1>5
  <2> HIDE DEF n
  <2>4. /\ object' \in [Ids -> Objects]
        /\ \A i \in Ids \ touched : object'[i] # object[i] => Created(i) \/ Amended(i)
        /\ Bearers(n) = {} => \A i \in Ids : Exists(object[i]) => object'[i] = object[i]
    BY <1>1, <2>2, <2>3, WriteSafe
  <2>5. QED
    BY <1>1, <2>1, <2>2, <2>4 DEF TypeOK
<1>6. CASE Task(k).step = "replace" /\ Replace
  <2>1. initialized' = initialized /\ shelf' = shelf /\ profile' = profile
    BY <1>6 DEF Replace
  <2>2. /\ mode = "managed" /\ \A n \in Declared : ~Refused(n)
        /\ \A i \in Ids \ touched : listed[i] = object[i]
    BY <1>6, DueFacts
  <2>3. /\ object' \in [Ids -> Objects] /\ setting' \in Settings
        /\ setting'.extra = setting.extra
        /\ \A i \in Ids \ touched : object'[i] # object[i] => Created(i) \/ Amended(i)
    BY <1>1, <1>6, <2>2, ReplaceSafe
  <2>4. QED
    BY <1>1, <2>1, <2>2, <2>3 DEF TypeOK
<1>7. CASE Task(k).step = "initialize" /\ Initialize
  <2>1. ~setup
    BY <1>7 DEF Due, Wants
  <2>2. QED
    BY <1>1, <1>7, <2>1 DEF Initialize, TypeOK
<1>8. QED
  BY <1>2, <1>3, <1>4, <1>5, <1>6, <1>7 DEF Effect

\* Only writes that are due change anything but what people change.
LEMMA ChangesAreDue ==
  ASSUME IInv, [Next]_vars, ByJob
  PROVE  UNCHANGED app \/ \E k \in 1..Length : Due(k) /\ Effect(k)
<1>1. TypeOK /\ ControlInv /\ at \in 0..Length /\ late \in 0..Length
  BY StepType DEF IInv
<1>2. CASE Write
  <2>1. at # 0 /\ ~Stops(at) /\ Wants(at) /\ Effect(at)
    BY <1>2 DEF Write, Writing
  <2>2. Due(at)
    BY <2>1 DEF Due, Step
  <2>3. QED
    BY <1>1, <2>1, <2>2
<1>3. CASE Arrive
  <2>1. late # 0 /\ Effect(late)
    BY <1>3 DEF Arrive
  <2>2. Due(late)
    BY <1>1, <2>1 DEF Due, Step, ControlInv
  <2>3. QED
    BY <1>1, <2>1, <2>2
<1>4. CASE People
  <2>1. spent' = [spent EXCEPT !.edits = @ + 1]
    BY <1>4 DEF People, EditSettings, EditProfile, Onboard, EditObject, Touch
  <2>2. QED
    BY <1>1, <2>1 DEF TypeOK, Spending, ByJob
<1>5. CASE Start \/ ReadPublic \/ ReadSettings \/ List \/ Lookup \/ Pass \/ Stop \/ BreakOff \/ Vanish
  BY <1>5 DEF Start, ReadPublic, ReadSettings, List, Lookup, Pass, Stop, BreakOff, Vanish
<1>6. CASE UNCHANGED vars
  BY <1>6 DEF vars, app
<1>7. QED
  BY <1>2, <1>3, <1>4, <1>5, <1>6 DEF Next, Job, Network

---------------------------------------------------------------------------
(* The invariant is inductive. *)

LEMMA TopUnmoved == listed' = listed => Top' = Top
BY DEF Top

LEMMA GivenUnmoved ==
  ASSUME listed' = listed, NEW name
  PROVE  Bearers(name)' = Bearers(name) /\ The(name)' = The(name) /\ Given(name)' = Given(name)
<1>1. Top' = Top
  BY TopUnmoved
<1>2. Bearers(name)' = Bearers(name)
  BY DEF Bearers
<1>3. Bearers(First)' = Bearers(First)
  BY DEF Bearers
<1>4. The(name)' = The(name)
  BY <1>2 DEF The
<1>5. QED
  BY <1>1, <1>2, <1>3, <1>4 DEF Given

\* What people do while a late write is under way does not concern it.
LEMMA DueUnmoved ==
  ASSUME UNCHANGED <<service, mode, shelf>>, UNCHANGED local, NEW k,
         Task(k).step # "lookup", ~Stops(k), Wants(k)
  PROVE  ~Stops(k)' /\ Wants(k)'
<1>1. /\ service' = service /\ mode' = mode /\ shelf' = shelf
      /\ listed' = listed /\ read' = read /\ found' = found /\ setup' = setup
  BY DEF local
<1>2. Task(k)' = Task(k) /\ MayConfigure' = MayConfigure
  BY <1>1 DEF MayConfigure
<1>3. ASSUME NEW name PROVE Refused(name)' = Refused(name)
  BY <1>1 DEF Refused, Bearers
<1>4. ASSUME NEW name PROVE Bearers(name)' = Bearers(name)
  BY <1>1 DEF Bearers
<1>5. ASSUME NEW i PROVE Desired(i)' = Desired(i)
  BY <1>1 DEF Desired, LinkOf, Refers
<1>6. ASSUME NEW name PROVE New(name)' = New(name)
  BY <1>1 DEF New, LinkOf, Refers
<1>7. ASSUME NEW name PROVE Given(name)' = Given(name)
  BY <1>1, GivenUnmoved
<1>8. Merged' = Merged
  BY <1>1, <1>4, <1>5, <1>6, <1>7 DEF Merged
<1> DEFINE n == Task(k).name
<1>9. n' = n /\ Refused(n)' = Refused(n) /\ Bearers(n)' = Bearers(n)
  BY <1>1 DEF Refused, Bearers
<1>10. ~Stops(k)'
  <2>1. \A name \in Declared : Refused(name)' = Refused(name)
    BY <1>3
  <2>2. QED
    BY <1>1, <1>2, <1>9, <2>1 DEF Stops
<1>11. Wants(k)'
  <2>1. \A i \in Bearers(n) : Desired(i)' = Desired(i)
    BY <1>5
  <2>2. Given(First)' = Given(First)
    BY <1>7
  <2>3. QED
    BY <1>1, <1>2, <1>4, <1>8, <1>9, <2>1, <2>2 DEF Wants
<1>12. QED
  BY <1>10, <1>11

\* The types of the application's state and of the run's, apart.
AppTyped ==
  /\ object \in [Ids -> Objects] /\ setting \in Settings
  /\ initialized \in BOOLEAN /\ shelf \in {"missing", "off", "on"} /\ profile \in 0..2
LocalTyped ==
  /\ listed \in [Ids -> Objects] /\ read \in Settings /\ found \in Links /\ setup \in BOOLEAN
RunTyped ==
  /\ at \in 0..Length /\ late \in 0..Length
  /\ touched \in SUBSET (Ids \cup {0, -1})

LEMMA TypeParts ==
  TypeOK <=> /\ service \in Services /\ mode \in {"managed", "bootstrap"}
             /\ AppTyped /\ LocalTyped /\ RunTyped /\ spent \in Spending
             /\ alone \in BOOLEAN
BY DEF TypeOK, AppTyped, LocalTyped, RunTyped, Length

LEMMA AfterType ==
  ASSUME service \in Services, NEW k \in 1..Length
  PROVE  /\ After(k) \in 0..Length
         /\ After(k) # 0 => After(k) = k + 1 /\ k < Length
         /\ k < Length => After(k) = k + 1
BY Order DEF After, Length

LEMMA ForgetTyped ==
  ASSUME Forget
  PROVE  LocalTyped' /\ late' = 0 /\ touched' = {}
<1>1. setup' \in BOOLEAN
  BY DEF Forget
<1>2. listed' \in [Ids -> Objects] /\ read' \in Settings /\ found' \in Links
  BY Blanks DEF Forget, Links
<1>3. QED
  BY <1>1, <1>2 DEF LocalTyped, Forget

LEMMA EndTyped ==
  ASSUME End, service' = service, service \in Services
  PROVE  LocalTyped' /\ RunTyped' /\ at' = 0 /\ late' = 0
<1>1. LocalTyped' /\ late' = 0 /\ touched' = {} /\ at' = 0
  BY ForgetTyped DEF End
<1>2. Length' = Length /\ Length \in Nat
  BY Order DEF Length
<1>3. QED
  BY <1>1, <1>2 DEF RunTyped

LEMMA ProceedTyped ==
  ASSUME Proceed, service' = service, service \in Services, at \in 1..Length,
         LocalTyped, RunTyped
  PROVE  /\ LocalTyped' /\ RunTyped'
         /\ \/ End
            \/ at' = at + 1 /\ at < Length /\ UNCHANGED <<late, local, touched>>
<1>1. CASE End
  BY <1>1, EndTyped
<1>2. CASE After(at) # 0 /\ at' = After(at) /\ UNCHANGED <<late, local, touched>>
  <2>1. at' = at + 1 /\ at < Length
    BY <1>2, AfterType
  <2>2. LocalTyped'
    BY <1>2 DEF LocalTyped, local
  <2>3. Length' = Length /\ Length \in Nat
    BY Order DEF Length
  <2>4. RunTyped'
    BY <1>2, <2>1, <2>3 DEF RunTyped
  <2>5. QED
    BY <1>2, <2>1, <2>2, <2>4
<1>3. QED
  BY <1>1, <1>2 DEF Proceed

LEMMA EffectTyped ==
  ASSUME IInv, NEW k \in 1..Length, Due(k), Effect(k)
  PROVE  AppTyped'
<1>1. profile \in 0..2
  BY DEF IInv, TypeOK
<1>2. QED
  BY <1>1, EffectSafe DEF AppTyped

LEMMA FoundType ==
  ASSUME TypeOK, Lookup
  PROVE  found' \in Links
<1>1. at \in 1..Length /\ Task(at).step = "lookup"
  BY StepType DEF Lookup, Now
<1>2. CASE Skipped(Task(at).name)
  BY <1>2 DEF Lookup, Links
<1>3. CASE ~Skipped(Task(at).name)
  <2>1. Cardinality(Targets) = 1
    BY <1>1, <1>3 DEF Lookup, Stops
  <2>2. Targets # {}
    BY <2>1, FS_EmptySet
  <2>3. Targets \subseteq Links
    BY DEF Targets, Links, TypeOK
  <2>4. found' = CHOOSE i \in Targets : TRUE
    BY <1>3 DEF Lookup
  <2>5. QED
    BY <2>2, <2>3, <2>4
<1>4. QED
  BY <1>2, <1>3

\* An edited object is an object, and counts as touched while a run is on.
LEMMA EditTyped ==
  ASSUME TypeOK, NEW i \in Ids, EditObject(i)
  PROVE  /\ object' \in [Ids -> Objects]
         /\ \A j \in Ids \ {i} : object'[j] = object[j]
<1>1. object \in [Ids -> Objects]
  BY DEF TypeOK
<1> DEFINE Edited == IF Exists(object[i])
                       THEN {[object[i] EXCEPT !.ours = FALSE], [object[i] EXCEPT !.extra = 1 - @], Gone}
                       ELSE Made
<1>2. PICK o \in Edited : object' = [object EXCEPT ![i] = o]
  BY DEF EditObject
<1>3. Made \subseteq Objects
  <2>1. ASSUME NEW name \in Declared \cup {"undeclared"}
        PROVE  [Unborn EXCEPT !.name = name, !.ours = (service = "qbittorrent" /\ name = Second)] \in Objects
    <3>1. name \in Names
      BY DEF Names, Declared
    <3>2. (service = "qbittorrent" /\ name = Second) \in BOOLEAN
      OBVIOUS
    <3>3. QED
      BY <3>1, <3>2, Blanks DEF Objects
  <2>2. QED
    BY <2>1 DEF Made
<1>4. CASE Exists(object[i])
  <2>1. object[i] \in Objects
    BY <1>1
  <2>2. /\ [object[i] EXCEPT !.ours = FALSE] \in Objects
        /\ [object[i] EXCEPT !.extra = 1 - @] \in Objects
    <3>1. 1 - object[i].extra \in 0..1
      BY <2>1 DEF Objects
    <3>2. QED
      BY <2>1, <3>1 DEF Objects
  <2>3. o \in Objects
    BY <1>2, <1>4, <2>2, Blanks
  <2>4. QED
    BY <1>1, <1>2, <2>3
<1>5. CASE ~Exists(object[i])
  BY <1>1, <1>2, <1>3, <1>5
<1>6. QED
  BY <1>4, <1>5

LEMMA TouchTyped ==
  ASSUME TypeOK, NEW what \in SUBSET (Ids \cup {0, -1}), Touch(what)
  PROVE  /\ spent' \in Spending /\ LocalTyped' /\ RunTyped'
         /\ service' = service /\ mode' = mode /\ at' = at /\ late' = late /\ UNCHANGED local
         /\ Step # 0 => touched' = touched \cup what
<1>1. /\ service' = service /\ mode' = mode /\ at' = at /\ late' = late /\ UNCHANGED local
      /\ touched' = IF at = 0 /\ late = 0 THEN touched ELSE touched \cup what
      /\ spent.edits < MaxEdits /\ spent' = [spent EXCEPT !.edits = @ + 1]
  BY DEF Touch
<1>2. spent' \in Spending
  BY <1>1 DEF TypeOK, Spending
<1>3. LocalTyped'
  BY <1>1, TypeParts DEF LocalTyped, local
<1>4. Length' = Length
  BY <1>1 DEF Length
<1>5. RunTyped'
  BY <1>1, <1>4, TypeParts DEF RunTyped
<1>6. Step # 0 => touched' = touched \cup what
  BY <1>1 DEF Step
<1>7. QED
  BY <1>1, <1>2, <1>3, <1>5, <1>6

\* Only people spoil a run's being alone, and its end restores it.
LEMMA AloneStep ==
  ASSUME [Next]_vars
  PROVE  \/ alone' = alone
         \/ alone' = TRUE /\ Forget
         \/ alone' = (alone /\ at = 0) /\ at' = at /\ UNCHANGED <<late, local>> /\ People
<1>1. Forget => alone' = TRUE
  BY DEF Forget
<1>2. Proceed => alone' = alone \/ Forget
  BY DEF Proceed, End
<1>3. CASE Job
  BY <1>1, <1>2, <1>3 DEF Job, Start, ReadPublic, ReadSettings, List, Lookup, Write, Pass, Stop, End
<1>4. CASE BreakOff \/ Network
  BY <1>1, <1>4 DEF BreakOff, Network, Arrive, Vanish, End
<1>5. CASE People
  BY <1>5 DEF People, EditSettings, EditProfile, Onboard, EditObject, Touch
<1>6. CASE UNCHANGED vars
  BY <1>6 DEF vars
<1> QED BY <1>1, <1>3, <1>4, <1>5, <1>6 DEF Next

LEMMA AloneTyped ==
  ASSUME alone \in BOOLEAN, [Next]_vars
  PROVE  alone' \in BOOLEAN
<1>1. alone' = alone \/ alone' = TRUE \/ alone' = (alone /\ at = 0)
  BY AloneStep
<1>2. TRUE \in BOOLEAN /\ (alone /\ at = 0) \in BOOLEAN
  OBVIOUS
<1> QED BY <1>1, <1>2

LEMMA TypeKept ==
  ASSUME IInv, [Next]_vars
  PROVE  TypeOK'
<1> alone' \in BOOLEAN
  BY AloneTyped DEF IInv, TypeOK
<1>1. /\ TypeOK /\ service \in Services /\ mode \in {"managed", "bootstrap"}
      /\ AppTyped /\ LocalTyped /\ RunTyped /\ spent \in Spending
      /\ Length \in Nat /\ Length >= 3
  BY TypeParts, Order DEF IInv
<1>2. ASSUME UNCHANGED <<service, mode, spent>>, AppTyped', LocalTyped', RunTyped'
      PROVE  TypeOK'
  BY <1>1, <1>2, TypeParts DEF TypeOK, AppTyped, LocalTyped, RunTyped, Length
<1>3. UNCHANGED app => AppTyped'
  BY <1>1 DEF AppTyped, app
<1>4. service' = service => Length' = Length
  BY DEF Length
<1>5. at # 0 => at \in 1..Length /\ After(at) \in 0..Length
  BY <1>1, AfterType DEF RunTyped
<1>6. CASE Start
  <2>1. LocalTyped' /\ RunTyped'
    BY <1>1, <1>4, <1>6 DEF Start, LocalTyped, RunTyped, local
  <2>2. QED
    BY <1>2, <1>3, <1>6, <2>1 DEF Start
<1>7. CASE ReadPublic
  <2>1. LocalTyped' /\ RunTyped'
    BY <1>1, <1>4, <1>5, <1>7 DEF ReadPublic, Now, LocalTyped, RunTyped, AppTyped
  <2>2. QED
    BY <1>2, <1>3, <1>7, <2>1 DEF ReadPublic
<1>8. CASE ReadSettings
  <2>1. CASE End
    BY <1>1, <1>2, <1>3, <1>8, <2>1, EndTyped DEF ReadSettings
  <2>2. CASE /\ read' = setting /\ at' = After(at) /\ touched' = touched \ {0}
             /\ UNCHANGED <<late, listed, found, setup>>
    <3>1. LocalTyped'
      BY <1>1, <2>2 DEF LocalTyped, AppTyped
    <3>2. RunTyped'
      BY <1>1, <1>4, <1>5, <1>8, <2>2 DEF ReadSettings, Now, RunTyped
    <3>3. QED
      BY <1>2, <1>3, <1>8, <3>1, <3>2 DEF ReadSettings
  <2>3. QED
    BY <1>8, <2>1, <2>2 DEF ReadSettings
<1>9. CASE List
  <2>1. LocalTyped'
    BY <1>1, <1>9 DEF List, LocalTyped, AppTyped
  <2>2. RunTyped'
    BY <1>1, <1>4, <1>5, <1>9 DEF List, Now, RunTyped
  <2>3. QED
    BY <1>2, <1>3, <1>9, <2>1, <2>2 DEF List
<1>10. CASE Lookup
  <2>1. LocalTyped'
    BY <1>1, <1>10, FoundType DEF Lookup, LocalTyped
  <2>2. RunTyped'
    BY <1>1, <1>4, <1>5, <1>10 DEF Lookup, Now, RunTyped
  <2>3. QED
    BY <1>2, <1>3, <1>10, <2>1, <2>2 DEF Lookup
<1>11. CASE Write
  <2>1. at \in 1..Length /\ Due(at) /\ Effect(at) /\ Proceed /\ UNCHANGED <<service, mode, spent>>
    BY <1>5, <1>11 DEF Write, Writing, Due, Step
  <2>2. AppTyped'
    BY <2>1, EffectTyped
  <2>3. LocalTyped' /\ RunTyped'
    BY <1>1, <2>1, ProceedTyped
  <2>4. QED
    BY <1>2, <2>1, <2>2, <2>3
<1>12. CASE Pass
  <2>1. at \in 1..Length /\ Proceed /\ UNCHANGED <<service, mode, spent>> /\ UNCHANGED app
    BY <1>5, <1>12 DEF Pass, Writing
  <2>2. LocalTyped' /\ RunTyped'
    BY <1>1, <2>1, ProceedTyped
  <2>3. QED
    BY <1>2, <1>3, <2>1, <2>2
<1>13. CASE Stop
  BY <1>1, <1>2, <1>3, <1>13, EndTyped DEF Stop
<1>14. CASE BreakOff
  <2>1. /\ UNCHANGED <<service, mode>> /\ UNCHANGED app /\ spent' \in Spending
    BY <1>1, <1>14 DEF BreakOff, Spending
  <2>2. LocalTyped' /\ RunTyped'
    <3>1. CASE End
      BY <1>1, <2>1, <3>1, EndTyped
    <3>2. CASE at' = 0 /\ late' = at /\ UNCHANGED <<local, touched>>
      BY <1>1, <1>4, <2>1, <3>2 DEF LocalTyped, RunTyped, local
    <3>3. QED
      BY <1>14, <3>1, <3>2 DEF BreakOff
  <2>3. QED
    BY <1>1, <1>3, <2>1, <2>2 DEF TypeOK, AppTyped, LocalTyped, RunTyped, Length
<1>15. CASE Arrive
  <2>1. late \in 1..Length /\ Due(late) /\ Effect(late) /\ Forget /\ UNCHANGED <<service, mode, at, spent>>
    BY <1>1, <1>15 DEF Arrive, Due, Step, IInv, ControlInv, RunTyped
  <2>2. AppTyped'
    BY <2>1, EffectTyped
  <2>3. LocalTyped' /\ late' = 0 /\ touched' = {}
    BY <2>1, ForgetTyped
  <2>4. RunTyped'
    BY <1>1, <1>4, <2>1, <2>3 DEF RunTyped
  <2>5. QED
    BY <1>2, <2>1, <2>2, <2>3, <2>4
<1>16. CASE Vanish
  <2>1. LocalTyped' /\ late' = 0 /\ touched' = {}
    BY <1>16, ForgetTyped DEF Vanish
  <2>2. RunTyped'
    BY <1>1, <1>4, <1>16, <2>1 DEF Vanish, RunTyped
  <2>3. QED
    BY <1>2, <1>3, <1>16, <2>1, <2>2 DEF Vanish
<1>17. CASE People
  <2>1. /\ spent' \in Spending /\ LocalTyped' /\ RunTyped' /\ UNCHANGED <<service, mode>>
    BY <1>1, <1>17, TouchTyped DEF People, EditSettings, EditProfile, Onboard, EditObject
  <2>2. AppTyped'
    <3>1. CASE EditSettings
      <4>1. setting \in Settings
        BY <1>1 DEF AppTyped
      <4>2. 1 - setting.extra \in 0..1
        BY <4>1 DEF Settings
      <4>3. /\ [setting EXCEPT !.ours = FALSE] \in Settings
            /\ [setting EXCEPT !.extra = 1 - @] \in Settings
        BY <4>1, <4>2 DEF Settings
      <4>4. setting' \in Settings
        BY <3>1, <4>3 DEF EditSettings
      <4>5. QED
        BY <1>1, <3>1, <4>4 DEF EditSettings, AppTyped
    <3>2. CASE EditProfile
      BY <1>1, <3>2 DEF EditProfile, AppTyped
    <3>3. CASE Onboard
      BY <1>1, <3>3 DEF Onboard, AppTyped
    <3>4. ASSUME NEW i \in Ids, EditObject(i) PROVE AppTyped'
      BY <1>1, <3>4, EditTyped DEF EditObject, AppTyped
    <3>5. QED
      BY <1>17, <3>1, <3>2, <3>3, <3>4 DEF People
  <2>3. QED
    BY <1>1, <2>1, <2>2 DEF TypeOK, AppTyped, LocalTyped, RunTyped, Length
<1>18. CASE UNCHANGED vars
  <2>1. UNCHANGED <<service, mode, spent, at, late, touched>> /\ UNCHANGED app /\ UNCHANGED local
    BY <1>18 DEF vars
  <2>2. LocalTyped' /\ RunTyped'
    BY <1>1, <1>4, <2>1 DEF LocalTyped, RunTyped, local
  <2>3. QED
    BY <1>2, <1>3, <2>1, <2>2
<1>19. QED
  BY <1>6, <1>7, <1>8, <1>9, <1>10, <1>11, <1>12, <1>13, <1>14, <1>15, <1>16, <1>17, <1>18
  DEF Next, Job, Network

\* Between runs nothing is claimed.
LEMMA RestKept ==
  ASSUME at' = 0, late' = 0
  PROVE  ControlInv' /\ ListInv' /\ ReadInv' /\ SetupInv'
<1>1. Step' = 0
  BY DEF Step
<1>2. ControlInv'
  BY <1>1 DEF ControlInv
<1>3. ListInv' /\ ReadInv' /\ SetupInv'
  BY <1>1 DEF ListInv, ReadInv, SetupInv
<1>4. QED
  BY <1>2, <1>3

\* A run in progress.
Running == IInv /\ at \in 1..Length
Advance == at' = at + 1 /\ at < Length /\ late' = late /\ UNCHANGED <<service, mode>>

LEMMA RunningFacts ==
  ASSUME Running
  PROVE  /\ late = 0 /\ Step = at /\ service \in Services /\ TypeOK
         /\ Length \in Nat /\ Length >= 3 /\ mode \in {"managed", "bootstrap"}
<1>1. late = 0
  BY DEF Running, IInv, ControlInv
<1>2. QED
  BY <1>1, StepType, Order DEF Running, IInv, Step

LEMMA AdvanceFacts ==
  ASSUME Running, Advance
  PROVE  /\ Step' = at + 1 /\ late' = 0 /\ Length' = Length
         /\ at + 1 \in 1..Length
<1>1. late' = 0 /\ at' = at + 1 /\ at < Length /\ Length' = Length
  BY RunningFacts DEF Advance, Length
<1>2. QED
  BY <1>1, RunningFacts DEF Step, Running

LEMMA AdvanceControl ==
  ASSUME Running, Advance,
         Task(at).step # "read" \/ ~(service = "bazarr" /\ mode = "bootstrap")
  PROVE  ControlInv'
<1>1. ~(service = "bazarr" /\ mode = "bootstrap")
  <2>1. SUFFICES ASSUME service = "bazarr", mode = "bootstrap" PROVE FALSE
    OBVIOUS
  <2>2. at = 1
    BY <2>1, RunningFacts DEF Running, IInv, ControlInv
  <2>3. QED
    BY <2>1, <2>2, BazarrProgram
<1>2. QED
  BY <1>1, AdvanceFacts DEF ControlInv, Advance

\* A name open after the step was open before it.
LEMMA OpenBefore ==
  ASSUME Running, Advance, Task(at).step # "list", NEW name, Open(name)'
  PROVE  Open(name) /\ (Task(at).step = "write" => Task(at).name # name)
<1>1. PICK w \in (at + 1)..Length :
         /\ Task(w).step = "write" /\ Task(w).name = name
         /\ \A l \in (at + 1)..w : Task(l).step # "list"
  BY AdvanceFacts DEF Open, Length, Advance
<1>2. w \in at..Length /\ at # w
  BY <1>1, RunningFacts DEF Running
<1>3. \A l \in at..w : Task(l).step # "list"
  BY <1>1, RunningFacts DEF Running
<1>4. Open(name)
  BY <1>1, <1>2, <1>3, RunningFacts DEF Open, Length
<1>5. Task(at).step = "write" => Task(at).name # name
  BY <1>1, <1>2, <1>3, RunningFacts, WritesAfterList DEF Running
<1>6. QED
  BY <1>4, <1>5

\* Steps that change nothing and list nothing.
LEMMA IdleList ==
  ASSUME Running, Advance, Task(at).step # "list", UNCHANGED <<object, listed>>,
         touched' \cap Ids = touched \cap Ids
  PROVE  ListInv'
<1>1. Task(at + 1).step # "replace"
  BY AdvanceFacts, RunningFacts, Order DEF Running, Advance
<1>2. ASSUME NEW name \in Declared, Open(name)', NEW i \in Ids \ touched',
             name \in {listed'[i].name, object'[i].name}
      PROVE  listed'[i] = object'[i]
  <2>1. Open(name) /\ i \in Ids \ touched /\ name \in {listed[i].name, object[i].name}
    BY <1>2, OpenBefore
  <2>2. QED
    BY <2>1, RunningFacts DEF Running, IInv, ListInv
<1>3. service' = service
  BY DEF Advance
<1>4. QED
  BY <1>1, <1>2, <1>3, AdvanceFacts DEF ListInv

\* Only a reading is followed by what relies on it.
LEMMA IdleRead ==
  ASSUME Running, Advance, Task(at).step # "read", UNCHANGED read,
         service = "bazarr" => UNCHANGED setting,
         touched' \cap {0} = touched \cap {0}
  PROVE  ReadInv'
<1>1. Task(at + 1).step # "set"
  BY AdvanceFacts, RunningFacts, Order DEF Running, Advance
<1>2. service' = service
  BY DEF Advance
<1>3. ASSUME service = "bazarr", 0 \notin touched' PROVE read' = setting'
  <2>1. at # 1
    BY <1>3, BazarrProgram
  <2>2. read = setting
    BY <1>3, <2>1, RunningFacts DEF Running, IInv, ReadInv
  <2>3. QED
    BY <1>3, <2>2
<1>4. QED
  BY <1>1, <1>2, <1>3, AdvanceFacts DEF ReadInv

Named(name) == \E i \in Ids : object[i].name = name

\* What the step at hand adds to what the onboarding has seen to.
LEMMA SetupAdvance ==
  ASSUME Running, Advance, at # 1, UNCHANGED setup,
         service = "seerr" /\ ~setup =>
           /\ -1 \in touched' \/ (initialized' = initialized /\ -1 \notin touched)
           /\ at = 3 => shelf' = "on"
           /\ at > 3 => shelf' = shelf
           /\ at > 4 => touched' \cap Ids = touched \cap Ids
           /\ at = 6 /\ touched \cap Ids = {} => Named(First)'
           /\ at > 6 /\ touched \cap Ids = {} /\ Named(First) => Named(First)'
           /\ at = 8 /\ touched \cap Ids = {} => Named(Second)'
           /\ at > 8 /\ touched \cap Ids = {} /\ Named(Second) => Named(Second)'
           /\ at = 10 => 0 \in touched' \/ setting'.ours
  PROVE  SetupInv'
<1>1. Step' = at + 1 /\ Step = at /\ at > 1 /\ at \in Nat /\ service' = service
  BY AdvanceFacts, RunningFacts DEF Running, Advance
<1>2. SUFFICES ASSUME service = "seerr", ~setup
               PROVE  /\ -1 \in touched' \/ ~initialized'
                      /\ at > 2 => shelf' = "on"
                      /\ at > 5 => touched' \cap Ids # {} \/ Named(First)'
                      /\ at > 7 => touched' \cap Ids # {} \/ Named(Second)'
                      /\ at > 9 => 0 \in touched' \/ setting'.ours
  BY <1>1 DEF SetupInv, Named
<1>3. /\ -1 \in touched \/ ~initialized
      /\ at > 3 => shelf = "on"
      /\ at > 6 => touched \cap Ids # {} \/ Named(First)
      /\ at > 8 => touched \cap Ids # {} \/ Named(Second)
  BY <1>1, <1>2 DEF Running, IInv, SetupInv, Named
<1>4. at < 11
  BY <1>2, SeerrProgram DEF Advance
<1>5. -1 \in touched' \/ ~initialized'
  BY <1>2, <1>3
<1>6. at > 2 => shelf' = "on"
  BY <1>1, <1>2, <1>3
<1>7. at > 5 => touched' \cap Ids # {} \/ Named(First)'
  BY <1>1, <1>2, <1>3
<1>8. at > 7 => touched' \cap Ids # {} \/ Named(Second)'
  BY <1>1, <1>2, <1>3
<1>9. at > 9 => 0 \in touched' \/ setting'.ours
  BY <1>1, <1>2, <1>4
<1>10. QED
  BY <1>5, <1>6, <1>7, <1>8, <1>9

Rest == ControlInv /\ ListInv /\ ReadInv /\ SetupInv

LEMMA StartKept ==
  ASSUME IInv, Start
  PROVE  Rest'
<1>1. /\ at' = 1 /\ late' = 0 /\ Step' = 1 /\ service' = service
      /\ service \in Services /\ Length' = Length
  BY StepType DEF Start, Step, Length, IInv
<1>2. ControlInv'
  BY <1>1 DEF ControlInv
<1>3. ASSUME NEW name, Open(name)' PROVE FALSE
  <2>1. PICK w \in 1..Length : Task(w).step = "write" /\ \A l \in 1..w : Task(l).step # "list"
    BY <1>1, <1>3 DEF Open, Length
  <2>2. QED
    BY <1>1, <2>1, WritesAfterList, Order
<1>4. Task(1).step \in {"read", "public", "list"}
  BY <1>1, Order
<1>5. ListInv'
  BY <1>1, <1>3, <1>4 DEF ListInv
<1>6. ReadInv' /\ SetupInv'
  BY <1>1, <1>4 DEF ReadInv, SetupInv
<1>7. QED
  BY <1>2, <1>5, <1>6 DEF Rest

LEMMA PublicKept ==
  ASSUME IInv, ReadPublic
  PROVE  Rest'
<1>1. Running /\ Task(at).step = "public" /\ at < Length
  BY StepType, ServarrProgram, BazarrProgram, SeerrProgram, ShelfProgram, TorrentProgram
  DEF ReadPublic, Now, IInv, Running, Services
<1>2. Advance /\ setup' = initialized /\ UNCHANGED <<object, setting, initialized, listed, read, touched>>
  BY <1>1, AfterType, RunningFacts DEF ReadPublic, Advance, Running, app
<1>3. ControlInv' /\ ListInv' /\ ReadInv'
  BY <1>1, <1>2, AdvanceControl, IdleList, IdleRead
<1>4. service = "seerr" => at = 1
  <2>1. SUFFICES ASSUME service = "seerr" PROVE at = 1
    OBVIOUS
  <2>2. at \in {1, 2, 3, 4, 5, 6, 7, 8, 9, 10, 11}
    BY <1>1, <2>1, SeerrProgram DEF Running
  <2>3. QED
    BY <1>1, <2>1, <2>2, SeerrProgram
<1>5. SetupInv'
  BY <1>1, <1>2, <1>4, AdvanceFacts DEF SetupInv, Advance
<1>6. QED
  BY <1>3, <1>5 DEF Rest

LEMMA ReadKept ==
  ASSUME IInv, ReadSettings
  PROVE  Rest'
<1>1. Running
         /\ Task(at).step = "read" /\ at < Length /\ UNCHANGED <<service, mode>> /\ UNCHANGED app
  BY StepType, Order DEF ReadSettings, Now, IInv, Running
<1>2. CASE End
  BY <1>2, RestKept DEF End, Forget, Rest
<1>3. CASE /\ ~(service = "bazarr" /\ mode = "bootstrap")
           /\ read' = setting /\ at' = After(at) /\ touched' = touched \ {0}
           /\ UNCHANGED <<late, listed, found, setup>>
  <2>1. Advance
    BY <1>1, <1>3, AfterType, RunningFacts DEF Advance, Running
  <2>2. /\ UNCHANGED <<object, setting, initialized, shelf, listed, setup>>
        /\ touched' = touched \ {0} /\ read' = setting'
    BY <1>1, <1>3 DEF app
  <2>3. touched' \cap Ids = touched \cap Ids
    BY <2>2
  <2>4. ControlInv' /\ ListInv'
    BY <1>1, <1>3, <2>1, <2>2, <2>3, AdvanceControl, IdleList
  <2>5. ReadInv'
    BY <2>2 DEF ReadInv
  <2>6. at # 1 => SetupInv'
    <3>1. service = "seerr" => at \notin {3, 6, 8, 10}
      BY <1>1, SeerrProgram
    <3>2. -1 \in touched' \/ (initialized' = initialized /\ -1 \notin touched)
      BY <2>2
    <3>3. /\ Named(First) => Named(First)'
          /\ Named(Second) => Named(Second)'
      BY <2>2 DEF Named
    <3>4. QED
      BY <1>1, <2>1, <2>2, <2>3, <3>1, <3>2, <3>3, SetupAdvance
  <2>7. at = 1 => SetupInv'
    <3>1. at = 1 => service # "seerr"
      BY <1>1, SeerrProgram
    <3>2. QED
      BY <1>1, <3>1 DEF SetupInv
  <2>8. QED
    BY <2>4, <2>5, <2>6, <2>7 DEF Rest
<1>4. QED
  BY <1>2, <1>3 DEF ReadSettings

LEMMA ListKept ==
  ASSUME IInv, List
  PROVE  Rest'
<1>1. /\ Running /\ Task(at).step = "list" /\ UNCHANGED <<service, mode>> /\ UNCHANGED app
      /\ at < Length
  BY StepType, ServarrProgram, BazarrProgram, SeerrProgram, ShelfProgram, TorrentProgram
  DEF List, Now, IInv, Running, Services
<1>2. /\ Advance /\ listed' = object' /\ touched' = touched \ Ids
      /\ UNCHANGED <<setting, initialized, shelf, read, setup>>
  BY <1>1, AfterType, RunningFacts DEF List, Advance, Running, app
<1>3. ListInv'
  BY <1>2 DEF ListInv
<1>4. touched' \cap {0} = touched \cap {0}
  BY <1>2
<1>5. ControlInv' /\ ReadInv'
  BY <1>1, <1>2, <1>4, AdvanceControl, IdleRead
<1>6. service = "seerr" => at = 4
  <2>1. SUFFICES ASSUME service = "seerr" PROVE at = 4
    OBVIOUS
  <2>2. at \in {1, 2, 3, 4, 5, 6, 7, 8, 9, 10, 11}
    BY <1>1, <2>1, SeerrProgram DEF Running
  <2>3. QED
    BY <1>1, <2>1, <2>2, SeerrProgram
<1>7. SetupInv'
  <2>1. -1 \in touched' \/ (initialized' = initialized /\ -1 \notin touched)
    BY <1>2
  <2>2. CASE service = "seerr"
    BY <1>1, <1>2, <1>6, <2>1, <2>2, SetupAdvance
  <2>3. CASE service # "seerr"
    BY <1>1, <2>3 DEF SetupInv
  <2>4. QED
    BY <2>2, <2>3
<1>8. QED
  BY <1>3, <1>5, <1>7 DEF Rest

LEMMA LookupKept ==
  ASSUME IInv, Lookup
  PROVE  Rest'
<1>1. /\ Running /\ Task(at).step = "lookup" /\ UNCHANGED <<service, mode>> /\ UNCHANGED app
      /\ at < Length
  BY StepType, ServarrProgram, BazarrProgram, SeerrProgram, ShelfProgram, TorrentProgram
  DEF Lookup, Now, IInv, Running, Services
<1>2. /\ Advance
      /\ UNCHANGED <<object, setting, initialized, shelf, listed, read, setup, touched>>
  BY <1>1, AfterType, RunningFacts DEF Lookup, Advance, Running, app
<1>3. ControlInv' /\ ListInv' /\ ReadInv'
  BY <1>1, <1>2, AdvanceControl, IdleList, IdleRead
<1>4. service = "seerr" => at \notin {1, 3, 6, 8, 10}
  BY <1>1, SeerrProgram
<1>5. SetupInv'
  <2>1. (-1 \in touched' \/ (initialized' = initialized /\ -1 \notin touched)) \/ -1 \in touched
    BY <1>2
  <2>2. /\ Named(First) => Named(First)'
        /\ Named(Second) => Named(Second)'
    BY <1>2 DEF Named
  <2>3. CASE service = "seerr"
    BY <1>1, <1>2, <1>4, <2>1, <2>2, <2>3, SetupAdvance
  <2>4. CASE service # "seerr"
    BY <1>1, <2>4 DEF SetupInv
  <2>5. QED
    BY <2>3, <2>4
<1>6. QED
  BY <1>3, <1>5 DEF Rest

\* In Seerr's onboarding, a step with nothing to write leaves nothing to do.
LEMMA NothingLeft ==
  ASSUME Running, service = "seerr", ~setup, ~Stops(at), ~Wants(at)
  PROVE  /\ at = 3 => shelf = "on"
         /\ at = 6 /\ touched \cap Ids = {} => Named(First)
         /\ at = 8 /\ touched \cap Ids = {} => Named(Second)
         /\ at = 10 => 0 \in touched \/ setting.ours
<1>1. MayConfigure /\ TypeOK /\ Step = at
  BY RunningFacts DEF MayConfigure
<1>2. at = 3 => shelf = "on"
  <2>1. SUFFICES ASSUME at = 3 PROVE shelf = "on"
    OBVIOUS
  <2>2. Task(at).step = "enable"
    BY <2>1, SeerrProgram
  <2>3. shelf # "missing" /\ shelf # "off"
    BY <1>1, <2>2 DEF Stops, Wants
  <2>4. QED
    BY <1>1, <2>3 DEF TypeOK
<1>3. ASSUME NEW n \in Declared, Task(at).step = "write", Task(at).name = n, touched \cap Ids = {}
      PROVE  Named(n)
  <2>1. Bearers(n) # {}
    BY <1>3 DEF Wants
  <2>2. PICK i \in Ids : listed[i].name = n
    BY <2>1 DEF Bearers
  <2>3. Open(n)
    BY <1>1, <1>3, RunningFacts DEF Open, Length, Running
  <2>4. listed[i] = object[i]
    BY <1>1, <1>3, <2>2, <2>3, RunningFacts DEF Running, IInv, ListInv
  <2>5. QED
    BY <2>2, <2>4 DEF Named
<1>4. at = 6 /\ touched \cap Ids = {} => Named(First)
  BY <1>3, SeerrProgram DEF Declared
<1>5. at = 8 /\ touched \cap Ids = {} => Named(Second)
  BY <1>3, SeerrProgram DEF Declared
<1>6. at = 10 => 0 \in touched \/ setting.ours
  <2>1. SUFFICES ASSUME at = 10, 0 \notin touched PROVE setting.ours
    OBVIOUS
  <2>2. Task(at).step = "set"
    BY <2>1, SeerrProgram
  <2>3. read.ours /\ read = setting
    BY <1>1, <2>1, <2>2, RunningFacts DEF Wants, Running, IInv, ReadInv
  <2>4. QED
    BY <2>3
<1>7. QED
  BY <1>2, <1>4, <1>5, <1>6

LEMMA PassKept ==
  ASSUME IInv, Pass
  PROVE  Rest'
<1>1. /\ Running /\ Proceed /\ UNCHANGED <<service, mode>> /\ UNCHANGED app
      /\ Task(at).step \notin {"public", "read", "list", "lookup"} /\ ~Stops(at) /\ ~Wants(at)
  BY StepType DEF Pass, Writing, IInv, Running
<1>2. LocalTyped /\ RunTyped /\ service \in Services
  BY <1>1, RunningFacts, TypeParts
<1>3. CASE End
  BY <1>3, RestKept DEF End, Forget, Rest
<1>4. CASE at' = at + 1 /\ at < Length /\ UNCHANGED <<late, local, touched>>
  <2>1. /\ Advance
        /\ UNCHANGED <<object, setting, initialized, shelf, listed, read, setup, touched>>
    BY <1>1, <1>4 DEF Advance, app, local
  <2>2. ControlInv' /\ ListInv' /\ ReadInv'
    BY <1>1, <2>1, AdvanceControl, IdleList, IdleRead
  <2>3. SetupInv'
    <3>1. (-1 \in touched' \/ (initialized' = initialized /\ -1 \notin touched)) \/ -1 \in touched
      BY <2>1
    <3>2. /\ Named(First)' = Named(First)
          /\ Named(Second)' = Named(Second)
      BY <2>1 DEF Named
    <3>3. CASE service = "seerr"
      <4>1. at # 1
        BY <1>1, <3>3, SeerrProgram
      <4>2. QED
        BY <1>1, <2>1, <3>1, <3>2, <3>3, <4>1, NothingLeft, SetupAdvance
    <3>4. CASE service # "seerr"
      BY <1>1, <3>4 DEF SetupInv
    <3>5. QED
      BY <3>3, <3>4
  <2>4. QED
    BY <2>2, <2>3 DEF Rest
<1>5. QED
  BY <1>1, <1>2, <1>3, <1>4, ProceedTyped DEF Running

\* A write leaves the other name's objects, and the run's listing of them, as
\* they were.
LEMMA OtherNames ==
  ASSUME TypeOK, NEW n \in Declared, WriteObject(n), ~Refused(n), Fresh(n),
         Bearers(n) = {} \/ mode = "managed",
         NEW m \in Declared, m # n, NEW i \in Ids \ touched
  PROVE  /\ object[i].name = m => object'[i].name = m
         /\ (m \in {listed[i].name, object[i].name} => listed[i] = object[i])
            /\ m \in {listed[i].name, object'[i].name} => listed[i] = object'[i]
<1>1. object'[i] # object[i] =>
        object'[i].name = n /\ (Exists(object[i]) => object[i].name = n)
  BY WriteSafe
<1>2. ASSUME object[i].name = m PROVE Exists(object[i])
  BY <1>2 DEF Exists, Declared, First, Second
<1>3. QED
  BY <1>1, <1>2

LEMMA WriteKept ==
  ASSUME IInv, Write
  PROVE  Rest'
<1>1. /\ Running /\ Proceed /\ Effect(at) /\ UNCHANGED <<service, mode>>
      /\ Task(at).step \notin {"public", "read", "list", "lookup"} /\ ~Stops(at) /\ Wants(at)
  BY StepType DEF Write, Writing, IInv, Running
<1>2. LocalTyped /\ RunTyped /\ service \in Services /\ Due(at) /\ TypeOK
  BY <1>1, RunningFacts, TypeParts DEF Due, Running
<1>3. CASE End
  BY <1>3, RestKept DEF End, Forget, Rest
<1>4. CASE at' = at + 1 /\ at < Length /\ UNCHANGED <<late, local, touched>>
  <2>1. Advance /\ UNCHANGED <<listed, read, setup, touched>>
    BY <1>1, <1>4 DEF Advance, local
  <2>2. ControlInv'
    BY <1>1, <2>1, AdvanceControl
  <2>3. service # "bazarr" /\ Task(at).step # "replace"
    BY <1>1, <1>2, <1>4, BazarrProgram, Order DEF Running
  <2>4. ReadInv'
    BY <1>1, <2>1, <2>3, IdleRead
  <2>5. CASE Task(at).step # "write"
    <3>1. object' = object
      BY <1>1, <2>3, <2>5 DEF Effect, WriteSettings, Sync, Enable, Initialize
    <3>2. ListInv'
      BY <1>1, <2>1, <3>1, IdleList
    <3>3. SetupInv'
      <4>1. CASE service = "seerr" /\ ~setup
        <5>1. at \notin {1, 6, 8, 11}
          BY <1>1, <1>4, <2>5, <4>1, SeerrProgram
        <5>2. /\ at = 3 => Task(at).step = "enable"
              /\ at = 10 => Task(at).step = "set"
              /\ Task(at).step = "sync" => at = 2
              /\ Task(at).step = "enable" => at = 3
              /\ Task(at).step # "initialize"
          <6>1. at \in {1, 2, 3, 4, 5, 6, 7, 8, 9, 10, 11}
            BY <1>1, <4>1, SeerrProgram DEF Running
          <6>2. QED
            BY <4>1, <5>1, <6>1, SeerrProgram
        <5>3. /\ initialized' = initialized
              /\ at = 3 => shelf' = "on"
              /\ at > 3 => shelf' = shelf
          BY <1>1, <2>3, <2>5, <5>2 DEF Effect, WriteSettings, Sync, Enable
        <5>4. at = 10 => setting'.ours
          BY <1>1, <1>2, <5>2, SettingsWritten DEF Effect
        <5>5. /\ Named(First)' = Named(First)
              /\ Named(Second)' = Named(Second)
          BY <3>1 DEF Named
        <5>6. (-1 \in touched' \/ (initialized' = initialized /\ -1 \notin touched))
          BY <2>1, <5>3
        <5>7. QED
          BY <1>1, <2>1, <5>1, <5>3, <5>4, <5>5, <5>6, SetupAdvance
      <4>2. CASE ~(service = "seerr" /\ ~setup)
        BY <1>1, <2>1, <4>2 DEF SetupInv
      <4>3. QED
        BY <4>1, <4>2
    <3>4. QED
      BY <2>2, <2>4, <3>2, <3>3 DEF Rest
  <2>6. CASE Task(at).step = "write"
    <3> DEFINE n == Task(at).name
    <3>1. n \in Declared /\ Fresh(n) /\ ~Refused(n) /\ (Bearers(n) = {} \/ mode = "managed")
      BY <1>1, <1>2, <2>6, DueFacts DEF Running
    <3>2. WriteObject(n) /\ UNCHANGED <<setting, initialized, shelf, profile>>
      BY <1>1, <2>6 DEF Effect, WriteObject
    <3>3. ListInv'
      <4>1. Task(at + 1).step # "replace"
        BY <1>1, <1>2, <1>4, <2>6, Order DEF Running
      <4>2. ASSUME NEW name \in Declared, Open(name)', NEW i \in Ids \ touched',
                   name \in {listed'[i].name, object'[i].name}
            PROVE  listed'[i] = object'[i]
        <5>1. Open(name) /\ name # n
          BY <1>1, <2>1, <2>6, <4>2, OpenBefore
        <5>2. i \in Ids \ touched /\ listed'[i] = listed[i]
          BY <2>1, <4>2
        <5>3. name \in {listed[i].name, object[i].name} => listed[i] = object[i]
          BY <1>1, <5>1, <5>2, RunningFacts DEF Running, IInv, ListInv
        <5> HIDE DEF n
        <5>4. name \in {listed[i].name, object'[i].name} => listed[i] = object'[i]
          BY <1>2, <3>1, <3>2, <5>1, <5>2, <5>3, OtherNames
        <5>5. QED
          BY <4>2, <5>2, <5>4
      <4>3. QED
        BY <1>1, <2>1, <4>1, <4>2, AdvanceFacts DEF ListInv
    <3>4. SetupInv'
      <4>1. CASE service = "seerr"
        <5>1. /\ at \in {6, 8}
              /\ at = 6 => n = First
              /\ at = 8 => n = Second
          <6>1. at \in {1, 2, 3, 4, 5, 6, 7, 8, 9, 10, 11}
            BY <1>1, <4>1, SeerrProgram DEF Running
          <6>2. QED
            BY <2>6, <4>1, <6>1, SeerrProgram
        <5> HIDE DEF n
        <5>2. touched \cap Ids = {} => \E i \in Ids : object'[i].name = n
          <6>1. /\ Bearers(n) = {} => \E i \in Ids : object'[i].name = n
                /\ Bearers(n) # {} /\ touched \cap Ids = {} => \E i \in Ids : object'[i].name = n
            BY <1>2, <3>1, <3>2, WriteSafe
          <6>2. QED
            BY <6>1
        <5>3. ASSUME touched \cap Ids = {}, NEW m \in Declared, m # n, Named(m)
              PROVE  \E i \in Ids : object'[i].name = m
          <6>1. PICK i \in Ids \ touched : object[i].name = m
            BY <5>3 DEF Named
          <6>2. object'[i].name = m
            BY <1>2, <3>1, <3>2, <5>3, <6>1, OtherNames
          <6>3. QED
            BY <6>2
        <5>4. /\ at = 6 /\ touched \cap Ids = {} => Named(First)'
              /\ at = 8 /\ touched \cap Ids = {} => Named(Second)'
          BY <5>1, <5>2 DEF Named
        <5>5. at > 6 /\ touched \cap Ids = {} /\ Named(First) => Named(First)'
          <6>1. First # n \/ at = 6
            BY <5>1 DEF First, Second
          <6>2. QED
            BY <5>3, <6>1 DEF Named, Declared
        <5>6. (-1 \in touched' \/ (initialized' = initialized /\ -1 \notin touched)) \/ -1 \in touched
          BY <3>2
        <5>7. QED
          BY <1>1, <2>1, <3>2, <5>1, <5>4, <5>5, <5>6, SetupAdvance
      <4>2. CASE service # "seerr"
        BY <1>1, <4>2 DEF SetupInv
      <4>3. QED
        BY <4>1, <4>2
    <3>5. QED
      BY <2>2, <2>4, <3>3, <3>4 DEF Rest
  <2>7. QED
    BY <2>5, <2>6
<1>5. QED
  BY <1>1, <1>2, <1>3, <1>4, ProceedTyped DEF Running

\* The step stays: a run breaks off during a write, or somebody edits.
LEMMA SameStep ==
  ASSUME IInv, Step # 0, Step' = Step, UNCHANGED <<service, listed, read, setup, shelf>>,
         touched \subseteq touched',
         \A i \in Ids \ touched' : object'[i] = object[i],
         0 \in touched' \/ setting' = setting,
         -1 \in touched' \/ initialized' = initialized
  PROVE  ListInv' /\ ReadInv' /\ SetupInv'
<1>1. ListInv'
  <2>1. ASSUME NEW name \in Declared, Open(name)', NEW i \in Ids \ touched',
               name \in {listed'[i].name, object'[i].name}
        PROVE  listed'[i] = object'[i]
    <3>1. Open(name)
      BY <2>1 DEF Open
    <3>2. i \in Ids \ touched /\ name \in {listed[i].name, object[i].name}
      BY <2>1
    <3>3. QED
      BY <2>1, <3>1, <3>2 DEF IInv, ListInv
  <2>2. ASSUME Task(Step).step = "replace", NEW i \in Ids \ touched'
        PROVE  listed'[i] = object'[i]
    BY <2>2 DEF IInv, ListInv
  <2>3. QED
    BY <2>1, <2>2 DEF ListInv
<1>2. ReadInv'
  BY DEF IInv, ReadInv
<1>3. SetupInv'
  <2>1. /\ touched' \cap Ids = {} /\ Named(First) => Named(First)'
        /\ touched' \cap Ids = {} /\ Named(Second) => Named(Second)'
    BY DEF Named
  <2>2. SUFFICES ASSUME service = "seerr", Step > 1, ~setup
                 PROVE  /\ -1 \in touched' \/ ~initialized'
                        /\ Step > 3 => shelf = "on"
                        /\ Step > 6 => touched' \cap Ids # {} \/ Named(First)'
                        /\ Step > 8 => touched' \cap Ids # {} \/ Named(Second)'
                        /\ Step > 10 => 0 \in touched' \/ setting'.ours
    BY DEF SetupInv, Named
  <2>3. /\ -1 \in touched \/ ~initialized
        /\ Step > 3 => shelf = "on"
        /\ Step > 6 => touched \cap Ids # {} \/ Named(First)
        /\ Step > 8 => touched \cap Ids # {} \/ Named(Second)
        /\ Step > 10 => 0 \in touched \/ setting.ours
    BY <2>2 DEF IInv, SetupInv, Named
  <2>4. touched' \cap Ids = {} => touched \cap Ids = {}
    OBVIOUS
  <2>5. QED
    BY <2>1, <2>3, <2>4
<1>4. QED
  BY <1>1, <1>2, <1>3

LEMMA BreakKept ==
  ASSUME IInv, BreakOff
  PROVE  Rest'
<1>1. /\ at \in 1..Length /\ late = 0 /\ Step = at /\ UNCHANGED <<service, mode>> /\ UNCHANGED app
      /\ service \in Services
  <2>1. at # 0 /\ UNCHANGED <<service, mode>> /\ UNCHANGED app
    BY DEF BreakOff
  <2>2. QED
    BY <2>1, StepType DEF IInv, ControlInv, Step
<1>2. CASE End
  BY <1>2, RestKept DEF End, Forget, Rest
<1>3. CASE /\ Writing /\ ~Stops(at) /\ Wants(at)
           /\ at' = 0 /\ late' = at /\ UNCHANGED <<local, touched>>
  <2>1. PICK k \in 1..Length : k = at
    BY <1>1
  <2>2. Task(k).step \notin {"public", "read", "list", "lookup"} /\ ~Stops(k) /\ Wants(k)
    BY <1>3, <2>1 DEF Writing
  <2>3. /\ UNCHANGED <<service, mode, shelf, object, setting, initialized>>
        /\ UNCHANGED <<listed, read, setup, touched>>
    BY <1>1, <1>3 DEF app, local
  <2>4. ~Stops(k)' /\ Wants(k)'
    BY <1>3, <2>2, <2>3, DueUnmoved
  <2>5. Step' = Step /\ Step # 0
    BY <1>1, <1>3 DEF Step
  <2>6. ControlInv'
    <3>1. late' = k /\ at' = 0
      BY <1>3, <2>1
    <3>2. service = "bazarr" /\ mode = "bootstrap" => Step' <= 1
      BY <2>5 DEF IInv, ControlInv
    <3>3. QED
      BY <2>2, <2>3, <2>4, <3>1, <3>2 DEF ControlInv
  <2>7. ListInv' /\ ReadInv' /\ SetupInv'
    BY <2>3, <2>5, SameStep
  <2>8. QED
    BY <2>6, <2>7 DEF Rest
<1>4. QED
  BY <1>2, <1>3 DEF BreakOff

LEMMA EditKept ==
  ASSUME IInv, People
  PROVE  Rest'
<1>1. TypeOK
  BY DEF IInv
<1>2. PICK what \in SUBSET (Ids \cup {0, -1}) :
        /\ Touch(what)
        /\ \A i \in Ids \ what : object'[i] = object[i]
        /\ 0 \in what \/ setting' = setting
        /\ -1 \in what \/ initialized' = initialized
        /\ shelf' = shelf
  <2>1. CASE EditSettings
    <3>1. Touch({0}) /\ {0} \in SUBSET (Ids \cup {0, -1})
      BY <2>1 DEF EditSettings
    <3>2. QED
      BY <2>1, <3>1 DEF EditSettings
  <2>2. CASE EditProfile
    <3>1. Touch({}) /\ {} \in SUBSET (Ids \cup {0, -1})
      BY <2>2 DEF EditProfile
    <3>2. QED
      BY <2>2, <3>1 DEF EditProfile
  <2>3. CASE Onboard
    <3>1. Touch({-1}) /\ {-1} \in SUBSET (Ids \cup {0, -1})
      BY <2>3 DEF Onboard
    <3>2. QED
      BY <2>3, <3>1 DEF Onboard
  <2>4. ASSUME NEW i \in Ids, EditObject(i)
        PROVE  /\ Touch({i}) /\ {i} \in SUBSET (Ids \cup {0, -1})
               /\ \A j \in Ids \ {i} : object'[j] = object[j]
               /\ UNCHANGED <<setting, initialized, shelf>>
    BY <1>1, <2>4, EditTyped DEF EditObject
  <2>5. QED
    BY <2>1, <2>2, <2>3, <2>4 DEF People
<1>3. /\ service' = service /\ mode' = mode /\ at' = at /\ late' = late /\ UNCHANGED local
      /\ Step # 0 => touched' = touched \cup what
  BY <1>1, <1>2, TouchTyped
<1>4. CASE Step = 0
  <2>1. at' = 0 /\ late' = 0
    BY <1>3, <1>4 DEF Step
  <2>2. QED
    BY <2>1, RestKept DEF Rest
<1>5. CASE Step # 0
  <2>1. Step' = Step
    BY <1>3 DEF Step
  <2>2. /\ UNCHANGED <<service, listed, read, setup, shelf>>
        /\ touched \subseteq touched'
        /\ \A i \in Ids \ touched' : object'[i] = object[i]
        /\ 0 \in touched' \/ setting' = setting
        /\ -1 \in touched' \/ initialized' = initialized
    BY <1>2, <1>3, <1>5 DEF local
  <2>3. ListInv' /\ ReadInv' /\ SetupInv'
    BY <1>5, <2>1, <2>2, SameStep
  <2>4. ControlInv'
    <3>1. service = "bazarr" /\ mode = "bootstrap" => Step' <= 1
      BY <2>1 DEF IInv, ControlInv
    <3>2. PICK k : k = late
      OBVIOUS
    <3>3. late # 0 => at = 0 /\ Task(k).step \notin {"public", "read", "list", "lookup"}
                      /\ ~Stops(k) /\ Wants(k)
      BY <3>2 DEF IInv, ControlInv
    <3>4. late # 0 => ~Stops(k)' /\ Wants(k)'
      BY <1>2, <1>3, <3>3, DueUnmoved
    <3>5. late' = k /\ at' = at
      BY <1>3, <3>2
    <3>6. QED
      BY <1>3, <3>1, <3>2, <3>3, <3>4, <3>5 DEF ControlInv
  <2>5. QED
    BY <2>3, <2>4 DEF Rest
<1>6. QED
  BY <1>4, <1>5

LEMMA InitInv == Init => IInv
<1> SUFFICES ASSUME Init PROVE IInv
  OBVIOUS
<1>1. /\ service \in Services /\ mode \in {"managed", "bootstrap"}
      /\ setting = NoSettings /\ initialized \in BOOLEAN
      /\ shelf = "missing" /\ profile = 1 /\ at = 0 /\ late = 0
      /\ listed = NoList /\ read = NoSettings /\ found = 0 /\ setup = FALSE
      /\ touched = {} /\ spent = [edits |-> 0, faults |-> 0] /\ object \in Found
  BY DEF Init
<1>2. Made \subseteq Objects
  <2>1. ASSUME NEW name \in Declared \cup {"undeclared"}
        PROVE  [Unborn EXCEPT !.name = name, !.ours = (service = "qbittorrent" /\ name = Second)] \in Objects
    <3>1. name \in Names
      BY DEF Names, Declared
    <3>2. (service = "qbittorrent" /\ name = Second) \in BOOLEAN
      OBVIOUS
    <3>3. QED
      BY <3>1, <3>2, Blanks DEF Objects
  <2>2. QED
    BY <2>1 DEF Made
<1>3. {[o EXCEPT !.kin = FALSE] : o \in Made} \subseteq Objects
  BY <1>2 DEF Objects
<1>4. object \in [Ids -> Objects]
  <2> DEFINE Either == {Unborn} \cup Made \cup {[o EXCEPT !.kin = FALSE] : o \in Made}
  <2>1. PICK o \in Either, p \in Either : object = [NoList EXCEPT ![1] = o, ![2] = p]
    BY <1>1 DEF Found
  <2>2. o \in Objects /\ p \in Objects
    BY <1>2, <1>3, Blanks
  <2>3. QED
    BY <2>1, <2>2, Blanks
<1>5. spent \in Spending
  BY <1>1 DEF Spending
<1>6. AppTyped
  BY <1>1, <1>4, Blanks DEF AppTyped
<1>7. LocalTyped
  <2>1. setup \in BOOLEAN
    BY <1>1
  <2>2. QED
    BY <1>1, <2>1, Blanks DEF LocalTyped, Links
<1>8. RunTyped
  <2>1. 0 \in 0..Length
    BY <1>1, Order
  <2>2. QED
    BY <1>1, <2>1 DEF RunTyped
<1>9. TypeOK
  <2>1. alone \in BOOLEAN
    BY DEF Init
  <2> QED BY <1>1, <1>5, <1>6, <1>7, <1>8, <2>1, TypeParts
<1>10. Step = 0
  BY <1>1 DEF Step
<1>11. ControlInv /\ ListInv /\ ReadInv /\ SetupInv
  BY <1>1, <1>10 DEF ControlInv, ListInv, ReadInv, SetupInv
<1>12. QED
  BY <1>9, <1>11 DEF IInv

LEMMA NextInv == IInv /\ [Next]_vars => IInv'
<1> SUFFICES ASSUME IInv, [Next]_vars PROVE IInv'
  OBVIOUS
<1>1. TypeOK'
  BY TypeKept
<1>2. Rest'
  <2>1. CASE Start \/ ReadPublic \/ ReadSettings \/ List \/ Lookup \/ Write \/ Pass
    BY <2>1, StartKept, PublicKept, ReadKept, ListKept, LookupKept, WriteKept, PassKept
  <2>2. CASE Stop
    BY <2>2, RestKept DEF Stop, End, Forget, Rest
  <2>3. CASE BreakOff
    BY <2>3, BreakKept
  <2>4. CASE Arrive \/ Vanish
    <3>1. at' = 0 /\ late' = 0
      BY <2>4 DEF Arrive, Vanish, Forget, IInv, ControlInv
    <3>2. QED
      BY <3>1, RestKept DEF Rest
  <2>5. CASE People
    BY <2>5, EditKept
  <2>6. CASE UNCHANGED vars
    <3>1. CASE Step = 0
      <4>1. at' = 0 /\ late' = 0
        BY <2>6, <3>1 DEF vars, Step
      <4>2. QED
        BY <4>1, RestKept DEF Rest
    <3>2. CASE Step # 0
      <4>1. /\ UNCHANGED <<service, mode, at, late, touched>> /\ UNCHANGED app /\ UNCHANGED local
        BY <2>6 DEF vars
      <4>2. /\ Step' = Step /\ UNCHANGED <<service, listed, read, setup, shelf, touched>>
            /\ UNCHANGED <<object, setting, initialized>>
        BY <4>1 DEF Step, app, local
      <4>3. ListInv' /\ ReadInv' /\ SetupInv'
        BY <3>2, <4>2, SameStep
      <4>4. ControlInv'
        <5>1. PICK k : k = late
          OBVIOUS
        <5>2. late # 0 => at = 0 /\ Task(k).step \notin {"public", "read", "list", "lookup"}
                          /\ ~Stops(k) /\ Wants(k)
          BY <5>1 DEF IInv, ControlInv
        <5>3. late # 0 => ~Stops(k)' /\ Wants(k)'
          BY <4>1, <4>2, <5>2, DueUnmoved
        <5>4. late' = k /\ at' = at /\ service' = service /\ mode' = mode
          BY <4>1, <5>1
        <5>5. service = "bazarr" /\ mode = "bootstrap" => Step' <= 1
          BY <4>2 DEF IInv, ControlInv
        <5>6. QED
          BY <5>1, <5>2, <5>3, <5>4, <5>5 DEF ControlInv
      <4>5. QED
        BY <4>3, <4>4 DEF Rest
    <3>3. QED
      BY <3>1, <3>2
  <2>7. QED
    BY <2>1, <2>2, <2>3, <2>4, <2>5, <2>6 DEF Next, Job, Network
<1>3. QED
  BY <1>1, <1>2 DEF IInv, Rest

\* Types, control and the worth of the run's snapshots: the inductive
\* invariant, in every reachable state.
THEOREM Safety == Spec => []IInv
<1>1. Init => IInv
  BY InitInv
<1>2. IInv /\ [Next]_vars => IInv'
  BY NextInv
<1>3. QED
  BY <1>1, <1>2, PTL DEF Spec

---------------------------------------------------------------------------
(* What no step of the job ever does. *)

LEMMA OthersKeptStep ==
  ASSUME IInv, [Next]_vars, ByJob
  PROVE  /\ \A i \in Ids \ touched :
              Exists(object[i]) /\ object'[i] # object[i] =>
                /\ object[i].name \in Declared /\ object[i].kin
                /\ \A j \in Ids \ (touched \cup {i}) : object[j].name # object[i].name
                /\ object'[i] = [object[i] EXCEPT !.ours = TRUE, !.link = object'[i].link]
         /\ 0 \in touched \/ setting'.extra = setting.extra
<1>1. CASE UNCHANGED app
  BY <1>1 DEF app
<1>2. ASSUME NEW k \in 1..Length, Due(k), Effect(k)
      PROVE  /\ \A i \in Ids \ touched : object'[i] # object[i] => Created(i) \/ Amended(i)
             /\ 0 \in touched \/ setting'.extra = setting.extra
  BY <1>2, EffectSafe
<1>3. QED
  BY <1>1, <1>2, ChangesAreDue DEF Created, Amended

LEMMA NoDuplicateStep ==
  ASSUME IInv, [Next]_vars, ByJob, NEW i \in Ids, ~Exists(object[i]), Exists(object'[i])
  PROVE  i \in touched \/ \A j \in Ids \ (touched \cup {i}) : object[j].name # object'[i].name
<1>1. SUFFICES ASSUME i \notin touched
               PROVE  \A j \in Ids \ (touched \cup {i}) : object[j].name # object'[i].name
  OBVIOUS
<1>2. object'[i] # object[i]
  OBVIOUS
<1>3. PICK k \in 1..Length : Due(k) /\ Effect(k)
  BY <1>2, ChangesAreDue DEF app
<1>4. Created(i) \/ Amended(i)
  BY <1>1, <1>2, <1>3, EffectSafe
<1>5. ~Amended(i)
  BY DEF Amended, Exists, Declared, First, Second
<1>6. PICK n \in Declared : /\ object'[i] = New(n)
                            /\ \A j \in Ids \ (touched \cup {i}) : object[j].name # n
  BY <1>4, <1>5 DEF Created
<1>7. object'[i].name = n
  BY <1>6, NewObject DEF IInv
<1>8. QED
  BY <1>6, <1>7

LEMMA BootstrapKeepsStep ==
  ASSUME IInv, [Next]_vars, mode = "bootstrap", ByJob
  PROVE  /\ \A i \in Ids : Exists(object[i]) => object'[i] = object[i]
         /\ setting' # setting => service = "seerr" /\ (~initialized \/ -1 \in touched)
<1>1. CASE UNCHANGED app
  BY <1>1 DEF app
<1>2. CASE \E k \in 1..Length : Due(k) /\ Effect(k)
  <2>1. PICK k \in 1..Length : Due(k) /\ Effect(k)
    BY <1>2
  <2>2. /\ \A i \in Ids : Exists(object[i]) => object'[i] = object[i]
        /\ setting' # setting => service = "seerr" /\ k = 10 /\ ~setup
    BY <2>1, EffectSafe
  <2>3. service = "seerr" /\ k = 10 /\ ~setup => ~initialized \/ -1 \in touched
    BY <2>1 DEF Due, IInv, SetupInv
  <2>4. QED
    BY <2>2, <2>3
<1>3. QED
  BY <1>1, <1>2, ChangesAreDue

LEMMA SetupCompleteStep ==
  ASSUME IInv, [Next]_vars, service = "seerr", ByJob, initialized' # initialized, touched = {}
  PROVE  /\ setting.ours /\ shelf = "on"
         /\ \A name \in Declared : \E i \in Ids : object[i].name = name
<1>1. PICK k \in 1..Length : Due(k) /\ Effect(k)
  BY ChangesAreDue DEF app
<1>2. Task(k).step = "initialize" /\ ~setup
  BY <1>1, EffectSafe
<1>3. k = 11 /\ Step = 11
  BY <1>1, <1>2, StepType, Order DEF Due, IInv
<1>4. QED
  BY <1>2, <1>3 DEF IInv, SetupInv, Declared

\* What people keep is not written over: undeclared objects, other fields,
\* ambiguous names and other providers.
THEOREM KeepsOthers == Spec => OthersKept
<1>1. IInv /\ [Next]_vars =>
        [ByJob =>
           /\ \A i \in Ids \ touched :
                Exists(object[i]) /\ object'[i] # object[i] =>
                  /\ object[i].name \in Declared /\ object[i].kin
                  /\ \A j \in Ids \ (touched \cup {i}) : object[j].name # object[i].name
                  /\ object'[i] = [object[i] EXCEPT !.ours = TRUE, !.link = object'[i].link]
           /\ 0 \in touched \/ setting'.extra = setting.extra]_vars
  BY OthersKeptStep
<1>2. QED
  BY <1>1, Safety, PTL DEF Spec, OthersKept

\* No second object of a name, whatever became of earlier writes.
THEOREM CreatesOnce == Spec => NoDuplicate
<1>1. IInv /\ [Next]_vars =>
        [ByJob => \A i \in Ids :
           ~Exists(object[i]) /\ Exists(object'[i]) =>
             i \in touched \/ \A j \in Ids \ (touched \cup {i}) : object[j].name # object'[i].name]_vars
  BY NoDuplicateStep
<1>2. QED
  BY <1>1, Safety, PTL DEF Spec, NoDuplicate

\* Bootstrap preserves whatever exists, and settings outside Seerr's onboarding.
THEOREM KeepsInBootstrap == Spec => BootstrapKeeps
<1>1. IInv /\ [Next]_vars =>
        [mode = "bootstrap" /\ ByJob =>
           /\ \A i \in Ids : Exists(object[i]) => object'[i] = object[i]
           /\ setting' # setting => service = "seerr" /\ (~initialized \/ -1 \in touched)]_vars
  BY BootstrapKeepsStep
<1>2. QED
  BY <1>1, Safety, PTL DEF Spec, BootstrapKeeps

\* Seerr's onboarding is closed only when all it is to configure is there.
THEOREM ClosesLast == Spec => SetupComplete
<1>1. IInv /\ [Next]_vars =>
        [service = "seerr" /\ ByJob /\ initialized' # initialized /\ touched = {} =>
           /\ setting.ours /\ shelf = "on"
           /\ \A name \in Declared : \E i \in Ids : object[i].name = name]_vars
  BY SetupCompleteStep
<1>2. QED
  BY <1>1, Safety, PTL DEF Spec, SetupComplete

---------------------------------------------------------------------------
(* Rest. *)

\* A set of ids that counts at most one has no two.
LEMMA AtMostOne ==
  ASSUME NEW S \in SUBSET Ids, ~(Cardinality(S) > 1), NEW i \in S, NEW j \in S
  PROVE  i = j
<1> SUFFICES ASSUME i # j PROVE FALSE
  OBVIOUS
<1>1. IsFiniteSet(S)
  <2>1. 1 \in Int /\ MaxId \in Int
    OBVIOUS
  <2>2. IsFiniteSet(Ids)
    BY <2>1, FS_Interval
  <2> QED BY <2>2, FS_Subset
<1>2. IsFiniteSet({i}) /\ Cardinality({i}) = 1
  BY FS_Singleton
<1>3. Cardinality({i} \cup {j}) = 2
  BY <1>2, FS_AddElement
<1>4. {i} \cup {j} \in SUBSET S
  OBVIOUS
<1>5. Cardinality({i} \cup {j}) <= Cardinality(S)
  BY <1>1, <1>4, FS_Subset
<1>6. Cardinality(S) \in Nat
  BY <1>1, FS_CardinalityType
<1> QED BY <1>3, <1>5, <1>6

\* A declared name has one bearer in a settled application, and in managed mode
\* that is as declared.
LEMMA SettledObjects ==
  ASSUME Settled, NEW n \in Declared
  PROVE  /\ Bearing(n) # {}
         /\ \A i, j \in Bearing(n) : i = j
         /\ mode = "managed" => \A i \in Bearing(n) :
              object[i].ours /\ object[i].link \in IF Refers(n) THEN Targets ELSE {0}
<1>1. PICK i \in Bearing(n) :
        mode = "managed" =>
          object[i].ours /\ object[i].link \in IF Refers(n) THEN Targets ELSE {0}
  BY DEF Settled, AsDeclared
<1>2. Bearing(n) \in SUBSET Ids /\ ~(Cardinality(Bearing(n)) > 1)
  BY DEF Bearing, Settled, Blocked
<1>3. \A j, k \in Bearing(n) : j = k
  BY <1>2, AtMostOne
<1> QED BY <1>1, <1>3

\* There is one thing to refer to.
LEMMA SettledTargets ==
  ASSUME Settled, TypeOK
  PROVE  /\ \A i, j \in Targets : i = j
         /\ Targets # {}
<1>1. CASE service = "seerr"
  BY <1>1 DEF Targets, Settled, Blocked, TypeOK
<1>2. CASE service # "seerr"
  <2>1. Targets = Bearing(First)
    BY <1>2 DEF Targets, Bearing
  <2> QED BY <2>1, SettledObjects DEF Declared
<1> QED BY <1>1, <1>2

\* Before it writes what refers to something a run has looked that up.
LEMMA LookedUpThen ==
  ASSUME service \in Services, at \in 1..Length, Task(at).step = "write", Refers(Task(at).name)
  PROVE  LookedUp /\ at > 1
<1>1. CASE service = "arr"
  <2>1. at = 7
    BY <1>1, ServarrProgram DEF Refers, First, Second
  <2>2. Task(5).step = "lookup" /\ \A k \in 5..6 : Task(k).step # "write"
    BY <1>1, ServarrProgram
  <2> QED BY <2>1, <2>2 DEF LookedUp
<1>2. CASE service = "seerr"
  <2>1. at \in {6, 8}
    BY <1>2, SeerrProgram
  <2>2. /\ Task(5).step = "lookup" /\ \A k \in 5..5 : Task(k).step # "write"
        /\ Task(7).step = "lookup" /\ \A k \in 7..7 : Task(k).step # "write"
    BY <1>2, SeerrProgram
  <2>3. CASE at = 6
    BY <2>2, <2>3 DEF LookedUp
  <2>4. CASE at = 8
    BY <2>2, <2>4 DEF LookedUp
  <2> QED BY <2>1, <2>3, <2>4
<1> QED BY <1>1, <1>2 DEF Refers

\* What the run would make of a listed object is what it is already.
LEMMA SettledDesired ==
  ASSUME TypeOK, Settled, mode = "managed", NEW n \in Declared, NEW i \in Ids,
         object[i].name = n, listed[i] = object[i],
         Refers(n) => found \in Targets
  PROVE  Desired(i) = listed[i]
<1>1. i \in Bearing(n) /\ listed[i] \in Objects /\ listed[i].name = n
  BY DEF Bearing, TypeOK
<1>2. listed[i].ours /\ listed[i].link \in IF Refers(n) THEN Targets ELSE {0}
  BY <1>1, SettledObjects
<1>3. listed[i].link = LinkOf(n)
  BY <1>2, SettledTargets DEF LinkOf
<1>4. listed[i].ours = TRUE
  BY <1>1, <1>2 DEF Objects
<1> QED
  BY <1>1, <1>3, <1>4 DEF Desired, Objects

\* A settled application gives a run nothing to write.
LEMMA SettledWants ==
  ASSUME IInv, Settled, at \in 1..Length
  PROVE  ~Wants(at)
<1>1. /\ late = 0 /\ touched = {} /\ Step = at /\ service \in Services /\ TypeOK
      /\ mode \in {"managed", "bootstrap"}
  BY RunningFacts DEF Running, Settled
<1>2. at > 1 /\ service \in {"seerr", "audiobookshelf"} => setup
  BY DEF Settled
<1>3. CASE Task(at).step = "write"
  <2> DEFINE n == Task(at).name
  <2>1. n \in Declared
    BY <1>1, <1>3, Order
  <2>2. Open(n)
    BY <1>1, <1>3 DEF Open, Length
  <2>3. \A i \in Ids : n \in {listed[i].name, object[i].name} => listed[i] = object[i]
    BY <1>1, <2>1, <2>2 DEF IInv, ListInv
  <2>4. Bearers(n) = Bearing(n)
    BY <2>3 DEF Bearers, Bearing
  <2>5. mode = "managed" /\ Refers(n) => found \in Targets
    BY <1>1, <1>3, LookedUpThen DEF Settled
  <2>6. mode = "managed" => \A i \in Bearers(n) : listed[i] = Desired(i)
    BY <1>1, <2>1, <2>3, <2>5, SettledDesired DEF Bearers
  <2>7. Bearers(n) # {}
    BY <2>1, <2>4, SettledObjects
  <2> HIDE DEF n
  <2> QED BY <1>3, <2>6, <2>7 DEF Wants, n
<1>4. CASE Task(at).step = "replace"
  <2>1. service = "bazarr" /\ at = 3 /\ mode = "managed"
    BY <1>1, <1>4, Order DEF IInv, ControlInv
  <2>2. \A i \in Ids : listed[i] = object[i]
    BY <1>1, <1>4 DEF IInv, ListInv
  <2>3. read = setting
    BY <1>1, <2>1 DEF IInv, ReadInv
  <2>4. \A n \in Declared : Bearers(n) = Bearing(n) /\ Bearers(n) # {} /\ ~Refers(n)
    BY <2>1, <2>2, SettledObjects DEF Bearers, Bearing, Refers
  <2>5. \A n \in Declared : Given(n) \in Bearing(n)
    BY <2>4, GivenType
  <2>6. ASSUME NEW i \in Ids PROVE Merged[i] = listed[i]
    <3>1. CASE i \in Bearers(First) \cup Bearers(Second)
      <4>1. Merged[i] = Desired(i)
        BY <3>1 DEF Merged
      <4>2. listed[i].name \in Declared
        BY <3>1 DEF Bearers, Declared
      <4> QED BY <1>1, <2>1, <2>2, <2>4, <4>1, <4>2, SettledDesired
    <3>2. CASE i \notin Bearers(First) \cup Bearers(Second)
      <4>1. \A n \in Declared : i # Given(n)
        BY <2>4, <2>5, <3>2 DEF Declared
      <4> QED BY <3>2, <4>1 DEF Merged
    <3> QED BY <3>1, <3>2
  <2>7. Merged = listed
    <3>1. listed = [i \in Ids |-> listed[i]]
      BY <1>1 DEF TypeOK
    <3>2. Merged = [i \in Ids |-> Merged[i]]
      BY DEF Merged
    <3> QED BY <2>6, <3>1, <3>2
  <2>8. read.ours /\ read.link = Given(First)
    <3>1. setting.ours /\ setting.link \in Bearing(First)
      BY <2>1 DEF Settled, AsDeclared
    <3> QED BY <2>3, <2>5, <3>1, SettledObjects DEF Declared
  <2> QED BY <1>4, <2>4, <2>7, <2>8 DEF Wants, Declared
<1>5. CASE Task(at).step = "set"
  <2>1. service \in {"arr", "seerr"} /\ (service = "seerr" => at = 10)
    BY <1>1, <1>5, Order
  <2>2. read = setting
    BY <1>1, <1>5 DEF IInv, ReadInv
  <2>3. mode = "managed" => setting.ours
    BY <2>1 DEF Settled, AsDeclared
  <2> QED BY <1>2, <1>5, <2>1, <2>2, <2>3 DEF Wants, MayConfigure
<1>6. CASE Task(at).step \in {"sync", "enable"}
  <2>1. service = "seerr" /\ at > 1
    BY <1>1, <1>6, Order
  <2>2. mode = "managed" => shelf = "on"
    BY <2>1 DEF Settled, AsDeclared
  <2> QED BY <1>2, <1>6, <2>1, <2>2 DEF Wants, MayConfigure
<1>7. CASE Task(at).step = "initialize"
  <2>1. service \in {"seerr", "audiobookshelf"}
    BY <1>1, <1>7, ServarrProgram, BazarrProgram, TorrentProgram DEF Services
  <2>2. at > 1
    BY <1>1, <1>7, Order
  <2> QED BY <1>2, <1>7, <2>1, <2>2 DEF Wants
<1> QED
  BY <1>3, <1>4, <1>5, <1>6, <1>7 DEF Wants

\* While the application stays as it is, what is left to see to is what the
\* run knows of it.
LEMMA SettledSame ==
  ASSUME Settled, UNCHANGED <<service, mode, app>>, late' = 0, touched' = {},
         at' > 1 /\ service \in {"seerr", "audiobookshelf"} => setup',
         at' > 1 /\ mode = "managed" /\ LookedUp' => found' \in Targets
  PROVE  Settled'
<1>1. AsDeclared'
  BY DEF Settled, AsDeclared, app, Bearing, Refers, Targets
<1>2. ~Blocked'
  BY DEF Settled, Blocked, app, Bearing
<1>3. Targets' = Targets
  BY DEF Targets, app
<1> QED BY <1>1, <1>2, <1>3 DEF Settled

\* Between runs, and at their first step, nothing is known.
LEMMA SettledIdle ==
  ASSUME Settled, UNCHANGED <<service, mode, app>>, late' = 0, touched' = {}, at' \in {0, 1}
  PROVE  Settled'
BY SettledSame

\* What a run has looked up is what it looks up now or had looked up.
LEMMA LookedUpBefore ==
  ASSUME at \in 1..Length, at' = at + 1, service' = service, LookedUp'
  PROVE  Task(at).step = "lookup" \/ (at > 1 /\ LookedUp)
<1>1. PICK l \in 1..at : Task(l).step = "lookup" /\ \A k \in l..at : Task(k).step # "write"
  BY DEF LookedUp, Length
<1> QED BY <1>1 DEF LookedUp, Length

\* A run goes on with what it knows.
LEMMA SettledAdvance ==
  ASSUME Settled, TypeOK, at \in 1..Length, at' = at + 1, UNCHANGED <<service, mode, app>>,
         late' = 0, touched' = {},
         setup' = setup \/ (Task(at).step = "public" /\ setup' = initialized),
         at = 1 /\ service \in {"seerr", "audiobookshelf"} => Task(at).step = "public",
         Task(at).step = "public" => setup' = initialized,
         IF Task(at).step = "lookup" THEN mode = "managed" => found' \in Targets
         ELSE found' = found
  PROVE  Settled'
<1>1. service \in {"seerr", "audiobookshelf"} => setup'
  BY DEF Settled, AsDeclared
<1>2. mode = "managed" /\ LookedUp' => found' \in Targets
  BY LookedUpBefore DEF Settled
<1> QED BY <1>1, <1>2, SettledSame

\* Steps that nobody but the job makes leave a settled application settled.
LEMMA SettledStep ==
  ASSUME IInv, [Next]_vars, Settled, ByJob
  PROVE  Settled' /\ UNCHANGED app
<1>1. /\ late = 0 /\ touched = {} /\ service \in Services /\ TypeOK /\ Length \in Nat
      /\ at \in 0..Length /\ Step = at /\ mode \in {"managed", "bootstrap"}
  BY StepType, Order DEF IInv, Settled, Step
<1>2. /\ at = 1 /\ service \in {"seerr", "audiobookshelf"} => Task(at).step = "public"
      /\ at = 1 => Task(at).step \in {"public", "read", "list"}
  BY <1>1, SeerrProgram, ShelfProgram, Order
<1>3. Forget => late' = 0 /\ touched' = {}
  BY DEF Forget
<1>4. End /\ UNCHANGED <<service, mode, app>> => Settled'
  BY <1>3, SettledIdle DEF End
<1>5. at # 0 => ~Wants(at)
  BY <1>1, SettledWants
<1>6. ~Write /\ ~Arrive /\ ~Vanish
  BY <1>1, <1>5 DEF Write, Writing, Arrive, Vanish
<1>7. ~People
  <2>1. spent.edits + 1 # spent.edits
    BY <1>1 DEF TypeOK, Spending
  <2> QED
    BY <1>1, <2>1 DEF People, EditSettings, EditProfile, Onboard, EditObject, Touch, ByJob,
       TypeOK, Spending
<1>8. CASE Start
  <2>1. late' = 0 /\ touched' = {} /\ at' = 1 /\ UNCHANGED <<service, mode, app>>
    BY <1>1, <1>8 DEF Start
  <2> QED BY <2>1, SettledIdle DEF app
<1>9. CASE ReadPublic
  <2>1. /\ at \in 1..Length /\ Task(at).step = "public" /\ UNCHANGED <<service, mode, app>>
        /\ late' = 0 /\ touched' = {} /\ setup' = initialized /\ found' = found
        /\ at' = After(at)
    BY <1>1, <1>9 DEF ReadPublic, Now
  <2>2. at = 1 /\ at < Length
    BY <1>1, <2>1, ServarrProgram, BazarrProgram, SeerrProgram, ShelfProgram, TorrentProgram
       DEF Services
  <2>3. at' = at + 1
    BY <1>1, <2>1, <2>2, AfterType
  <2>4. Settled'
    BY <1>1, <1>2, <2>1, <2>3, SettledAdvance
  <2> QED BY <2>1, <2>4 DEF app
<1>10. CASE ReadSettings
  <2>1. /\ at \in 1..Length /\ Task(at).step = "read" /\ UNCHANGED <<service, mode, app>>
    BY <1>1, <1>10 DEF ReadSettings, Now
  <2>2. CASE End
    BY <1>4, <2>1, <2>2 DEF app
  <2>3. CASE /\ at' = After(at) /\ touched' = touched \ {0}
             /\ UNCHANGED <<late, listed, found, setup>>
    <3>1. at' = at + 1
      BY <1>1, <2>1, <2>3, AfterType, Order
    <3>2. Settled'
      BY <1>1, <1>2, <2>1, <2>3, <3>1, SettledAdvance
    <3> QED BY <2>1, <3>2 DEF app
  <2> QED BY <1>10, <2>2, <2>3 DEF ReadSettings
<1>11. CASE List
  <2>1. /\ at \in 1..Length /\ Task(at).step = "list" /\ UNCHANGED <<service, mode, app>>
        /\ late' = 0 /\ touched' = {} /\ setup' = setup /\ found' = found /\ at' = After(at)
    BY <1>1, <1>11 DEF List, Now
  <2>2. CASE at' = 0
    BY <2>1, <2>2, SettledIdle DEF app
  <2>3. CASE at' # 0
    <3>1. at' = at + 1
      BY <1>1, <2>1, <2>3, AfterType
    <3>2. Settled'
      BY <1>1, <1>2, <2>1, <3>1, SettledAdvance
    <3> QED BY <2>1, <3>2 DEF app
  <2> QED BY <2>2, <2>3
<1>12. CASE Lookup
  <2>1. /\ at \in 1..Length /\ Task(at).step = "lookup" /\ UNCHANGED <<service, mode, app>>
        /\ late' = 0 /\ touched' = {} /\ setup' = setup /\ at' = After(at)
    BY <1>1, <1>12 DEF Lookup, Now
  <2>2. mode = "managed" => found' \in Targets
    <3>1. mode = "managed" => found' = CHOOSE i \in Targets : TRUE
      BY <1>12 DEF Lookup, Skipped
    <3> QED BY <1>1, <3>1, SettledTargets
  <2>3. CASE at' = 0
    BY <2>1, <2>3, SettledIdle DEF app
  <2>4. CASE at' # 0
    <3>1. at' = at + 1
      BY <1>1, <2>1, <2>4, AfterType
    <3>2. Settled'
      BY <1>1, <1>2, <2>1, <2>2, <3>1, SettledAdvance
    <3> QED BY <2>1, <3>2 DEF app
  <2> QED BY <2>3, <2>4
<1>13. CASE Pass
  <2>1. /\ at \in 1..Length /\ Task(at).step \notin {"public", "read", "list", "lookup"}
        /\ UNCHANGED <<service, mode, app>> /\ Proceed
    BY <1>1, <1>13 DEF Pass, Writing
  <2>2. CASE End
    BY <1>4, <2>1, <2>2 DEF app
  <2>3. CASE After(at) # 0 /\ at' = After(at) /\ UNCHANGED <<late, local, touched>>
    <3>1. at' = at + 1 /\ late' = 0 /\ touched' = {} /\ setup' = setup /\ found' = found
      BY <1>1, <2>1, <2>3, AfterType DEF local
    <3>2. Settled'
      BY <1>1, <1>2, <2>1, <3>1, SettledAdvance
    <3> QED BY <2>1, <3>2 DEF app
  <2> QED BY <2>1, <2>2, <2>3 DEF Proceed
<1>14. CASE Stop
  BY <1>4, <1>14 DEF Stop, app
<1>15. CASE BreakOff
  <2>1. End /\ UNCHANGED <<service, mode, app>>
    BY <1>5, <1>15 DEF BreakOff
  <2> QED BY <1>4, <2>1 DEF app
<1>16. CASE UNCHANGED vars
  <2>1. UNCHANGED <<service, mode, app, late, touched, at, setup, found>>
    BY <1>16 DEF vars, local
  <2>2. LookedUp' = LookedUp
    BY <2>1 DEF LookedUp
  <2>3. Settled'
    BY <1>1, <2>1, <2>2, SettledSame DEF Settled
  <2> QED BY <2>1, <2>3 DEF app
<1> QED
  BY <1>6, <1>7, <1>8, <1>9, <1>10, <1>11, <1>12, <1>13, <1>14, <1>15, <1>16
     DEF Next, Job, Network

\* Once an application is as declared, no run writes to it again, whatever its
\* kind and wherever runs fail, until people change something.
THEOREM SettledStays == Spec => StaysSettled
<1>1. IInv /\ [Next]_vars => [Settled /\ ByJob => Settled' /\ UNCHANGED app]_vars
  BY SettledStep
<1> QED BY <1>1, Safety, PTL DEF Spec, StaysSettled
---------------------------------------------------------------------------
(* What a run that does its last step has done. *)

\* A run on which nobody has intruded.
LEMMA AloneFacts ==
  ASSUME Running, RunInv, alone
  PROVE  /\ touched = {} /\ DoneUpTo(at) /\ late = 0 /\ Step = at /\ TypeOK
         /\ service \in Services /\ mode \in {"managed", "bootstrap"} /\ Length \in Nat
         /\ mode = "managed" /\ LookedUp => found \in Targets
BY RunningFacts DEF Running, RunInv

\* At the step that writes a name the run knows its bearers, and that there is
\* at most one, of the right kind.
LEMMA BearersKnown ==
  ASSUME Running, touched = {}, NEW n, Task(at).step = "write", n = Task(at).name, ~Stops(at)
  PROVE  /\ n \in Declared
         /\ \A i \in Ids : n \in {listed[i].name, object[i].name} => listed[i] = object[i]
         /\ Bearers(n) = Bearing(n)
         /\ \A i, j \in Bearing(n) : i = j
         /\ mode = "managed" => \A i \in Bearing(n) : object[i].kin
<1>1. n \in Declared
  BY RunningFacts, Order DEF Running
<1>2. Open(n)
  BY RunningFacts DEF Open, Length, Running
<1>3. \A i \in Ids : n \in {listed[i].name, object[i].name} => listed[i] = object[i]
  BY <1>1, <1>2, RunningFacts DEF Running, IInv, ListInv
<1>4. Bearers(n) = Bearing(n)
  BY <1>3 DEF Bearers, Bearing
<1>5. ~Refused(n)
  BY DEF Stops
<1>6. mode = "managed" => \A i \in Bearing(n) : object[i].kin
  BY <1>3, <1>4, <1>5 DEF Refused, Bearing
<1> QED
  BY <1>1, <1>3, <1>4, <1>5, <1>6 DEF Refused

\* The write of a name leaves one object that bears it, as it is declared, and
\* all the others as they are.
LEMMA WriteOne ==
  ASSUME Running, touched = {}, NEW n, Task(at).step = "write", n = Task(at).name, ~Stops(at),
         Wants(at), WriteObject(n), service' = service,
         service \in {"audiobookshelf", "qbittorrent"} => \A i \in Ids : object[i].link = 0
  PROVE  \E b \in Ids :
           /\ object'[b].name = n /\ (object[b].name = n \/ ~Exists(object[b]))
           /\ \A i \in Ids \ {b} : object'[i] = object[i] /\ object[i].name # n
           /\ mode = "managed" =>
                object'[b].ours /\ object'[b].kin /\ object'[b].link = LinkOf(n)
<1>1. /\ n \in Declared /\ Bearers(n) = Bearing(n) /\ \A i, j \in Bearing(n) : i = j
      /\ \A i \in Ids : n \in {listed[i].name, object[i].name} => listed[i] = object[i]
      /\ mode = "managed" => \A i \in Bearing(n) : object[i].kin
      /\ TypeOK /\ service \in Services
  BY BearersKnown, RunningFacts
<1>2. CASE Bearers(n) = {}
  <2>1. PICK b \in Ids : Free(b) /\ object' = [object EXCEPT ![b] = New(n)]
    BY <1>2 DEF WriteObject, Create
  <2>2. object'[b] = New(n) /\ \A i \in Ids \ {b} : object'[i] = object[i]
    BY <1>1, <2>1 DEF TypeOK
  <2>3. ~Exists(object[b])
    BY <2>1 DEF Free, Exists
  <2>4. \A i \in Ids : object[i].name # n
    BY <1>1, <1>2 DEF Bearing
  <2>5. New(n).name = n /\ New(n).ours /\ New(n).kin /\ New(n).link = LinkOf(n)
    BY DEF New
  <2> QED BY <2>2, <2>3, <2>4, <2>5
<1>3. CASE Bearers(n) # {}
  <2>1. mode = "managed"
    BY <1>3 DEF Wants
  <2>2. PICK b \in Ids : b \in Bearing(n)
    BY <1>1, <1>3 DEF Bearing
  <2>3. /\ object[b].name = n /\ listed[b] = object[b] /\ object[b].kin
        /\ \A i \in Ids \ {b} : object[i].name # n
    BY <1>1, <2>1, <2>2 DEF Bearing
  <2>4. Exists(object[b])
    BY <1>1, <2>3 DEF Exists, Declared, First, Second
  <2>5. Goal(n) = {b}
    BY <1>1, <2>2, <2>3, <2>4 DEF Goal, Bearing
  <2>6. object' = [i \in Ids |-> IF i \in Goal(n) THEN Put(i) ELSE object[i]]
    BY <1>3 DEF WriteObject, Change
  <2>7. object'[b] = Put(b) /\ \A i \in Ids \ {b} : object'[i] = object[i]
    BY <2>5, <2>6
  <2>8. Put(b).name = n /\ Put(b).ours /\ Put(b).kin /\ Put(b).link = LinkOf(n)
    <3>1. object[b] \in Objects /\ listed[b] \in Objects
      BY <1>1 DEF TypeOK
    <3>2. CASE service \in {"arr", "seerr"}
      <4>1. Put(b) = Desired(b) /\ Desired(b).link = LinkOf(listed[b].name)
        BY <3>1, <3>2 DEF Put, Desired, Objects
      <4> QED BY <1>1, <2>3, <4>1, DesiredObject
    <3>3. CASE service \in {"audiobookshelf", "qbittorrent"}
      <4>1. Put(b) = [object[b] EXCEPT !.ours = TRUE]
        BY <3>3 DEF Put
      <4>2. object[b].link = 0 /\ LinkOf(n) = 0
        BY <3>3 DEF LinkOf, Refers
      <4> QED BY <2>3, <3>1, <4>1, <4>2 DEF Objects
    <3>4. service # "bazarr"
      BY RunningFacts, BazarrProgram DEF Running
    <3> QED BY <1>1, <3>2, <3>3, <3>4 DEF Services
  <2> QED BY <2>3, <2>7, <2>8
<1> QED BY <1>2, <1>3

\* What a name refers to is not affected by writing it.
LEMMA TargetsKept ==
  ASSUME UNCHANGED <<service, profile>>, service = "seerr" \/ Bearing(First)' = Bearing(First)
  PROVE  Targets' = Targets
BY DEF Targets, Bearing

\* One write puts one name in order and keeps the order of the other.
LEMMA WriteDone ==
  ASSUME Running, RunInv, alone, NEW n, Task(at).step = "write", n = Task(at).name, ~Stops(at),
         Wants(at), WriteObject(n), UNCHANGED <<service, mode>>
  PROVE  /\ Done(n)'
         /\ \A m \in Declared : m # n /\ ~(service = "arr" /\ n = First) /\ Done(m) => Done(m)'
<1>1. touched = {} /\ service \in Services
  BY AloneFacts
<1>2. profile' = profile
  BY DEF WriteObject
<1>3. n \in Declared
  BY <1>1, BearersKnown
<1>4. (mode = "managed" /\ LookedUp => found \in Targets) /\ TypeOK
  BY AloneFacts
<1>5. PICK b \in Ids :
           /\ object'[b].name = n /\ (object[b].name = n \/ ~Exists(object[b]))
           /\ \A i \in Ids \ {b} : object'[i] = object[i] /\ object[i].name # n
           /\ mode = "managed" =>
                object'[b].ours /\ object'[b].kin /\ object'[b].link = LinkOf(n)
  BY <1>1, <1>4, WriteOne DEF RunInv
<1>6. Bearing(n)' = {b}
  BY <1>5 DEF Bearing
<1>7. ASSUME NEW m \in Declared, m # n
      PROVE  Bearing(m)' = Bearing(m) /\ \A i \in Bearing(m) : object'[i] = object[i]
  <2>1. object[b].name # m
    BY <1>5, <1>7 DEF Exists, Declared, First, Second
  <2> QED BY <1>5, <1>7, <2>1 DEF Bearing
<1>8. ~(service = "arr" /\ n = First) /\ (\E name \in Declared : Refers(name)) => Targets' = Targets
  BY <1>2, <1>3, <1>7, TargetsKept DEF Refers, Declared
<1>9. Done(n)'
  <2>1. mode = "managed" /\ Refers(n) => found \in Targets'
    <3> SUFFICES ASSUME mode = "managed", Refers(n) PROVE found \in Targets'
      OBVIOUS
    <3>1. LookedUp
      BY <1>4, LookedUpThen, RunningFacts DEF Running
    <3>2. ~(service = "arr" /\ n = First)
      BY DEF Refers, First, Second
    <3> QED BY <1>3, <1>4, <1>8, <3>1, <3>2
  <2>2. Refers(n)' = Refers(n)
    BY DEF Refers
  <2>3. mode = "managed" => object'[b].link \in IF Refers(n) THEN Targets' ELSE {0}
    BY <1>5, <2>1 DEF LinkOf
  <2> QED BY <1>5, <1>6, <2>2, <2>3 DEF Done
<1>10. ASSUME NEW m \in Declared, m # n, ~(service = "arr" /\ n = First), Done(m) PROVE Done(m)'
  <2>1. Bearing(m)' = Bearing(m) /\ \A i \in Bearing(m) : object'[i] = object[i]
    BY <1>7, <1>10
  <2>2. Refers(m)' = Refers(m) /\ (Refers(m) => Targets' = Targets)
    BY <1>8, <1>10 DEF Refers
  <2> QED BY <1>10, <2>1, <2>2 DEF Done
<1> QED BY <1>9, <1>10

\* A name that the run passes over is in order.
LEMMA PassDone ==
  ASSUME Running, RunInv, alone, NEW n, Task(at).step = "write", n = Task(at).name, ~Stops(at),
         ~Wants(at)
  PROVE  Done(n)
<1>1. touched = {} /\ TypeOK /\ (mode = "managed" /\ LookedUp => found \in Targets)
  BY AloneFacts
<1>2. /\ n \in Declared /\ Bearers(n) = Bearing(n) /\ \A i, j \in Bearing(n) : i = j
      /\ \A i \in Ids : n \in {listed[i].name, object[i].name} => listed[i] = object[i]
      /\ mode = "managed" => \A i \in Bearing(n) : object[i].kin
  BY <1>1, BearersKnown
<1>3. Bearers(n) # {} /\ (mode = "managed" => \A i \in Bearers(n) : listed[i] = Desired(i))
  BY DEF Wants
<1>4. ASSUME mode = "managed", NEW i \in Bearing(n)
      PROVE  object[i].ours /\ object[i].link \in IF Refers(n) THEN Targets ELSE {0}
  <2>1. i \in Ids /\ object[i].name = n /\ object[i] = listed[i] /\ listed[i] = Desired(i)
    BY <1>2, <1>3, <1>4 DEF Bearing
  <2>2. listed[i] \in Objects
    BY <1>1, <2>1 DEF TypeOK
  <2>3. Desired(i).ours /\ Desired(i).link = LinkOf(n)
    BY <2>1, <2>2 DEF Desired, Objects
  <2>4. Refers(n) => found \in Targets
    BY <1>1, <1>4, LookedUpThen, RunningFacts DEF Running
  <2> QED BY <2>1, <2>3, <2>4 DEF LinkOf
<1> QED BY <1>2, <1>3, <1>4 DEF Done

\* What a step is to have put in order.
Ordered(j) ==
  /\ Task(j).step = "write" => Done(Task(j).name)
  /\ Task(j).step = "set" /\ mode = "managed" => setting.ours
  /\ Task(j).step = "enable" /\ mode = "managed" => shelf = "on"
  /\ Task(j).step = "initialize" => initialized

LEMMA DoneSame ==
  ASSUME UNCHANGED <<service, mode, object, profile>>, NEW n
  PROVE  Done(n)' <=> Done(n)
BY DEF Done, Bearing, Refers, Targets

LEMMA OrderedSame ==
  ASSUME UNCHANGED <<service, mode, app>>, NEW j
  PROVE  Ordered(j)' <=> Ordered(j)
<1>1. UNCHANGED <<service, mode, object, profile, setting, shelf, initialized>>
  BY DEF app
<1>2. \A n : Done(n)' <=> Done(n)
  BY <1>1, DoneSame
<1> QED BY <1>1, <1>2 DEF Ordered

\* The orders of the programs that matter here: what the manager's library is
\* enabled for comes after its synchronisation, what is referred to first.
LEMMA OrderBefore ==
  ASSUME service \in Services, NEW k \in 1..Length, NEW j \in 1..(k - 1)
  PROVE  /\ Task(k).step = "sync" => Task(j).step # "enable"
         /\ Task(k).step = "write" /\ Task(j).step = "write" =>
              /\ ~(service = "arr" /\ Task(k).name = First)
              /\ Task(j).name # Task(k).name
         /\ Task(k).step = "replace" =>
              Task(j).step \notin {"write", "set", "enable", "initialize"}
<1>1. CASE service = "arr"
  BY <1>1, ServarrProgram DEF First, Second
<1>2. CASE service = "bazarr"
  BY <1>2, BazarrProgram
<1>3. CASE service = "seerr"
  <2>1. k \in {1, 2, 3, 4, 5, 6, 7, 8, 9, 10, 11}
    BY <1>3, SeerrProgram
  <2>2. Task(k).step = "sync" => k = 2
    BY <1>3, <2>1, SeerrProgram
  <2>3. Task(k).step = "write" => k = 6 \/ k = 8
    BY <1>3, <2>1, SeerrProgram
  <2>4. Task(k).step # "replace"
    BY <1>3, <2>1, SeerrProgram
  <2>5. k = 2 => j = 1
    OBVIOUS
  <2>6. k = 6 => Task(j).step # "write"
    <3>1. k = 6 => j \in {1, 2, 3, 4, 5}
      OBVIOUS
    <3> QED BY <1>3, <3>1, SeerrProgram
  <2>7. k = 8 /\ Task(j).step = "write" => j = 6
    <3>1. k = 8 => j \in {1, 2, 3, 4, 5, 6, 7}
      OBVIOUS
    <3> QED BY <1>3, <3>1, SeerrProgram
  <2> QED BY <1>3, <2>2, <2>3, <2>4, <2>5, <2>6, <2>7, SeerrProgram DEF First, Second
<1>4. CASE service = "audiobookshelf"
  BY <1>4, ShelfProgram DEF First, Second
<1>5. CASE service = "qbittorrent"
  BY <1>5, TorrentProgram DEF First, Second
<1> QED BY <1>1, <1>2, <1>3, <1>4, <1>5 DEF Services

\* A step that is passed over was in order before.
LEMMA PassOrders ==
  ASSUME Running, RunInv, alone, Writing, ~Stops(at), ~Wants(at)
  PROVE  Ordered(at)
<1>1. touched = {} /\ TypeOK /\ service \in Services /\ Step = at /\ at # 0
  BY AloneFacts DEF Running
<1>2. Task(at).step = "write" => Done(Task(at).name)
  BY PassDone
<1>3. Task(at).step = "set" /\ mode = "managed" => setting.ours
  <2>1. Task(at).step = "set" => read = setting
    BY <1>1 DEF Running, IInv, ReadInv
  <2> QED BY <2>1 DEF Wants, MayConfigure
<1>4. Task(at).step = "enable" /\ mode = "managed" => shelf = "on"
  <2>1. shelf \in {"missing", "off", "on"}
    BY <1>1 DEF TypeOK
  <2> QED BY <2>1 DEF Wants, Stops, MayConfigure
<1>5. Task(at).step = "initialize" => initialized
  BY DEF Wants, RunInv
<1> QED BY <1>2, <1>3, <1>4, <1>5 DEF Ordered

\* A write puts its step in order and leaves the earlier ones so.
LEMMA WriteOrders ==
  ASSUME Running, RunInv, alone, ~Stops(at), Wants(at), Effect(at), UNCHANGED <<service, mode>>,
         NEW k, k = at, Task(k).step # "replace"
  PROVE  /\ Ordered(k)'
         /\ \A j \in 1..(k - 1) : Ordered(j) => Ordered(j)'
<1>1. /\ TypeOK /\ service \in Services /\ k \in 1..Length /\ Length \in Nat
      /\ \A j \in 1..(k - 1) : j \in 1..Length
  BY AloneFacts DEF Running
<1>2. \A j \in 1..Length : Task(j)' = Task(j)
  OBVIOUS
<1>3. CASE Task(k).step = "set" /\ WriteSettings
  <2>1. UNCHANGED <<service, mode, object, profile, shelf, initialized>> /\ setting'.ours
    BY <1>1, <1>3, SettingsWritten DEF WriteSettings
  <2>2. \A n : Done(n)' <=> Done(n)
    BY <2>1, DoneSame
  <2> QED BY <1>3, <2>1, <2>2 DEF Ordered
<1>4. CASE Task(k).step = "sync" /\ Sync
  <2>1. UNCHANGED <<service, mode, object, profile, setting, initialized>>
    BY <1>4 DEF Sync
  <2>2. \A n : Done(n)' <=> Done(n)
    BY <2>1, DoneSame
  <2>3. \A j \in 1..(k - 1) : Task(j).step # "enable"
    BY <1>1, <1>4, OrderBefore
  <2> QED BY <1>4, <2>1, <2>2, <2>3 DEF Ordered
<1>5. CASE Task(k).step = "enable" /\ Enable
  <2>1. UNCHANGED <<service, mode, object, profile, setting, initialized>> /\ shelf' = "on"
    BY <1>5 DEF Enable
  <2>2. \A n : Done(n)' <=> Done(n)
    BY <2>1, DoneSame
  <2> QED BY <1>5, <2>1, <2>2 DEF Ordered
<1>6. CASE Task(k).step = "write" /\ WriteObject(Task(k).name)
  <2>1. PICK n : n = Task(k).name
    OBVIOUS
  <2>2. n \in Declared
    BY <1>1, <1>6, <2>1, Order
  <2>3. /\ Done(n)'
        /\ \A m \in Declared : m # n /\ ~(service = "arr" /\ n = First) /\ Done(m) => Done(m)'
    BY <1>6, <2>1, WriteDone
  <2>4. UNCHANGED <<service, mode, setting, shelf, initialized>>
    BY <1>6 DEF WriteObject
  <2>5. ASSUME NEW j \in 1..(k - 1), Task(j).step = "write", Done(Task(j).name)
        PROVE  Done(Task(j).name)'
    <3>1. PICK m : m = Task(j).name
      OBVIOUS
    <3>2. m \in Declared
      BY <1>1, <2>5, <3>1, Order
    <3>3. m # n /\ ~(service = "arr" /\ n = First)
      BY <1>1, <1>6, <2>1, <2>5, <3>1, OrderBefore
    <3>4. Done(m)'
      BY <2>3, <2>5, <3>1, <3>2, <3>3
    <3> QED BY <2>4, <3>1, <3>4
  <2>6. Ordered(k)'
    <3>1. Done(Task(k).name)'
      BY <2>1, <2>3, <2>4
    <3> QED BY <1>6, <2>4, <3>1 DEF Ordered
  <2>7. ASSUME NEW j \in 1..(k - 1), Ordered(j) PROVE Ordered(j)'
    BY <2>4, <2>5, <2>7 DEF Ordered
  <2> QED BY <2>6, <2>7
<1>7. CASE Task(k).step = "initialize" /\ Initialize
  <2>1. UNCHANGED <<service, mode, object, profile, setting, shelf>> /\ initialized'
    BY <1>7 DEF Initialize
  <2>2. \A n : Done(n)' <=> Done(n)
    BY <2>1, DoneSame
  <2> QED BY <1>7, <2>1, <2>2 DEF Ordered
<1> QED BY <1>3, <1>4, <1>5, <1>6, <1>7 DEF Effect
\* A run never ends with a reading step.
LEMMA ReadsAreNotLast ==
  ASSUME service \in Services, NEW k \in 1..Length,
         Task(k).step \in {"public", "read", "list", "lookup"}
  PROVE  k < Length
BY ServarrProgram, BazarrProgram, SeerrProgram, ShelfProgram, TorrentProgram DEF Services

\* What the run read of the onboarding stays true: it is never reopened.
LEMMA SetupRead ==
  ASSUME TypeOK, [Next]_vars, setup => initialized
  PROVE  setup' => initialized'
<1>1. initialized' = initialized \/ initialized'
  <2>1. \A k : Effect(k) => initialized' = initialized \/ initialized'
    BY DEF Effect, WriteSettings, Sync, Enable, WriteObject, Replace, Initialize
  <2> QED
    BY <2>1 DEF Next, Job, Network, People, Start, ReadPublic, ReadSettings, List, Lookup, Write,
       Pass, Stop, BreakOff, Arrive, Vanish, EditSettings, EditProfile, Onboard, EditObject, app,
       vars
<1>2. setup' = setup \/ setup' = FALSE \/ (setup' = initialized /\ initialized' = initialized)
  <2>1. Forget => setup' = FALSE
    BY DEF Forget
  <2>2. Proceed => setup' = setup \/ setup' = FALSE
    BY <2>1 DEF Proceed, End, local
  <2> QED
    BY <2>1, <2>2 DEF Next, Job, Network, People, Start, ReadPublic, ReadSettings, List, Lookup,
       Write, Pass, Stop, BreakOff, Arrive, Vanish, EditSettings, EditProfile, Onboard, EditObject,
       Touch, End, app, local, vars
<1> QED BY <1>1, <1>2

Unlinked == service \in {"audiobookshelf", "qbittorrent"} => \A i \in Ids : object[i].link = 0

\* No write gives an object a reference where there are none.
LEMMA LinksWritten ==
  ASSUME TypeOK, Unlinked, NEW k \in 1..Length, Effect(k), service' = service
  PROVE  Unlinked'
<1> SUFFICES ASSUME service \in {"audiobookshelf", "qbittorrent"}, NEW i \in Ids
             PROVE  object'[i].link = 0
  BY DEF Unlinked
<1>1. object[i].link = 0 /\ object[i] \in Objects /\ object \in [Ids -> Objects]
  BY DEF Unlinked, TypeOK
<1>2. Task(k).step # "replace"
  BY Order DEF Services
<1>3. CASE object' = object
  BY <1>1, <1>3
<1>4. ASSUME NEW n, WriteObject(n) PROVE object'[i].link = 0
  <2>1. New(n).link = 0
    BY DEF New, LinkOf, Refers
  <2>2. CASE Create(n)
    BY <1>1, <2>1, <2>2 DEF Create
  <2>3. CASE Change(n)
    <3>1. Put(i) = [object[i] EXCEPT !.ours = TRUE]
      BY DEF Put
    <3>2. Put(i).link = 0
      BY <1>1, <3>1 DEF Objects
    <3> QED BY <1>1, <2>3, <3>2 DEF Change
  <2> QED BY <1>4, <2>2, <2>3 DEF WriteObject
<1> QED
  BY <1>2, <1>3, <1>4 DEF Effect, WriteSettings, Sync, Enable, Initialize

\* Nor do people.
LEMMA MadeUnlinked ==
  /\ Unborn.link = 0 /\ Gone.link = 0 /\ \A o \in Made : o.link = 0
  /\ \A o \in Made : [o EXCEPT !.kin = FALSE].link = 0
<1>1. Unborn \in Objects /\ Unborn.link = 0
  BY Blanks DEF Unborn
<1>2. Gone.link = 0
  BY <1>1 DEF Gone, Objects
<1> DEFINE As(o, name, ours) == [o EXCEPT !.name = name, !.ours = ours]
           Flat == {o \in Objects : o.link = 0}
<1>3. \A o \in Objects, name \in Names, ours \in BOOLEAN :
        As(o, name, ours) \in Objects /\ As(o, name, ours).link = o.link
  BY DEF Objects
<1>4. Made \subseteq Flat
  <2>1. ASSUME NEW name \in Declared \cup {"undeclared"}
        PROVE  As(Unborn, name, service = "qbittorrent" /\ name = Second) \in Flat
    <3>1. name \in Names
      BY DEF Names, Declared
    <3>2. (service = "qbittorrent" /\ name = Second) \in BOOLEAN
      OBVIOUS
    <3> HIDE DEF As
    <3> QED BY <1>1, <1>3, <3>1, <3>2
  <2> HIDE DEF Flat
  <2> QED BY <2>1, Zenon DEF Made
<1>5. \A o \in Objects : [o EXCEPT !.kin = FALSE].link = o.link
  BY DEF Objects
<1> QED BY <1>1, <1>2, <1>4, <1>5

LEMMA LinksKept ==
  ASSUME IInv, [Next]_vars, Unlinked
  PROVE  Unlinked'
<1>1. /\ TypeOK /\ ControlInv /\ at \in 0..Length /\ late \in 0..Length
  BY StepType DEF IInv
<1>2. service' = service
  BY DEF Next, Job, Network, People, Start, ReadPublic, ReadSettings, List, Lookup, Write,
       Pass, Stop, BreakOff, Arrive, Vanish, EditSettings, EditProfile, Onboard, EditObject,
       Touch, vars
<1>3. CASE object' = object
  BY <1>2, <1>3 DEF Unlinked
<1>4. CASE Write
  <2>1. at \in 1..Length /\ Effect(at)
    BY <1>1, <1>4 DEF Write, Writing
  <2> QED BY <1>1, <1>2, <2>1, LinksWritten
<1>5. CASE Arrive
  <2>1. late \in 1..Length /\ Effect(late)
    BY <1>1, <1>5 DEF Arrive
  <2> QED BY <1>1, <1>2, <2>1, LinksWritten
<1>6. ASSUME NEW i \in Ids, EditObject(i), service \in {"audiobookshelf", "qbittorrent"}
      PROVE  \A j \in Ids : object'[j].link = 0
  <2>1. object \in [Ids -> Objects] /\ \A j \in Ids : object[j].link = 0 /\ object[j] \in Objects
    BY <1>1, <1>6 DEF TypeOK, Unlinked
  <2>2. PICK o \in IF Exists(object[i])
                THEN {[object[i] EXCEPT !.ours = FALSE], [object[i] EXCEPT !.extra = 1 - @], Gone}
                ELSE Made : object' = [object EXCEPT ![i] = o]
    BY <1>6 DEF EditObject
  <2>3. Gone.link = 0 /\ \A m \in Made : m.link = 0
    BY MadeUnlinked
  <2>4. [object[i] EXCEPT !.ours = FALSE].link = 0 /\ [object[i] EXCEPT !.extra = 1 - @].link = 0
    BY <2>1 DEF Objects
  <2>5. o.link = 0
    BY <2>2, <2>3, <2>4
  <2> QED BY <2>1, <2>2, <2>5
<1>7. CASE \E i \in Ids : EditObject(i)
  BY <1>2, <1>6, <1>7 DEF Unlinked
<1> QED
  BY <1>3, <1>4, <1>5, <1>7 DEF Next, Job, Network, People, Start, ReadPublic, ReadSettings, List,
     Lookup, Pass, Stop, BreakOff, Vanish, EditSettings, EditProfile, Onboard, app, vars

\* Between runs there is nothing that anybody could have touched since.
LEMMA IdleUntouched ==
  ASSUME IInv, [Next]_vars, at = 0 /\ late = 0 => touched = {}
  PROVE  at' = 0 /\ late' = 0 => touched' = {}
<1>1. /\ TypeOK /\ at \in 0..Length /\ service \in Services
  BY StepType DEF IInv
<1>2. Forget => touched' = {}
  BY DEF Forget
<1>3. ASSUME at # 0, Task(at).step \in {"public", "read", "list", "lookup"}
      PROVE  After(at) # 0
  BY <1>1, <1>3, ReadsAreNotLast, AfterType
<1>4. CASE Start \/ ReadPublic \/ ReadSettings \/ List \/ Lookup
  BY <1>2, <1>3, <1>4 DEF Start, ReadPublic, ReadSettings, List, Lookup, Now, End
<1>5. CASE Write \/ Pass \/ Stop
  BY <1>2, <1>5 DEF Write, Pass, Stop, Proceed, End
<1>6. CASE BreakOff
  BY <1>2, <1>6 DEF BreakOff, End
<1>7. CASE Network
  BY <1>2, <1>7 DEF Network, Arrive, Vanish
<1>8. CASE People
  BY <1>8 DEF People, EditSettings, EditProfile, Onboard, EditObject, Touch
<1>9. CASE UNCHANGED vars
  BY <1>9 DEF vars
<1> QED BY <1>4, <1>5, <1>6, <1>7, <1>8, <1>9 DEF Next, Job

LEMMA OrderedUpTo ==
  ASSUME NEW k
  PROVE  /\ DoneUpTo(k) <=> \A j \in 1..(k - 1) : Ordered(j)
         /\ DoneUpTo(k)' <=> \A j \in 1..(k - 1) : Ordered(j)'
BY DEF DoneUpTo, Ordered

\* What the run knows and has done, if it is alone.
Informed ==
  at # 0 /\ alone =>
    /\ touched = {} /\ DoneUpTo(at)
    /\ mode = "managed" /\ LookedUp => found \in Targets

\* The step it did last has put its own in order, and has undone nothing.
LEMMA OneMore ==
  ASSUME NEW k \in Nat, k # 0, at = k, at' = k + 1, DoneUpTo(k), Ordered(k)',
         \A j \in 1..(k - 1) : Ordered(j) => Ordered(j)'
  PROVE  DoneUpTo(at)'
<1>1. \A j \in 1..(k - 1) : Ordered(j)'
  BY OrderedUpTo
<1>2. \A j \in 1..((k + 1) - 1) : Ordered(j)'
  BY <1>1
<1>3. DoneUpTo(k + 1)'
  BY <1>2, OrderedUpTo
<1> QED BY <1>3 DEF DoneUpTo

\* A step that changes nothing of the application.
LEMMA InformedIdle ==
  ASSUME Running, RunInv, alone, at' = at + 1, UNCHANGED <<service, mode, app>>, touched' = {},
         Ordered(at),
         IF Task(at).step = "lookup" THEN mode = "managed" => found' \in Targets
         ELSE found' = found
  PROVE  Informed'
<1>1. /\ DoneUpTo(at) /\ service \in Services /\ Length \in Nat
      /\ mode = "managed" /\ LookedUp => found \in Targets
  BY AloneFacts
<1>2. PICK k \in Nat : k = at /\ k # 0
  BY <1>1 DEF Running
<1>3. Ordered(k)' /\ \A j \in 1..(k - 1) : Ordered(j) => Ordered(j)'
  BY <1>2, OrderedSame
<1>4. DoneUpTo(at)'
  BY <1>1, <1>2, <1>3, OneMore
<1>5. mode = "managed" /\ LookedUp' => found' \in Targets
  BY <1>1, LookedUpBefore DEF Running
<1>6. Targets' = Targets
  BY DEF Targets, app
<1> QED BY <1>4, <1>5, <1>6 DEF Informed

\* A step that writes.
LEMMA InformedWrite ==
  ASSUME Running, RunInv, alone, at' = at + 1, at < Length, Writing, ~Stops(at), Wants(at),
         Effect(at), UNCHANGED <<service, mode>>, touched' = touched, found' = found
  PROVE  Informed'
<1>1. /\ DoneUpTo(at) /\ service \in Services /\ Length \in Nat /\ touched = {}
      /\ mode = "managed" /\ LookedUp => found \in Targets
  BY AloneFacts
<1>2. PICK k \in Nat : k = at /\ k # 0 /\ k \in 1..Length
  BY <1>1 DEF Running
<1>3. Task(k).step # "replace"
  BY <1>1, <1>2, Order, BazarrProgram
<1>4. Ordered(k)' /\ \A j \in 1..(k - 1) : Ordered(j) => Ordered(j)'
  BY <1>2, <1>3, WriteOrders
<1>5. DoneUpTo(at)'
  BY <1>1, <1>2, <1>4, OneMore
<1>6. mode = "managed" /\ LookedUp' => found' \in Targets'
  <2> SUFFICES ASSUME mode = "managed", LookedUp' PROVE found' \in Targets'
    OBVIOUS
  <2>1. Task(k).step # "write"
    <3>1. PICK l \in 1..k : \A m \in l..k : Task(m).step # "write"
      BY <1>2 DEF LookedUp
    <3> QED BY <1>2, <3>1
  <2>2. object' = object /\ profile' = profile
    BY <1>2, <1>3, <2>1 DEF Effect, WriteSettings, Sync, Enable, Initialize
  <2>3. Targets' = Targets
    BY <2>2 DEF Targets
  <2>4. LookedUp
    BY <1>2, LookedUpBefore DEF Running, Writing
  <2> QED BY <1>1, <2>3, <2>4
<1> QED BY <1>1, <1>5, <1>6 DEF Informed

LEMMA InformedStep ==
  ASSUME IInv, RunInv, [Next]_vars
  PROVE  Informed'
<1> SUFFICES ASSUME at' # 0, alone' PROVE Informed'
  BY DEF Informed
<1>1. /\ TypeOK /\ ControlInv /\ at \in 0..Length /\ late \in 0..Length /\ service \in Services
      /\ Length \in Nat
  BY StepType, Order DEF IInv
<1>2. at # 0 => Running
  BY <1>1 DEF Running
<1>3. at # 0 /\ alone => touched = {} /\ late = 0
  BY <1>2, AloneFacts
<1>4. \A k \in 1..Length : Task(k).step \in {"public", "read", "list", "lookup"} =>
        Ordered(k) /\ After(k) = k + 1
  BY <1>1, ReadsAreNotLast, AfterType DEF Ordered
<1>5. ~End
  BY DEF End
<1>6. CASE Start
  <2>1. at = 0 /\ late = 0 /\ at' = 1 /\ UNCHANGED touched
    BY <1>6 DEF Start
  <2>2. touched' = {}
    BY <2>1 DEF RunInv
  <2>3. DoneUpTo(at)' /\ ~LookedUp'
    BY <2>1 DEF DoneUpTo, LookedUp
  <2> QED BY <2>2, <2>3 DEF Informed
<1>7. CASE ReadPublic
  <2>1. /\ Running /\ alone /\ Task(at).step = "public" /\ at' = After(at) /\ touched' = touched
        /\ found' = found /\ UNCHANGED <<service, mode, app>>
    BY <1>2, <1>7 DEF ReadPublic, Now
  <2>2. at' = at + 1 /\ Ordered(at)
    BY <1>4, <2>1 DEF Running
  <2> QED BY <1>3, <2>1, <2>2, InformedIdle DEF Running
<1>8. CASE ReadSettings
  <2>1. /\ Running /\ alone /\ Task(at).step = "read" /\ at' = After(at) /\ touched' = touched \ {0}
        /\ found' = found /\ UNCHANGED <<service, mode, app>>
    BY <1>2, <1>5, <1>8 DEF ReadSettings, Now
  <2>2. at' = at + 1 /\ Ordered(at)
    BY <1>4, <2>1 DEF Running
  <2>3. touched' = {}
    BY <1>3, <2>1 DEF Running
  <2> QED BY <2>1, <2>2, <2>3, InformedIdle DEF Running
<1>9. CASE List
  <2>1. /\ Running /\ alone /\ Task(at).step = "list" /\ at' = After(at)
        /\ touched' = touched \ Ids
        /\ found' = found /\ UNCHANGED <<service, mode, app>>
    BY <1>2, <1>9 DEF List, Now
  <2>2. at' = at + 1 /\ Ordered(at)
    BY <1>4, <2>1 DEF Running
  <2>3. touched' = {}
    BY <1>3, <2>1 DEF Running
  <2> QED BY <2>1, <2>2, <2>3, InformedIdle DEF Running
<1>10. CASE Lookup
  <2>1. /\ Running /\ alone /\ Task(at).step = "lookup" /\ at' = After(at) /\ touched' = touched
        /\ UNCHANGED <<service, mode, app>> /\ ~Stops(at)
        /\ found' = IF Skipped(Task(at).name) THEN 0 ELSE CHOOSE i \in Targets : TRUE
    BY <1>2, <1>10 DEF Lookup, Now
  <2>2. at' = at + 1 /\ Ordered(at)
    BY <1>4, <2>1 DEF Running
  <2>3. mode = "managed" => found' \in Targets
    <3> SUFFICES ASSUME mode = "managed" PROVE found' \in Targets
      OBVIOUS
    <3>1. ~Skipped(Task(at).name)
      BY DEF Skipped
    <3>2. Cardinality(Targets) = 1
      BY <2>1, <3>1 DEF Stops
    <3>3. Targets # {}
      BY <3>2, FS_EmptySet
    <3> QED BY <2>1, <3>1, <3>3
  <2> QED BY <1>3, <2>1, <2>2, <2>3, InformedIdle DEF Running
<1>11. CASE Write \/ Pass
  <2>1. /\ Running /\ Writing /\ ~Stops(at) /\ Proceed /\ ~End /\ UNCHANGED <<service, mode>>
    BY <1>2, <1>5, <1>11 DEF Write, Pass, Writing
  <2>2. /\ at' = at + 1 /\ at < Length /\ UNCHANGED <<late, local, touched, alone>>
    BY <1>1, <2>1, AfterType DEF Proceed, Running
  <2>3. alone /\ touched' = touched /\ found' = found
    BY <2>2 DEF local
  <2>4. CASE Write
    BY <2>1, <2>2, <2>3, <2>4, InformedWrite DEF Write
  <2>5. CASE Pass
    <3>1. Ordered(at) /\ UNCHANGED <<service, mode, app>>
      BY <2>1, <2>3, <2>5, PassOrders DEF Pass
    <3>2. touched' = {} /\ Task(at).step # "lookup"
      BY <1>3, <2>1, <2>3 DEF Running, Writing
    <3> QED BY <2>1, <2>2, <2>3, <3>1, <3>2, InformedIdle
  <2> QED BY <1>11, <2>4, <2>5
<1>12. ~Stop /\ ~BreakOff
  BY <1>5 DEF Stop, BreakOff
<1>13. ~Network
  BY <1>1 DEF Network, Arrive, Vanish, ControlInv
<1>14. ~People
  <2>1. People => at' = at /\ alone' = (alone /\ at = 0)
    BY DEF People, EditSettings, EditProfile, Onboard, EditObject, Touch
  <2> QED BY <2>1
<1>15. CASE UNCHANGED vars
  <2>1. Informed
    BY DEF RunInv, Informed
  <2>2. UNCHANGED <<service, mode, app, at, alone, touched, found>>
    BY <1>15 DEF vars, local
  <2>3. DoneUpTo(at)' = DoneUpTo(at)
    BY <2>2 DEF DoneUpTo, Done, Bearing, Refers, Targets, app
  <2>4. LookedUp' = LookedUp /\ Targets' = Targets
    BY <2>2 DEF LookedUp, Targets, app
  <2> QED BY <2>1, <2>2, <2>3, <2>4 DEF Informed
<1> QED
  BY <1>6, <1>7, <1>8, <1>9, <1>10, <1>11, <1>12, <1>13, <1>14, <1>15 DEF Next, Job

LEMMA RunStep ==
  ASSUME IInv, RunInv, [Next]_vars
  PROVE  RunInv'
<1>1. TypeOK
  BY DEF IInv
<1>2. Informed'
  BY InformedStep
<1>3. at' = 0 /\ late' = 0 => touched' = {}
  BY IdleUntouched DEF RunInv
<1>4. setup' => initialized'
  BY <1>1, SetupRead DEF RunInv
<1>5. Unlinked'
  BY LinksKept DEF RunInv, Unlinked
<1> QED BY <1>2, <1>3, <1>4, <1>5 DEF RunInv, Informed, Unlinked

LEMMA RunInit == Init => RunInv
<1> SUFFICES ASSUME Init PROVE RunInv
  OBVIOUS
<1>1. at = 0 /\ late = 0 /\ touched = {} /\ setup = FALSE /\ object \in Found
  BY DEF Init
<1>2. \A i \in Ids : object[i].link = 0
  <2> DEFINE Either == {Unborn} \cup Made \cup {[o EXCEPT !.kin = FALSE] : o \in Made}
  <2>1. PICK o \in Either, p \in Either : object = [NoList EXCEPT ![1] = o, ![2] = p]
    BY <1>1 DEF Found
  <2>2. \A e \in Either : e.link = 0
    BY MadeUnlinked
  <2> HIDE DEF Either
  <2>3. \A i \in Ids : object[i] \in {o, p, Unborn}
    BY <2>1 DEF NoList
  <2> QED BY <2>2, <2>3, MadeUnlinked
<1> QED BY <1>1, <1>2 DEF RunInv

---------------------------------------------------------------------------
(* The last step. *)

\* A set with no two members counts at most one.
LEMMA NoTwo ==
  ASSUME NEW S, \A i, j \in S : i = j
  PROVE  ~(Cardinality(S) > 1)
<1>1. CASE S = {}
  BY <1>1, FS_EmptySet
<1>2. CASE S # {}
  <2>1. PICK i : S = {i}
    BY <1>2
  <2>2. Cardinality(S) = 1
    BY <2>1, FS_Singleton
  <2> QED BY <2>2
<1> QED BY <1>1, <1>2

\* What has to be in order for the application to be as declared.
LEMMA DoneEnough ==
  ASSUME TypeOK', \A n \in Declared : Done(n)',
         mode' = "managed" /\ service' \notin {"audiobookshelf", "qbittorrent"} => setting'.ours,
         mode' = "managed" /\ service' = "bazarr" => setting'.link \in Bearing(First)',
         mode' = "managed" /\ service' = "seerr" => shelf' = "on",
         service' \in {"seerr", "audiobookshelf"} => initialized'
  PROVE  AsDeclared' /\ (mode' = "managed" => ~Blocked')
<1>1. AsDeclared'
  <2>1. ASSUME NEW n \in Declared
        PROVE  \E i \in Bearing(n)' : mode' = "managed" =>
                 object'[i].ours /\ object'[i].link \in IF Refers(n)' THEN Targets' ELSE {0}
    BY DEF Done
  <2> QED BY <2>1 DEF AsDeclared
<1>2. ASSUME mode' = "managed" PROVE ~Blocked'
  <2>1. \A n \in Declared : ~(Cardinality(Bearing(n)') > 1)
    BY NoTwo DEF Done
  <2>2. ASSUME NEW i \in Ids, object'[i].name \in Declared PROVE object'[i].kin
    <3>1. PICK n \in Declared : object'[i].name = n
      BY <2>2
    <3>2. i \in Bearing(n)'
      BY <3>1 DEF Bearing
    <3> QED BY <1>2, <3>2 DEF Done
  <2>3. service' = "seerr" => profile' # 0
    <3> SUFFICES ASSUME service' = "seerr" PROVE profile' # 0
      OBVIOUS
    <3>1. PICK i \in Bearing(First)' : object'[i].link \in IF Refers(First)' THEN Targets' ELSE {0}
      BY <1>2 DEF Done, Declared
    <3>2. Refers(First)' /\ Targets' = {profile'} \ {0}
      BY DEF Refers, Targets
    <3> QED BY <3>1, <3>2
  <2> QED BY <1>2, <2>1, <2>2, <2>3 DEF Blocked
<1> QED BY <1>1, <1>2

\* All there is to put in order, but for Bazarr, are steps of the programs.
LEMMA OrderedEnough ==
  ASSUME TypeOK', service \in Services, service # "bazarr", UNCHANGED <<service, mode>>,
         \A j \in 1..Length : Ordered(j)'
  PROVE  AsDeclared' /\ (mode' = "managed" => ~Blocked')
<1>1. \A j \in 1..Length :
        /\ Task(j).step = "write" => Done(Task(j).name)'
        /\ Task(j).step = "set" /\ mode = "managed" => setting'.ours
        /\ Task(j).step = "enable" /\ mode = "managed" => shelf' = "on"
        /\ Task(j).step = "initialize" => initialized'
  BY DEF Ordered
<1>2. /\ Done(First)' /\ Done(Second)'
      /\ mode = "managed" /\ service \notin {"audiobookshelf", "qbittorrent"} => setting'.ours
      /\ mode = "managed" /\ service = "seerr" => shelf' = "on"
      /\ service \in {"seerr", "audiobookshelf"} => initialized'
  <2>1. CASE service = "arr"
    <3>1. 2 \in 1..Length /\ 4 \in 1..Length /\ 7 \in 1..Length
      BY <2>1, ServarrProgram
    <3>2. Done(Task(4).name)' /\ Done(Task(7).name)' /\ (mode = "managed" => setting'.ours)
      BY <1>1, <2>1, <3>1, ServarrProgram
    <3> QED BY <2>1, <3>2, ServarrProgram
  <2>2. CASE service = "seerr"
    <3>1. /\ 3 \in 1..Length /\ 6 \in 1..Length /\ 8 \in 1..Length /\ 10 \in 1..Length
          /\ 11 \in 1..Length
      BY <2>2, SeerrProgram
    <3>2. /\ Done(Task(6).name)' /\ Done(Task(8).name)' /\ (mode = "managed" => setting'.ours)
          /\ (mode = "managed" => shelf' = "on") /\ initialized'
      BY <1>1, <2>2, <3>1, SeerrProgram
    <3> QED BY <2>2, <3>2, SeerrProgram
  <2>3. CASE service = "audiobookshelf"
    <3>1. 2 \in 1..Length /\ 4 \in 1..Length /\ 5 \in 1..Length
      BY <2>3, ShelfProgram
    <3>2. Done(Task(4).name)' /\ Done(Task(5).name)' /\ initialized'
      BY <1>1, <2>3, <3>1, ShelfProgram
    <3> QED BY <2>3, <3>2, ShelfProgram
  <2>4. CASE service = "qbittorrent"
    <3>1. 2 \in 1..Length /\ 4 \in 1..Length
      BY <2>4, TorrentProgram
    <3>2. Done(Task(2).name)' /\ Done(Task(4).name)'
      BY <1>1, <2>4, <3>1, TorrentProgram
    <3> QED BY <2>4, <3>2, TorrentProgram
  <2> QED BY <2>1, <2>2, <2>3, <2>4 DEF Services
<1> QED BY <1>2, DoneEnough DEF Declared

\* Bazarr's ids are given above all that it has.
LEMMA TopMost ==
  ASSUME NEW i \in Ids, Exists(listed[i])
  PROVE  Top \in Ids /\ i <= Top
<1> DEFINE S == {j \in Ids : Exists(listed[j])}
<1>1. \E t \in Ids : Exists(listed[t]) /\ \A j \in Ids : Exists(listed[j]) => j <= t
  <2>1. S # {}
    OBVIOUS
  <2>2. \E t \in S : \A j \in S : j <= t
    BY <2>1, Maximum
  <2> QED BY <2>2
<1>2. Top = CHOOSE t \in Ids : Exists(listed[t]) /\ \A j \in Ids : Exists(listed[j]) => j <= t
  BY DEF Top
<1> QED BY <1>1, <1>2

\* The collection that Bazarr is sent has one profile of each declared name.
LEMMA MergedNamed ==
  ASSUME TypeOK, service = "bazarr", mode = "managed", \A m \in Declared : ~Refused(m),
         NEW n \in Declared, Given(n) \in Ids
  PROVE  /\ Merged[Given(n)].name = n /\ Merged[Given(n)].ours /\ Merged[Given(n)].kin
         /\ Merged[Given(n)].link = 0
         /\ \A i \in Ids \ {Given(n)} : Merged[i].name # n
<1>1. \A m : LinkOf(m) = 0
  BY DEF LinkOf, Refers
<1>2. ASSUME NEW m \in Declared
      PROVE  /\ New(m).name = m /\ New(m).ours /\ New(m).kin /\ New(m).link = 0
  BY <1>1 DEF New
<1> DEFINE Kept(i) == Desired(i).name = listed[i].name /\ Desired(i).kin = listed[i].kin
<1>0. ASSUME NEW i \in Ids PROVE Kept(i) /\ Desired(i).ours
  <2>1. listed[i] \in Objects
    BY DEF TypeOK
  <2> QED BY <2>1 DEF Desired, Objects
<1>3. CASE Bearers(n) # {}
  <2>1. PICK b \in Ids : b = Given(n) /\ b \in Bearers(n) /\ listed[b].name = n
    BY <1>3, GivenType DEF Bearers
  <2>2. listed[b].kin /\ \A i \in Bearers(n) : i = b
    BY <2>1 DEF Refused
  <2>3. Merged[b] = Desired(b)
    BY <2>1 DEF Merged, Declared
  <2>4. Desired(b).link = 0
    <3>1. listed[b] \in Objects
      BY DEF TypeOK
    <3> QED BY <1>1, <3>1 DEF Desired, Objects
  <2>5. ASSUME NEW i \in Ids \ {b}, Merged[i].name = n PROVE FALSE
    <3>1. listed[i].name # n
      BY <2>2, <2>5 DEF Bearers
    <3>2. Desired(i).name = listed[i].name
      BY <1>0
    <3>3. \A m \in Declared : Bearers(m) = {} => New(m).name # n
      BY <1>2, <1>3
    <3>4. Merged[i] = Desired(i) \/ Merged[i] = listed[i]
            \/ \E m \in Declared : Bearers(m) = {} /\ Merged[i] = New(m)
      BY MergedObject
    <3> QED BY <2>5, <3>1, <3>2, <3>3, <3>4
  <2> QED BY <1>0, <2>1, <2>2, <2>3, <2>4, <2>5
<1>4. CASE Bearers(n) = {}
  <2>1. PICK b \in Ids : b = Given(n)
    OBVIOUS
  <2>2. Top \in Int /\ b \in {Top + 1, Top + 2}
    BY <1>4, <2>1, TopType DEF Given
  <2>3. ~Exists(listed[b])
    BY <2>2, TopMost
  <2>4. \A m \in Declared : b \notin Bearers(m)
    BY <2>3 DEF Bearers, Exists, Declared, First, Second
  <2>5. ASSUME NEW m \in Declared, m # n PROVE Given(m) # b
    <3>1. CASE Bearers(m) # {}
      BY <2>4, <3>1, GivenType
    <3>2. CASE Bearers(m) = {}
      BY <1>4, <2>1, <2>2, <2>5, <3>2 DEF Given, Declared, First, Second
    <3> QED BY <3>1, <3>2
  <2>6. Merged[b] = New(n)
    <3>1. n = CHOOSE m \in Declared : b = Given(m)
      BY <2>1, <2>5
    <3>2. Merged[b] = New(CHOOSE m \in Declared : b = Given(m))
      BY <2>1, <2>3, <2>4 DEF Merged, Declared
    <3> QED BY <3>1, <3>2
  <2>7. ASSUME NEW i \in Ids \ {b}, Merged[i].name = n PROVE FALSE
    <3>1. listed[i].name # n
      BY <1>4 DEF Bearers
    <3>2. Desired(i).name = listed[i].name
      BY <1>0
    <3>3. CASE i \in Bearers(First) \cup Bearers(Second)
      <4>1. Merged[i] = Desired(i)
        BY <3>3 DEF Merged
      <4> QED BY <2>7, <3>1, <3>2, <4>1
    <3>4. CASE /\ i \notin Bearers(First) \cup Bearers(Second)
               /\ ~Exists(listed[i]) /\ \E m \in Declared : i = Given(m)
      <4>1. PICK m \in Declared : m = CHOOSE x \in Declared : i = Given(x)
        BY <3>4
      <4>2. i = Given(m)
        BY <3>4, <4>1
      <4>3. Merged[i] = New(m)
        BY <3>4, <4>1 DEF Merged
      <4>4. m # n
        BY <2>1, <2>7, <4>2
      <4> QED BY <1>2, <2>7, <4>3, <4>4
    <3>5. CASE /\ i \notin Bearers(First) \cup Bearers(Second)
               /\ ~(~Exists(listed[i]) /\ \E m \in Declared : i = Given(m))
      <4>1. Merged[i] = listed[i]
        BY <3>5 DEF Merged
      <4> QED BY <2>7, <3>1, <4>1
    <3> QED BY <3>3, <3>4, <3>5
  <2> QED BY <1>2, <2>1, <2>6, <2>7
<1> QED BY <1>3, <1>4

\* What Bazarr has after its run's last step.
LEMMA ReplaceDone ==
  ASSUME Running, RunInv, alone, Task(at).step = "replace", ~Stops(at), UNCHANGED <<service, mode>>,
         TypeOK', Replace \/ (~Wants(at) /\ UNCHANGED <<object, setting>>)
  PROVE  AsDeclared' /\ (mode' = "managed" => ~Blocked')
<1>1. /\ TypeOK /\ touched = {} /\ late = 0 /\ Step = at /\ at \in 1..Length
      /\ service \in Services /\ mode \in {"managed", "bootstrap"}
  BY AloneFacts DEF Running
<1>2. service = "bazarr" /\ at = 3
  BY <1>1, Order
<1>3. mode = "managed"
  BY <1>1, <1>2 DEF Running, IInv, ControlInv
<1>4. listed = object
  <2>1. \A i \in Ids : listed[i] = object[i]
    BY <1>1 DEF Running, IInv, ListInv
  <2>2. listed = [i \in Ids |-> listed[i]] /\ object = [i \in Ids |-> object[i]]
    BY <1>1 DEF TypeOK
  <2> QED BY <2>1, <2>2
<1>5. read = setting
  BY <1>1, <1>2 DEF Running, IInv, ReadInv
<1>6. \A m \in Declared : ~Refused(m)
  BY DEF Stops
<1>7. /\ \A m \in Declared : Given(m) \in Ids
      /\ \A i \in Ids : /\ Exists(Merged[i]) => object'[i] = Merged[i]
                        /\ ~Exists(Merged[i]) => ~Exists(object'[i])
      /\ setting'.ours /\ setting'.link = Given(First)
  <2>1. CASE Replace
    <3>1. \A m \in Declared : Given(m) \in Ids
      BY <2>1 DEF Replace
    <3>2. ASSUME NEW i \in Ids
          PROVE  /\ Exists(Merged[i]) => object'[i] = Merged[i]
                 /\ ~Exists(Merged[i]) => ~Exists(object'[i])
      <4>1. CASE Merged = listed
        <5>1. object' = object
          BY <2>1, <4>1 DEF Replace
        <5> QED BY <1>4, <4>1, <5>1
      <4>2. CASE Merged # listed
        <5>1. object'[i] = IF Exists(Merged[i]) THEN Merged[i]
                           ELSE IF Exists(object[i]) THEN Gone ELSE object[i]
          BY <2>1, <4>2 DEF Replace
        <5> QED BY <5>1, Blanks
      <4> QED BY <4>1, <4>2
    <3>3. setting'.ours /\ setting'.link = Given(First)
      <4>1. setting \in Settings
        BY <1>1 DEF TypeOK
      <4>2. setting' =
              [setting EXCEPT
                 !.ours = setting.ours \/ ~read.ours,
                 !.link = IF read.link # Given(First) THEN Given(First) ELSE setting.link]
        BY <2>1 DEF Replace
      <4>3. /\ setting'.ours = (setting.ours \/ ~read.ours)
            /\ setting'.link = IF read.link # Given(First) THEN Given(First) ELSE setting.link
        BY <4>1, <4>2 DEF Settings
      <4> QED BY <1>5, <4>3
    <3> QED BY <3>1, <3>2, <3>3
  <2>2. CASE ~Wants(at) /\ UNCHANGED <<object, setting>>
    <3>1. /\ Bearers(First) # {} /\ Bearers(Second) # {} /\ Merged = listed
          /\ read.ours /\ read.link = Given(First)
      BY <2>2 DEF Wants
    <3>2. \A m \in Declared : Given(m) \in Ids
      BY <3>1, GivenType DEF Declared, Bearers
    <3> QED BY <1>4, <1>5, <2>2, <3>1, <3>2
  <2> QED BY <2>1, <2>2
<1>8. ASSUME NEW n \in Declared
      PROVE  /\ Bearing(n)' = {Given(n)} /\ object'[Given(n)].ours /\ object'[Given(n)].kin
             /\ object'[Given(n)].link = 0
  <2>1. PICK b \in Ids : b = Given(n)
    BY <1>7
  <2>2. /\ Merged[b].name = n /\ Merged[b].ours /\ Merged[b].kin /\ Merged[b].link = 0
        /\ \A i \in Ids \ {b} : Merged[i].name # n
    BY <1>1, <1>2, <1>3, <1>6, <2>1, MergedNamed
  <2>3. object'[b] = Merged[b]
    BY <1>7, <2>2 DEF Exists, Declared, First, Second
  <2>4. \A i \in Ids \ {b} : object'[i].name # n
    BY <1>7, <2>2 DEF Exists, Declared, First, Second
  <2> QED BY <2>1, <2>2, <2>3, <2>4 DEF Bearing
<1>9. ASSUME NEW n \in Declared PROVE Done(n)'
  <2>1. ~Refers(n)'
    BY <1>2 DEF Refers
  <2> QED BY <1>8, <2>1 DEF Done
<1>10. setting'.ours /\ setting'.link \in Bearing(First)'
  BY <1>7, <1>8 DEF Declared
<1> QED BY <1>2, <1>9, <1>10, DoneEnough

LEMMA RunSettlesStep ==
  ASSUME IInv, RunInv, [Next]_vars, Finishes, alone
  PROVE  AsDeclared' /\ (mode' = "managed" => ~Blocked')
<1>1. /\ TypeOK' /\ at \in 0..Length
  BY TypeKept, StepType DEF IInv
<1>2. /\ Writing /\ ~Stops(at) /\ After(at) = 0 /\ UNCHANGED <<service, mode>>
      /\ (Wants(at) /\ Effect(at)) \/ (~Wants(at) /\ UNCHANGED app)
  BY DEF Finishes, Write, Pass
<1>3. Running
  BY <1>1, <1>2 DEF Running, Writing
<1>4. /\ service \in Services /\ Length \in Nat /\ DoneUpTo(at) /\ at = Length /\ at \in 1..Length
  BY <1>2, <1>3, AloneFacts, AfterType DEF Running
<1>5. CASE Task(at).step = "replace"
  <2>1. Wants(at) /\ Effect(at) => Replace
    BY <1>5 DEF Effect
  <2>2. Replace \/ (~Wants(at) /\ UNCHANGED <<object, setting>>)
    BY <1>2, <2>1 DEF app
  <2> QED BY <1>1, <1>2, <1>3, <1>5, <2>2, ReplaceDone
<1>6. CASE Task(at).step # "replace"
  <2>1. service # "bazarr"
    BY <1>4, <1>6, BazarrProgram
  <2>2. PICK k \in Nat : k = at /\ k # 0
    BY <1>4
  <2>3. \A j \in 1..(k - 1) : Ordered(j)
    BY <1>4, <2>2, OrderedUpTo
  <2>4. Ordered(k)' /\ \A j \in 1..(k - 1) : Ordered(j)'
    <3>1. CASE Wants(at) /\ Effect(at)
      BY <1>2, <1>3, <1>6, <2>2, <2>3, <3>1, WriteOrders
    <3>2. CASE ~Wants(at) /\ UNCHANGED app
      <4>1. Ordered(k)
        BY <1>2, <1>3, <2>2, <3>2, PassOrders
      <4> QED BY <1>2, <2>3, <3>2, <4>1, OrderedSame
    <3> QED BY <1>2, <3>1, <3>2
  <2>5. \A j \in 1..Length : Ordered(j)'
    BY <1>4, <2>2, <2>4
  <2> QED BY <1>1, <1>2, <1>4, <2>1, <2>5, OrderedEnough
<1> QED BY <1>5, <1>6

\* A run that nobody interferes with leaves the application as it is declared,
\* whatever runs before it left half done, and no later run writes to it again
\* until people change something: it takes one run, of any adapter and for any
\* number of objects.
THEOREM Idempotence == Spec => Idempotent
<1>1. IInv /\ RunInv /\ [Next]_vars =>
        [Finishes /\ alone => AsDeclared' /\ (mode = "managed" => ~Blocked')]_vars
  <2> SUFFICES ASSUME IInv, RunInv, [Next]_vars, Finishes, alone
               PROVE  AsDeclared' /\ (mode = "managed" => ~Blocked')
    OBVIOUS
  <2>1. mode' = mode
    BY DEF Finishes, Write, Pass
  <2> QED BY <2>1, RunSettlesStep
<1>2. IInv /\ RunInv /\ [Next]_vars => RunInv'
  BY RunStep
<1> QED
  BY <1>1, <1>2, RunInit, Safety, SettledStays, PTL DEF Spec, Idempotent, RunSettles
=============================================================================
