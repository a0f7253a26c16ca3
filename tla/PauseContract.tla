-------------------------- MODULE PauseContract --------------------------
(***************************************************************************)
(* What the people who use the downloaders may take for granted of the     *)
(* storage pressure guard (docs/operations.md:169 and :178-185): it stops  *)
(* only under pressure and starts only without, with the two marks between *)
(* them; it starts nothing of which it is unsure or that people stopped    *)
(* while it was at rest; and what it holds and recorded it never forgets.  *)
(* Nothing is said of requests, answers, clients or files.                 *)
(***************************************************************************)
EXTENDS Naturals

CONSTANT Items   \* the torrents and the queue

VARIABLES
  standing,   \* of each item: "running", "held" by the guard, "kept" (the guard
              \* has no right to start it) or "unclear" (nothing tells whose)
  pressed,    \* the guard's mode
  saved,      \* the mode it recorded last
  owned,      \* the items it recorded last as its own
  resting,    \* no run is under way
  space,      \* "short", "between" the marks or "ample"
  moves       \* how often people and applications have changed the queues

contract == <<standing, pressed, saved, owned, resting, space, moves>>

Stopped == {"held", "kept", "unclear"}

Init ==
  /\ standing = [i \in Items |-> "running"]
  /\ pressed = FALSE /\ saved = FALSE /\ owned = {} /\ resting = TRUE
  /\ space \in {"short", "between", "ample"} /\ moves = 0

\* A run begins with a measurement; between the marks the mode stays.
Look ==
  /\ resting /\ resting' = FALSE
  /\ pressed' = CASE space = "short" -> TRUE [] space = "ample" -> FALSE [] OTHER -> saved
  /\ UNCHANGED <<standing, saved, owned, space, moves>>

Hold ==
  /\ ~resting /\ pressed
  /\ standing' \in [Items -> {"running"} \cup Stopped]
  /\ \A i \in Items : standing[i] # "running" => standing'[i] = standing[i]
  /\ \A i \in Items : standing'[i] = "kept" => i \notin owned
  /\ UNCHANGED <<pressed, saved, owned, resting, space, moves>>

Release(some) ==
  /\ ~resting /\ ~pressed
  /\ \A i \in some : standing[i] # "kept"
  /\ standing' = [i \in Items |-> IF i \in some THEN "running" ELSE standing[i]]
  /\ UNCHANGED <<pressed, saved, owned, resting, space, moves>>

\* Everything held is recorded, nothing kept is.
Save(own) ==
  /\ ~resting
  /\ \A i \in Items : standing[i] = "held" => i \in own
  /\ \A i \in Items : standing[i] = "kept" => i \notin own
  /\ owned' = own /\ saved' = pressed
  /\ resting' \in BOOLEAN
  /\ UNCHANGED <<standing, pressed, space, moves>>

Rest ==
  /\ ~resting /\ resting' = TRUE
  /\ pressed = saved /\ \A i \in Items : standing[i] = "held" => i \in owned
  /\ UNCHANGED <<standing, pressed, saved, owned, space, moves>>

\* A run that is killed forgets what it did not record.
Kill ==
  /\ ~resting /\ resting' = TRUE
  /\ standing' = [i \in Items |->
       IF standing[i] = "held" /\ i \notin owned THEN "kept" ELSE standing[i]]
  /\ pressed' = saved
  /\ UNCHANGED <<saved, owned, space, moves>>

\* People stop an item; at rest, and unless the guard owns it, for good.
Stop(i) ==
  /\ standing[i] = "running"
  /\ standing' = [standing EXCEPT ![i] = IF resting /\ i \notin owned THEN "kept" ELSE "unclear"]

Start(i) == standing' = [standing EXCEPT ![i] = "running"]

\* What the downloader does with a torrent can hide whose stop it was.
Blur(i) ==
  standing' = [standing EXCEPT ![i] = IF @ = "held" THEN "unclear" ELSE @]

Others ==
  /\ moves' = moves + 1
  /\ standing' = standing \/ \E i \in Items : Stop(i) \/ Start(i) \/ Blur(i)
  /\ UNCHANGED <<pressed, saved, owned, resting, space>>

Disk ==
  /\ space' \in {"short", "between", "ample"}
  /\ UNCHANGED <<standing, pressed, saved, owned, resting, moves>>

Next ==
  \/ Look \/ Hold \/ Rest \/ Kill \/ Others \/ Disk
  \/ \E some \in SUBSET Items : Release(some) \/ Save(some)

Spec == Init /\ [][Next]_contract

\* What the contract comes to between runs: the guard owns what it holds, and
\* nothing it has no right to.
Safe ==
  /\ resting => \A i \in Items : standing[i] = "held" => i \in owned
  /\ \A i \in Items : standing[i] = "kept" => i \notin owned
==========================================================================
