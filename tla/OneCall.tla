------------------------------ MODULE OneCall ------------------------------
(***************************************************************************)
(* What an adapter may take for granted of the calls it makes to an        *)
(* application, whatever the network does: a write happens at most once, a *)
(* write reported as done has happened, one reported as failed may have    *)
(* happened or may still, and what a read returns was true at some moment  *)
(* of the call.  Nothing is said of attempts, pauses or connections: this  *)
(* is the contract of Client.request of src/scripts/integration/common.py. *)
(***************************************************************************)
EXTENDS Naturals

CONSTANT MaxCalls   \* bound: calls of one run
Calls == 1..MaxCalls

VARIABLES
  status,    \* of each call: "new", "open", "done" or "failed"
  writes,    \* the calls that are meant to change the application
  effects,   \* how often each call has changed it
  version,   \* how often anything has changed it
  since,     \* its version when the last call was opened
  seen       \* its version as the last read that ended well reported it

contract == <<status, writes, effects, version, since, seen>>

Init ==
  /\ status = [c \in Calls |-> "new"] /\ writes = {}
  /\ effects = [c \in Calls |-> 0]
  /\ version = 0 /\ since = 0 /\ seen = 0

\* The calls of a run follow one another.
Open(c) ==
  /\ status[c] = "new" /\ \A d \in Calls : status[d] # "open"
  /\ status' = [status EXCEPT ![c] = "open"]
  /\ writes' \in {writes, writes \cup {c}}
  /\ since' = version
  /\ UNCHANGED <<effects, version, seen>>

Happen(c) ==
  /\ c \in writes /\ status[c] \in {"open", "failed"} /\ effects[c] = 0
  /\ effects' = [effects EXCEPT ![c] = 1]
  /\ version' = version + 1
  /\ UNCHANGED <<status, writes, since, seen>>

Written(c) ==
  /\ c \in writes /\ status[c] = "open" /\ effects[c] = 1
  /\ status' = [status EXCEPT ![c] = "done"]
  /\ UNCHANGED <<writes, effects, version, since, seen>>

Read(c) ==
  /\ c \notin writes /\ status[c] = "open"
  /\ status' = [status EXCEPT ![c] = "done"]
  /\ seen' \in since..version
  /\ UNCHANGED <<writes, effects, version, since>>

Fail(c) ==
  /\ status[c] = "open"
  /\ status' = [status EXCEPT ![c] = "failed"]
  /\ UNCHANGED <<writes, effects, version, since, seen>>

Others ==
  /\ version' = version + 1
  /\ UNCHANGED <<status, writes, effects, since, seen>>

Next ==
  Others \/ \E c \in Calls : Open(c) \/ Happen(c) \/ Written(c) \/ Read(c) \/ Fail(c)

Spec == Init /\ [][Next]_contract

\* What the contract comes to: no call changes the application twice or before
\* it is made, a read never does, a write that is reported as done has, and
\* nobody is told of a version that is yet to come.
Safe ==
  /\ \A c \in Calls :
       /\ effects[c] \in 0..1
       /\ status[c] = "new" \/ c \notin writes => effects[c] = 0
       /\ status[c] = "done" /\ c \in writes => effects[c] = 1
  /\ since <= version /\ seen <= version
============================================================================
