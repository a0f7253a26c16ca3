----------------------------- MODULE Transport -----------------------------
(***************************************************************************)
(* One run of an integration job as the network sees it: the readiness     *)
(* wait and the requests of src/scripts/integration/common.py, called by   *)
(* main of reconcile.py, inside a unit that has StartLimit seconds.  Reads *)
(* are attempted four times, writes once, and an attempt that the program  *)
(* has given up may still reach the application.                           *)
(***************************************************************************)
EXTENDS Naturals

CONSTANTS
  MaxCalls,     \* bound: calls of one run after the readiness wait
  MaxChanges,   \* bound: changes of the application by others
  Deadline,     \* seconds after which wait_ready gives up
  Nap,          \* seconds between two of its requests
  StartLimit,   \* TimeoutStartSec of the unit, in seconds
  Durations     \* what an attempt may last, in seconds: nothing in the code bounds it

\* The pauses between four attempts add up to 1 + 2 + 4 seconds.
Pauses == 1 + 2 + 4

\* The deadline is looked at only after four attempts: what each of them may
\* last for the wait to end by itself within the start limit.
Room == (StartLimit - (Deadline + Nap + Pauses)) \div 4

ASSUME TimesAssumption ==
  /\ Deadline \in Nat /\ Nap \in Nat \ {0} /\ StartLimit \in Nat
  /\ Deadline + Nap + Pauses <= StartLimit
ASSUME DurationsAssumption == Durations \subseteq Nat
ASSUME BoundsAssumption == MaxCalls \in Nat /\ MaxChanges \in Nat

VARIABLES
  status, writes, effects, version, since, seen,   \* as in OneCall
  phase,     \* of the run: "waiting" for the application, "working", "over"
  now,       \* the number of calls made
  sent,      \* an attempt is under way
  attempt,   \* its number, from 0
  reply,     \* what the application answered it: nothing yet, or its version
  pending,   \* of each write: attempts on their way to the application
  clock,     \* seconds from the beginning of the readiness wait, while it lasts,
             \* to the end of the attempt or of the nap under way
  slow,      \* history: an attempt of the wait has lasted longer than Room
  changes    \* how much of the bound is used

contract == <<status, writes, effects, version, since, seen>>
program == <<phase, now, sent, attempt, reply>>
timer == <<clock, slow>>
vars == <<contract, program, pending, timer, changes>>

Promise == INSTANCE OneCall
Calls == 1..MaxCalls
NoReply == [given |-> FALSE, version |-> 0]
Reply(v) == [given |-> TRUE, version |-> v]

\* Seconds after StartLimit are all alike.
Elapse(seconds) == IF clock + seconds > StartLimit THEN StartLimit ELSE clock + seconds

TypeOK ==
  /\ status \in [Calls -> {"new", "open", "done", "failed"}]
  /\ writes \in SUBSET Calls /\ effects \in [Calls -> Nat]
  /\ version \in Nat /\ since \in Nat /\ seen \in Nat
  /\ phase \in {"waiting", "working", "over"}
  /\ now \in 0..MaxCalls
  /\ sent \in BOOLEAN /\ attempt \in 0..3
  /\ reply \in [given : BOOLEAN, version : Nat]
  /\ pending \in [Calls -> Nat]
  /\ clock \in 0..StartLimit /\ slow \in BOOLEAN /\ changes \in 0..MaxChanges

Init ==
  /\ Promise!Init
  /\ phase = "waiting" /\ now = 0 /\ sent = FALSE /\ attempt = 0 /\ reply = NoReply
  /\ pending = [c \in Calls |-> 0] /\ clock = 0 /\ slow = FALSE /\ changes = 0

Writing == phase = "working" /\ now \in writes

---------------------------------------------------------------------------
(* Client.request. *)

\* Variant: whatever fails is tried again.
AttemptsAlike == 4

\* How often a request is sent at most: only reads are repeated.
Attempts == IF Writing THEN 1 ELSE 4

\* 2^number seconds.
Pause(number) == IF number = 0 THEN 1 ELSE IF number = 1 THEN 2 ELSE 4

\* An attempt leaves the program.
Launch(number) ==
  /\ sent' = TRUE /\ attempt' = number /\ reply' = NoReply

\* No attempt is under way any more.
Hush == sent' = FALSE /\ attempt' = 0 /\ reply' = NoReply

\* The wait's next attempt begins after a pause and lasts as long as it does:
\* the 15 s are of each socket operation, and an attempt is many of them.
Spend(pause) ==
  \E seconds \in Durations :
    clock' = Elapse(pause + seconds) /\ slow' = (slow \/ seconds > Room)

\* The unit has not come to its limit in the middle of an attempt.
Alive == phase = "waiting" => clock < StartLimit

\* The answer is 429, 502, 503 or 504, nobody listens, or there is none in
\* time: a read that has attempts left waits and is sent again.
Retry ==
  /\ sent /\ phase # "over" /\ Alive
  /\ attempt + 1 < Attempts
  /\ Launch(attempt + 1)
  /\ pending' = IF Writing THEN [pending EXCEPT ![now] = @ + 1] ELSE pending
  /\ IF phase = "waiting" THEN Spend(Pause(attempt)) ELSE UNCHANGED timer
  /\ UNCHANGED <<contract, phase, now, changes>>

\* The call of an adapter ends without a result: the error ends the run, or
\* the adapter is one that expects it and goes on.
CallFails ==
  /\ status' = [status EXCEPT ![now] = "failed"]
  /\ phase' \in {"working", "over"}
  /\ Hush
  /\ UNCHANGED <<writes, effects, version, since, seen, now, pending, timer, changes>>

\* The last attempt was no better (APIUnavailableError), or the answer is of
\* another kind: another HTTP status, a redirect, too many bytes, no JSON, a
\* connection that is reset.  Those are not tried again.
WorkFails == phase = "working" /\ sent /\ CallFails

\* The answer arrives.
WorkEnds ==
  /\ phase = "working" /\ sent /\ reply.given
  /\ status' = [status EXCEPT ![now] = "done"]
  /\ seen' = IF Writing THEN seen ELSE reply.version
  /\ Hush
  /\ UNCHANGED <<writes, effects, version, since, phase, now, pending, timer, changes>>

---------------------------------------------------------------------------
(* wait_ready, and the adapter that works after it. *)

Probe ==
  /\ phase = "waiting" /\ ~sent
  /\ Launch(0)
  /\ Spend(0)
  /\ UNCHANGED <<contract, phase, now, pending, changes>>

WaitOver(next) ==
  /\ phase' = next /\ clock' = 0
  /\ Hush
  /\ UNCHANGED <<contract, now, pending, slow, changes>>

Waiting == phase = "waiting" /\ sent /\ Alive

Ready == Waiting /\ reply.given /\ WaitOver("working")

\* Any error but "unavailable" ends the run.
WaitBroken == Waiting /\ WaitOver("over")

\* Variant: the deadline is set anew for every request.
WaitForEver ==
  /\ Waiting
  /\ attempt = 3 \/ reply.given
  /\ Hush
  /\ clock' = Elapse(Nap)
  /\ UNCHANGED <<contract, phase, now, pending, slow, changes>>

\* Four attempts have failed, or the answer is not the expected one: the
\* deadline is looked at now, and a nap follows if it has not passed.
WaitAgain ==
  /\ Waiting
  /\ attempt = 3 \/ reply.given
  /\ IF clock >= Deadline
       THEN WaitOver("over")
       ELSE /\ Hush
            /\ clock' = Elapse(Nap)
            /\ UNCHANGED <<contract, phase, now, pending, slow, changes>>

\* An adapter's next call.
Call ==
  /\ phase = "working" /\ ~sent /\ now < MaxCalls
  /\ now' = now + 1
  /\ status' = [status EXCEPT ![now'] = "open"]
  /\ \/ UNCHANGED <<writes, pending>>
     \/ writes' = writes \cup {now'} /\ pending' = [pending EXCEPT ![now'] = @ + 1]
  /\ since' = version
  /\ Launch(0)
  /\ UNCHANGED <<effects, version, seen, phase, timer, changes>>

Finish ==
  /\ phase = "working" /\ ~sent
  /\ phase' = "over"
  /\ UNCHANGED <<contract, now, sent, attempt, reply, pending, timer, changes>>

\* systemd stops the unit: at its limit, or because people or the host do.
Killed ==
  /\ phase # "over"
  /\ phase' = "over" /\ clock' = 0
  /\ status' = [c \in Calls |-> IF status[c] = "open" THEN "failed" ELSE status[c]]
  /\ Hush
  /\ UNCHANGED <<writes, effects, version, since, seen, now, pending, slow, changes>>

---------------------------------------------------------------------------
(* The application and the network between. *)

\* A read is answered with what is true at the moment.
Serve ==
  /\ sent /\ ~Writing /\ ~reply.given
  /\ reply' = Reply(version)
  /\ UNCHANGED <<contract, phase, now, sent, attempt, pending, timer, changes>>

\* A write arrives, in time to be answered or long after it was given up.
Apply(c) ==
  /\ pending[c] > 0
  /\ pending' = [pending EXCEPT ![c] = @ - 1]
  /\ effects' = [effects EXCEPT ![c] = @ + 1]
  /\ version' = version + 1
  /\ reply' = IF sent /\ c = now THEN Reply(version') ELSE reply
  /\ UNCHANGED <<status, writes, since, seen, phase, now, sent, attempt, timer, changes>>

Lose(c) ==
  /\ pending[c] > 0
  /\ pending' = [pending EXCEPT ![c] = @ - 1]
  /\ UNCHANGED <<contract, program, timer, changes>>

Others ==
  /\ changes < MaxChanges
  /\ changes' = changes + 1
  /\ version' = version + 1
  /\ UNCHANGED <<status, writes, effects, since, seen, program, pending, timer>>

---------------------------------------------------------------------------
Program ==
  Probe \/ Ready \/ WaitBroken \/ WaitAgain \/ Call \/ Retry \/ WorkEnds \/ WorkFails \/ Finish

Network == Serve \/ Others \/ \E c \in Calls : Apply(c) \/ Lose(c)

Next == Program \/ Killed \/ Network

Spec == Init /\ [][Next]_vars

\* Every operation on a socket ends in 15 s, every attempt after finitely many
\* of them, every pause has an end.  That systemd stops a unit is not needed.
FairSpec == Spec /\ WF_vars(Program)

---------------------------------------------------------------------------
(* Properties. *)

\* The transport keeps the contract of OneCall: "Writes are not automatically
\* retried after an ambiguous network failure" (docs/integration.md:14), and
\* an answer belongs to the attempt it is taken for.
KeepsPromise == Promise!Spec

\* However long its attempts last and whatever the application answers, the
\* readiness wait begins no request later than a nap after its deadline, and
\* its unit comes to the start limit only if one attempt lasted longer than
\* Room, the quarter of what the limit leaves beside deadline, nap and pauses:
\* 50 of the 300 s.
WaitInTime ==
  phase = "waiting" =>
    /\ ~sent => clock < Deadline + Nap
    /\ clock < StartLimit \/ slow

\* Every run ends by itself, with an application that never becomes ready too,
\* but for one whose wait an attempt longer than Room has brought to the start
\* limit, where systemd stops it.
RunEnds == <>(phase = "over" \/ (slow /\ clock = StartLimit))

---------------------------------------------------------------------------
(* The inductive invariant. *)

\* The calls made so far, and which of them are still on their way.
CallInv ==
  /\ \A c \in Calls :
       /\ status[c] = "new" <=> c > now
       /\ status[c] = "open" => c = now /\ sent /\ phase = "working"
       /\ c \in writes => c <= now
       /\ pending[c] + effects[c] <= 1
       /\ pending[c] + effects[c] > 0 => c \in writes
       /\ status[c] = "done" => pending[c] = 0
  /\ phase = "working" /\ sent => now > 0 /\ status[now] = "open"
  /\ phase = "waiting" => now = 0
  /\ phase = "over" => ~sent

ReplyInv ==
  phase = "working" /\ sent /\ reply.given =>
    IF now \in writes THEN effects[now] = 1 ELSE reply.version \in since..version

\* What the attempts of one request have cost at the end of the present one, if
\* none was slow.
Cost(number) ==
  IF number = 0 THEN Room
  ELSE IF number = 1 THEN 2 * Room + 1
  ELSE IF number = 2 THEN 3 * Room + 3
  ELSE 4 * Room + 7

\* How late each attempt of the wait can end.
ClockInv ==
  /\ since <= version
  /\ Writing => attempt = 0
  /\ phase = "waiting" =>
       IF sent THEN slow \/ clock < Deadline + Nap + Cost(attempt) ELSE clock < Deadline + Nap

IInv == TypeOK /\ CallInv /\ ReplyInv /\ ClockInv
=============================================================================
