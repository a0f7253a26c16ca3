-------------------------- MODULE TransportProofs --------------------------
(***************************************************************************)
(* The transport keeps the contract of OneCall and its readiness wait its  *)
(* deadline, for every number of calls and attempts of any length.         *)
(***************************************************************************)
EXTENDS Transport, TLAPS

USE TimesAssumption, DurationsAssumption, BoundsAssumption DEF timer

LEMMA NoReplyType == NoReply \in [given : BOOLEAN, version : Nat] /\ ~NoReply.given
BY DEF NoReply

\* The program starts in order.
LEMMA InitInv == Init => IInv
<1> SUFFICES ASSUME Init PROVE IInv
  OBVIOUS
<1>1. /\ status = [c \in Calls |-> "new"] /\ effects = [c \in Calls |-> 0]
      /\ pending = [c \in Calls |-> 0] /\ writes = {}
      /\ version = 0 /\ since = 0 /\ seen = 0 /\ clock = 0 /\ changes = 0 /\ slow = FALSE
      /\ phase = "waiting" /\ now = 0 /\ sent = FALSE /\ attempt = 0 /\ reply = NoReply
  BY DEF Init, Promise!Init, Promise!Calls, Calls
<1>2. TypeOK
  <2>1. sent \in BOOLEAN /\ slow \in BOOLEAN
    BY <1>1
  <2>2. clock \in 0..StartLimit /\ changes \in 0..MaxChanges /\ now \in 0..MaxCalls /\ attempt \in 0..3
    BY <1>1
  <2>3. status \in [Calls -> {"new", "open", "done", "failed"}] /\ effects \in [Calls -> Nat] /\ pending \in [Calls -> Nat]
    BY <1>1
  <2>4. writes \in SUBSET Calls /\ reply \in [given : BOOLEAN, version : Nat]
    BY <1>1, NoReplyType
  <2>5. QED
    BY <1>1, <2>1, <2>2, <2>3, <2>4 DEF TypeOK
<1>3. CallInv
  BY <1>1 DEF CallInv, Calls
<1>4. ReplyInv /\ ClockInv
  BY <1>1 DEF ReplyInv, ClockInv, Writing
<1>5. QED
  BY <1>2, <1>3, <1>4 DEF IInv

LEMMA RoomType == Room \in Nat /\ Deadline + Nap + 7 + 4 * Room <= StartLimit
BY DEF Room, Pauses

\* The clock never runs backwards and stays a number.
LEMMA ElapseBound ==
  ASSUME clock \in 0..StartLimit, NEW s \in Nat
  PROVE  Elapse(s) \in 0..StartLimit /\ Elapse(s) <= clock + s
BY DEF Elapse

\* What an attempt does to the clock, however long it lasts.
LEMMA SpendBound ==
  ASSUME clock \in 0..StartLimit, slow \in BOOLEAN, NEW pause \in Nat, Spend(pause)
  PROVE  /\ clock' \in 0..StartLimit /\ slow' \in BOOLEAN
         /\ slow => slow'
         /\ slow' \/ clock' <= clock + pause + Room
<1>1. PICK seconds \in Durations :
        clock' = Elapse(pause + seconds) /\ slow' = (slow \/ seconds > Room)
  BY DEF Spend
<1>2. seconds \in Nat /\ pause + seconds \in Nat /\ Room \in Nat
  BY RoomType
<1>3. clock' \in 0..StartLimit /\ clock' <= clock + (pause + seconds)
  BY <1>1, <1>2, ElapseBound
<1>4. slow' \in BOOLEAN /\ (slow => slow')
  BY <1>1
<1>5. CASE slow'
  BY <1>3, <1>4, <1>5
<1>6. CASE ~slow'
  <2>1. ~(seconds > Room)
    BY <1>1, <1>6
  <2>2. clock' <= clock + pause + Room
    BY <1>2, <1>3, <2>1
  <2> QED BY <1>3, <1>4, <2>2
<1> QED BY <1>5, <1>6

LEMMA HushType ==
  ASSUME Hush
  PROVE  /\ sent' \in BOOLEAN /\ ~sent' /\ attempt' = 0
         /\ reply' \in [given : BOOLEAN, version : Nat]
<1>1. sent' \in BOOLEAN /\ ~sent'
  BY DEF Hush
<1>2. QED
  BY <1>1, NoReplyType DEF Hush

LEMMA LaunchType ==
  ASSUME NEW n \in 0..3, Launch(n)
  PROVE  /\ sent' \in BOOLEAN /\ sent' /\ attempt' = n
         /\ reply' \in [given : BOOLEAN, version : Nat] /\ ~reply'.given
<1>1. sent' \in BOOLEAN /\ sent'
  BY DEF Launch
<1>2. QED
  BY <1>1, NoReplyType DEF Launch

\* The readiness wait makes no call of the contract.
LEMMA WaitKeeps ==
  ASSUME IInv, Probe \/ Ready \/ WaitBroken \/ WaitAgain
  PROVE  IInv'
<1>1. CASE Probe
  <2>1. /\ phase = "waiting" /\ ~sent
        /\ sent' \in BOOLEAN /\ sent' /\ attempt' = 0
        /\ reply' \in [given : BOOLEAN, version : Nat] /\ ~reply'.given
        /\ UNCHANGED <<contract, phase, now, pending, changes>>
    BY <1>1, LaunchType DEF Probe
  <2>2. /\ clock' \in 0..StartLimit /\ slow' \in BOOLEAN
        /\ slow' \/ clock' <= clock + Room
    BY <1>1, SpendBound, RoomType DEF Probe, IInv, TypeOK
  <2>3. TypeOK'
    BY <2>1, <2>2 DEF IInv, TypeOK, contract
  <2>4. CallInv' /\ ReplyInv'
    BY <2>1 DEF IInv, TypeOK, CallInv, ReplyInv, contract, Calls
  <2>5. ClockInv'
    <3>1. clock < Deadline + Nap
      BY <2>1 DEF IInv, ClockInv
    <3>2. slow' \/ clock' < Deadline + Nap + Room
      BY <2>2, <3>1, RoomType DEF IInv, TypeOK
    <3> QED BY <2>1, <3>2 DEF IInv, ClockInv, Cost, contract, Writing
  <2>6. QED
    BY <2>3, <2>4, <2>5 DEF IInv
<1>2. ASSUME NEW p \in {"working", "over"}, WaitOver(p), phase = "waiting" PROVE IInv'
  <2>1. /\ phase' \in {"working", "over"} /\ clock' = 0 /\ slow' = slow
        /\ sent' \in BOOLEAN /\ ~sent' /\ attempt' = 0
        /\ reply' \in [given : BOOLEAN, version : Nat]
        /\ UNCHANGED <<contract, now, pending, changes>>
    BY <1>2, HushType DEF WaitOver
  <2>2. TypeOK'
    BY <2>1 DEF IInv, TypeOK, contract
  <2>3. CallInv'
    BY <1>2, <2>1 DEF IInv, TypeOK, CallInv, contract, Calls
  <2>4. ReplyInv' /\ ClockInv'
    BY <1>2, <2>1 DEF IInv, TypeOK, ReplyInv, ClockInv, contract, Writing
  <2>5. QED
    BY <2>2, <2>3, <2>4 DEF IInv
<1>3. ASSUME WaitAgain, ~(\E p \in {"working", "over"} : WaitOver(p)) PROVE IInv'
  <2>1. /\ phase = "waiting" /\ sent /\ ~(clock >= Deadline)
        /\ clock' = Elapse(Nap)
        /\ sent' \in BOOLEAN /\ ~sent' /\ attempt' = 0
        /\ reply' \in [given : BOOLEAN, version : Nat]
        /\ UNCHANGED <<contract, phase, now, pending, slow, changes>>
    BY <1>3, HushType DEF WaitAgain, Waiting
  <2>2. clock' \in 0..StartLimit /\ clock' < Deadline + Nap
    BY <2>1, ElapseBound DEF IInv, TypeOK
  <2>3. TypeOK'
    BY <2>1, <2>2 DEF IInv, TypeOK, contract
  <2>4. CallInv' /\ ReplyInv'
    BY <2>1 DEF IInv, TypeOK, CallInv, ReplyInv, contract, Calls
  <2>5. ClockInv'
    BY <2>1, <2>2 DEF IInv, TypeOK, ClockInv, contract, Writing
  <2>6. QED
    BY <2>3, <2>4, <2>5 DEF IInv
<1>4. QED
  BY <1>1, <1>2, <1>3 DEF Ready, WaitBroken, WaitAgain, Waiting

\* A request is sent again: only by the wait or for a read.
LEMMA RetryKeeps ==
  ASSUME IInv, Retry
  PROVE  IInv'
<1>1. /\ sent /\ phase # "over" /\ attempt \in 0..2 /\ ~Writing
      /\ UNCHANGED <<contract, phase, now, pending, changes>>
  BY DEF IInv, TypeOK, Retry, Attempts
<1>2. /\ sent' \in BOOLEAN /\ sent' /\ attempt' = attempt + 1
      /\ reply' \in [given : BOOLEAN, version : Nat] /\ ~reply'.given
  BY <1>1, LaunchType DEF Retry
<1>3. Pause(attempt) \in Nat /\ Cost(attempt) \in Nat /\ Cost(attempt + 1) \in Nat
      /\ Cost(attempt) + Pause(attempt) + Room <= Cost(attempt + 1)
  BY <1>1, RoomType DEF Cost, Pause
<1>4. /\ clock' \in 0..StartLimit /\ slow' \in BOOLEAN
      /\ phase = "waiting" => (slow => slow') /\ (slow' \/ clock' <= clock + Pause(attempt) + Room)
  <2>1. CASE phase = "waiting"
    BY <1>3, <2>1, SpendBound DEF Retry, IInv, TypeOK
  <2>2. CASE phase # "waiting"
    BY <2>2 DEF Retry, IInv, TypeOK, timer
  <2> QED BY <2>1, <2>2
<1>5. TypeOK'
  BY <1>1, <1>2, <1>4 DEF IInv, TypeOK, contract
<1>6. CallInv' /\ ReplyInv'
  BY <1>1, <1>2 DEF IInv, TypeOK, CallInv, ReplyInv, contract, Calls
<1>7. ClockInv'
  <2>1. ASSUME phase = "waiting", ~slow' PROVE clock' < Deadline + Nap + Cost(attempt + 1)
    <3>1. clock < Deadline + Nap + Cost(attempt)
      BY <1>1, <1>4, <2>1 DEF IInv, ClockInv
    <3>2. clock' <= clock + Pause(attempt) + Room
      BY <1>4, <2>1
    <3> QED BY <1>3, <1>4, <3>1, <3>2, RoomType DEF IInv, TypeOK
  <2> QED BY <1>1, <1>2, <2>1 DEF IInv, ClockInv, contract, Writing
<1>8. QED
  BY <1>5, <1>6, <1>7 DEF IInv

\* A call is opened.
LEMMA CallKeeps ==
  ASSUME IInv, Call
  PROVE  IInv'
<1>1. /\ phase = "working" /\ ~sent /\ now < MaxCalls /\ now' = now + 1
      /\ status' = [status EXCEPT ![now'] = "open"] /\ since' = version
      /\ UNCHANGED <<effects, version, seen, phase, timer, changes>>
      /\ sent' \in BOOLEAN /\ sent' /\ attempt' = 0
      /\ reply' \in [given : BOOLEAN, version : Nat] /\ ~reply'.given
  BY LaunchType DEF Call
<1>2. \/ writes' = writes /\ pending' = pending
      \/ writes' = writes \cup {now'} /\ pending' = [pending EXCEPT ![now'] = pending[now'] + 1]
  BY DEF Call
<1>3. now' \in Calls /\ now' \in 0..MaxCalls
  BY <1>1 DEF IInv, TypeOK, Calls
<1>4. /\ status' \in [Calls -> {"new", "open", "done", "failed"}]
      /\ status'[now'] = "open" /\ \A c \in Calls : c # now' => status'[c] = status[c]
  BY <1>1, <1>3 DEF IInv, TypeOK
<1>5. /\ pending' \in [Calls -> Nat] /\ writes' \in SUBSET Calls
      /\ pending'[now'] + effects[now'] <= 1
      /\ pending'[now'] > 0 => now' \in writes'
      /\ \A c \in Calls : c # now' => pending'[c] = pending[c] /\ (c \in writes' <=> c \in writes)
  <2>1. pending[now'] = 0 /\ effects[now'] = 0
    BY <1>1, <1>3 DEF IInv, TypeOK, CallInv, Calls
  <2>2. CASE writes' = writes /\ pending' = pending
    BY <1>3, <2>1, <2>2 DEF IInv, TypeOK
  <2>3. CASE writes' = writes \cup {now'} /\ pending' = [pending EXCEPT ![now'] = pending[now'] + 1]
    BY <1>3, <2>1, <2>3 DEF IInv, TypeOK
  <2>4. QED
    BY <1>2, <2>2, <2>3
<1>6. TypeOK'
  BY <1>1, <1>3, <1>4, <1>5 DEF IInv, TypeOK
<1>7. CallInv'
  <2>1. effects' = effects /\ phase' = "working" /\ now' = now + 1
    BY <1>1
  <2>2. ASSUME NEW c \in Calls, c # now'
        PROVE  /\ status'[c] = "new" <=> c > now'
               /\ status'[c] # "open"
               /\ c \in writes' => c <= now'
               /\ pending'[c] + effects'[c] <= 1
               /\ pending'[c] + effects'[c] > 0 => c \in writes'
               /\ status'[c] = "done" => pending'[c] = 0
    <3>1. /\ status'[c] = status[c] /\ pending'[c] = pending[c] /\ effects'[c] = effects[c]
          /\ c \in writes' <=> c \in writes
      BY <1>4, <1>5, <2>1, <2>2
    <3>2. /\ status[c] = "new" <=> c > now
          /\ status[c] # "open"
          /\ c \in writes => c <= now
          /\ pending[c] + effects[c] <= 1
          /\ pending[c] + effects[c] > 0 => c \in writes
          /\ status[c] = "done" => pending[c] = 0
      BY <1>1 DEF IInv, CallInv
    <3>3. (c > now <=> c > now') /\ (c <= now => c <= now')
      BY <1>1, <2>2 DEF IInv, TypeOK, Calls
    <3>4. QED
      BY <3>1, <3>2, <3>3
  <2>3. /\ status'[now'] = "open" /\ now' > 0 /\ sent'
        /\ pending'[now'] + effects'[now'] <= 1
        /\ pending'[now'] + effects'[now'] > 0 => now' \in writes'
    <3>1. effects[now'] = 0
      BY <1>1, <1>3 DEF IInv, TypeOK, CallInv, Calls
    <3>2. pending'[now'] \in Nat
      BY <1>3, <1>5
    <3>3. now' > 0
      BY <1>3 DEF Calls
    <3>4. QED
      BY <1>1, <1>4, <1>5, <2>1, <3>1, <3>2, <3>3
  <2>4. now' \in Nat
    BY <1>3
  <2>5. QED
    BY <2>1, <2>2, <2>3, <2>4 DEF CallInv, Calls
<1>8. ReplyInv' /\ ClockInv'
  BY <1>1 DEF IInv, TypeOK, ReplyInv, ClockInv, Writing
<1>9. QED
  BY <1>6, <1>7, <1>8 DEF IInv

\* A call ends, one way or the other, or the run does.
LEMMA EndKeeps ==
  ASSUME IInv, WorkFails \/ WorkEnds \/ Finish \/ Killed
  PROVE  IInv'
<1>1. CASE WorkFails \/ WorkEnds
  <2>1. /\ phase = "working" /\ sent /\ phase' \in {"working", "over"}
        /\ \/ status' = [status EXCEPT ![now] = "failed"] /\ seen' = seen
           \/ /\ status' = [status EXCEPT ![now] = "done"] /\ reply.given
              /\ seen' = IF Writing THEN seen ELSE reply.version
        /\ UNCHANGED <<writes, effects, version, since, now, pending, timer, changes>>
        /\ sent' \in BOOLEAN /\ ~sent' /\ attempt' = 0
        /\ reply' \in [given : BOOLEAN, version : Nat]
    BY <1>1, HushType DEF WorkFails, CallFails, WorkEnds
  <2>2. now \in Calls /\ reply.version \in Nat
    BY <2>1 DEF IInv, TypeOK, CallInv, Calls
  <2>3. TypeOK'
    BY <2>1, <2>2 DEF IInv, TypeOK
  <2>4. CallInv'
    <3>1. status'[now] \in {"failed", "done"} /\ \A c \in Calls : c # now => status'[c] = status[c]
      BY <2>1, <2>2 DEF IInv, TypeOK
    <3>2. status'[now] = "done" => pending[now] = 0
      BY <2>1, <2>2 DEF IInv, TypeOK, CallInv, ReplyInv
    <3>3. QED
      BY <2>1, <2>2, <3>1, <3>2 DEF IInv, TypeOK, CallInv, Calls
  <2>5. ReplyInv' /\ ClockInv'
    BY <2>1 DEF IInv, TypeOK, ReplyInv, ClockInv, Writing
  <2>6. QED
    BY <2>3, <2>4, <2>5 DEF IInv
<1>2. CASE Finish
  <2>1. /\ phase = "working" /\ ~sent /\ phase' = "over"
        /\ UNCHANGED <<contract, now, sent, attempt, reply, pending, timer, changes>>
    BY <1>2 DEF Finish
  <2>2. QED
    BY <2>1 DEF IInv, TypeOK, CallInv, ReplyInv, ClockInv, contract, Calls, Writing
<1>3. CASE Killed
  <2>1. /\ phase # "over" /\ phase' = "over" /\ clock' = 0 /\ slow' = slow
        /\ status' = [c \in Calls |-> IF status[c] = "open" THEN "failed" ELSE status[c]]
        /\ UNCHANGED <<writes, effects, version, since, seen, now, pending, changes>>
        /\ sent' \in BOOLEAN /\ ~sent' /\ attempt' = 0
        /\ reply' \in [given : BOOLEAN, version : Nat]
    BY <1>3, HushType DEF Killed
  <2>2. TypeOK'
    BY <2>1 DEF IInv, TypeOK
  <2>3. CallInv'
    BY <2>1 DEF IInv, TypeOK, CallInv, Calls
  <2>4. ReplyInv' /\ ClockInv'
    BY <2>1 DEF IInv, TypeOK, ReplyInv, ClockInv, Writing
  <2>5. QED
    BY <2>2, <2>3, <2>4 DEF IInv
<1>4. QED
  BY <1>1, <1>2, <1>3

\* The network and the application.
LEMMA NetworkKeeps ==
  ASSUME IInv, Network
  PROVE  IInv'
<1>1. CASE Serve
  <2>1. reply' = [given |-> TRUE, version |-> version] /\ sent /\ ~Writing
        /\ UNCHANGED <<contract, phase, now, sent, attempt, pending, timer, changes>>
    BY <1>1 DEF Serve, Reply
  <2>2. reply' \in [given : BOOLEAN, version : Nat] /\ reply'.version = version
    BY <2>1 DEF IInv, TypeOK
  <2>3. TypeOK' /\ CallInv' /\ ClockInv'
    BY <2>1, <2>2 DEF IInv, TypeOK, CallInv, ClockInv, contract, Calls, Writing
  <2>4. ReplyInv'
    BY <2>1, <2>2 DEF IInv, TypeOK, ReplyInv, ClockInv, contract, Writing
  <2>5. QED
    BY <2>3, <2>4 DEF IInv
<1>2. CASE Others
  <2>1. changes < MaxChanges /\ changes' = changes + 1 /\ version' = version + 1
        /\ UNCHANGED <<status, writes, effects, since, seen, program, pending, timer>>
    BY <1>2 DEF Others
  <2>2. TypeOK' /\ ClockInv'
    BY <2>1 DEF IInv, TypeOK, ClockInv, program, Writing
  <2>3. CallInv'
    BY <2>1 DEF IInv, CallInv, program
  <2>4. ReplyInv'
    BY <2>1 DEF IInv, TypeOK, ReplyInv, program
  <2>5. QED
    BY <2>2, <2>3, <2>4 DEF IInv
<1>3. ASSUME NEW c \in Calls, Apply(c) PROVE IInv'
  <2>1. /\ pending[c] > 0 /\ pending' = [pending EXCEPT ![c] = pending[c] - 1]
        /\ effects' = [effects EXCEPT ![c] = effects[c] + 1] /\ version' = version + 1
        /\ reply' = IF sent /\ c = now THEN [given |-> TRUE, version |-> version'] ELSE reply
        /\ UNCHANGED <<status, writes, since, seen, phase, now, sent, attempt, timer, changes>>
    BY <1>3 DEF Apply, Reply
  <2>2. /\ pending[c] = 1 /\ effects[c] = 0 /\ c \in writes
        /\ pending'[c] = 0 /\ effects'[c] = 1
    BY <2>1 DEF IInv, TypeOK, CallInv
  <2>3. reply' \in [given : BOOLEAN, version : Nat]
    BY <2>1 DEF IInv, TypeOK
  <2>4. TypeOK'
    BY <2>1, <2>2, <2>3 DEF IInv, TypeOK
  <2>5. CallInv'
    BY <2>1, <2>2 DEF IInv, TypeOK, CallInv
  <2>6. ReplyInv'
    <3>1. CASE sent /\ c = now
      BY <2>1, <2>2, <3>1 DEF ReplyInv
    <3>2. CASE ~(sent /\ c = now)
      <4>1. SUFFICES ASSUME phase = "working", sent, reply.given
                     PROVE  IF now \in writes THEN effects'[now] = 1
                            ELSE reply.version \in since..(version + 1)
        BY <2>1, <3>2 DEF ReplyInv
      <4>2. IF now \in writes THEN effects[now] = 1 ELSE reply.version \in since..version
        BY <4>1 DEF IInv, ReplyInv
      <4>3. now \in Calls /\ c # now /\ effects \in [Calls -> Nat]
        BY <3>2, <4>1 DEF IInv, TypeOK, CallInv, Calls
      <4>4. effects'[now] = effects[now]
        BY <2>1, <4>3
      <4>5. since \in Nat /\ version \in Nat
        BY DEF IInv, TypeOK
      <4>6. QED
        BY <4>2, <4>4, <4>5
    <3>3. QED
      BY <3>1, <3>2
  <2>7. ClockInv'
    BY <2>1 DEF IInv, TypeOK, ClockInv, Writing
  <2>8. QED
    BY <2>4, <2>5, <2>6, <2>7 DEF IInv
<1>4. ASSUME NEW c \in Calls, Lose(c) PROVE IInv'
  <2>1. /\ pending[c] > 0 /\ pending' = [pending EXCEPT ![c] = pending[c] - 1]
        /\ UNCHANGED <<contract, program, timer, changes>>
    BY <1>4 DEF Lose
  <2>2. pending[c] = 1 /\ pending'[c] = 0
    BY <2>1 DEF IInv, TypeOK, CallInv
  <2>3. TypeOK' /\ ReplyInv' /\ ClockInv'
    BY <2>1, <2>2 DEF IInv, TypeOK, ReplyInv, ClockInv, contract, program, Writing
  <2>4. CallInv'
    BY <2>1, <2>2 DEF IInv, TypeOK, CallInv, contract, program, Calls
  <2>5. QED
    BY <2>3, <2>4 DEF IInv
<1>5. QED
  BY <1>1, <1>2, <1>3, <1>4 DEF Network

LEMMA StepKeeps == IInv /\ [Next]_vars => IInv'
<1>1. ASSUME IInv, Next PROVE IInv'
  BY <1>1, WaitKeeps, RetryKeeps, CallKeeps, EndKeeps, NetworkKeeps DEF Next, Program
<1>2. ASSUME IInv, UNCHANGED vars PROVE IInv'
  BY <1>2 DEF IInv, TypeOK, CallInv, ReplyInv, ClockInv, vars, contract, program, Calls, Writing
<1>3. QED
  BY <1>1, <1>2

\* The inductive invariant holds for every run of the job.
THEOREM Safety == Spec => []IInv
BY InitInv, StepKeeps, PTL DEF Spec

\* However often the application answers badly and however long attempts last,
\* the wait sends nothing later than a nap after its deadline, and comes to the
\* unit's start limit only if one of them lasted longer than Room.
THEOREM InTime == Spec => []WaitInTime
<1>1. IInv => WaitInTime
  <2> SUFFICES ASSUME IInv, phase = "waiting"
               PROVE  (~sent => clock < Deadline + Nap) /\ (clock < StartLimit \/ slow)
    BY DEF WaitInTime
  <2>1. clock \in Nat /\ attempt \in 0..3
    BY DEF IInv, TypeOK
  <2>2. Cost(attempt) <= 4 * Room + 7 /\ Cost(attempt) \in Nat
    BY <2>1, RoomType DEF Cost
  <2>3. IF sent THEN slow \/ clock < Deadline + Nap + Cost(attempt) ELSE clock < Deadline + Nap
    BY DEF IInv, ClockInv
  <2> QED BY <2>1, <2>2, <2>3, RoomType
<1>2. QED
  BY Safety, <1>1, PTL

---------------------------------------------------------------------------
(* Every step of the transport is a step of the contract or none. *)

LEMMA StepPromised == IInv /\ [Next]_vars => [Promise!Next]_(Promise!contract)
<1> SUFFICES ASSUME IInv, Next PROVE Promise!Next \/ UNCHANGED contract
  BY DEF vars, contract, Promise!contract
<1>1. CASE Probe \/ Ready \/ WaitBroken \/ WaitAgain \/ Retry \/ Finish \/ Serve
  BY <1>1 DEF Probe, Ready, WaitBroken, WaitAgain, WaitOver, Retry, Finish, Serve, contract
<1>2. CASE Call
  <2>1. now + 1 \in Calls /\ status[now + 1] = "new" /\ \A d \in Calls : status[d] # "open"
    BY <1>2 DEF Call, IInv, TypeOK, CallInv, Calls
  <2>2. Promise!Open(now + 1)
    BY <1>2, <2>1 DEF Call, Promise!Open, Promise!Calls, Calls
  <2>3. QED
    BY <2>1, <2>2 DEF Promise!Next, Promise!Calls, Calls
<1>3. CASE WorkFails
  <2>1. Promise!Fail(now) /\ now \in Calls
    BY <1>3 DEF WorkFails, CallFails, Promise!Fail, IInv, TypeOK, CallInv, Calls
  <2>2. QED
    BY <2>1 DEF Promise!Next, Promise!Calls, Calls
<1>4. CASE WorkEnds
  <2>1. now \in Calls /\ status[now] = "open" /\ status' = [status EXCEPT ![now] = "done"]
        /\ UNCHANGED <<writes, effects, version, since>>
    BY <1>4 DEF WorkEnds, IInv, TypeOK, CallInv, Calls
  <2>2. CASE now \in writes
    BY <1>4, <2>1, <2>2 DEF WorkEnds, Writing, IInv, ReplyInv, Promise!Next, Promise!Written,
                            Promise!Calls, Calls
  <2>3. CASE now \notin writes
    BY <1>4, <2>1, <2>3 DEF WorkEnds, Writing, IInv, ReplyInv, Promise!Next, Promise!Read,
                            Promise!Calls, Calls
  <2>4. QED
    BY <2>2, <2>3
<1>5. CASE Killed
  <2>1. CASE \E c \in Calls : status[c] = "open"
    <3>1. PICK c \in Calls : status[c] = "open"
      BY <2>1
    <3>2. \A d \in Calls : status[d] = "open" => d = c
      BY <3>1 DEF IInv, CallInv
    <3>3. status' = [status EXCEPT ![c] = "failed"]
      BY <1>5, <3>1, <3>2 DEF Killed, IInv, TypeOK
    <3>4. QED
      BY <1>5, <3>1, <3>3 DEF Killed, Promise!Next, Promise!Fail, Promise!Calls, Calls
  <2>2. CASE ~ \E c \in Calls : status[c] = "open"
    <3>1. status' = status
      BY <1>5, <2>2 DEF Killed, IInv, TypeOK
    <3>2. QED
      BY <1>5, <3>1 DEF Killed, contract
  <2>3. QED
    BY <2>1, <2>2
<1>6. ASSUME NEW c \in Calls, Apply(c) PROVE Promise!Next
  <2>1. c \in writes /\ effects[c] = 0 /\ pending[c] > 0 /\ status[c] \in {"open", "failed"}
    BY <1>6 DEF Apply, IInv, TypeOK, CallInv, Calls
  <2>2. effects' = [effects EXCEPT ![c] = 1] /\ version' = version + 1
        /\ UNCHANGED <<status, writes, since, seen>>
    BY <1>6, <2>1 DEF Apply
  <2>3. QED
    BY <2>1, <2>2 DEF Promise!Next, Promise!Happen, Promise!Calls, Calls
<1>7. CASE Others
  BY <1>7 DEF Others, Promise!Next, Promise!Others
<1>8. ASSUME NEW c \in Calls, Lose(c) PROVE UNCHANGED contract
  BY <1>8 DEF Lose
<1>9. QED
  BY <1>1, <1>2, <1>3, <1>4, <1>5, <1>6, <1>7, <1>8 DEF Next, Program, Network

\* The transport implements OneCall: a write happens at most once however its
\* answer is lost, one reported as done has happened, and a read tells what
\* was true during the call.
THEOREM Implements == Spec => KeepsPromise
<1>1. Init => Promise!Init
  BY DEF Init
<1>2. QED
  BY <1>1, Safety, StepPromised, PTL DEF Spec, KeepsPromise, Promise!Spec

\* The contract's invariant, with the types.
Kept ==
  /\ status \in [Calls -> {"new", "open", "done", "failed"}]
  /\ effects \in [Calls -> Nat] /\ version \in Nat /\ since \in Nat /\ seen \in Nat
  /\ \A c \in writes : status[c] # "new"
  /\ Promise!Safe

\* What a caller relies on follows from the contract, whoever keeps it: at most
\* one effect of a call, and none that is not reported truthfully.
THEOREM PromiseSafe == KeepsPromise => []Promise!Safe
<1> USE DEF Promise!Calls, Calls
<1>1. Promise!Init => Kept
  BY DEF Promise!Init, Kept, Promise!Safe
<1>2. Kept /\ [Promise!Next]_(Promise!contract) => Kept'
  <2> SUFFICES ASSUME Kept, [Promise!Next]_(Promise!contract) PROVE Kept'
    OBVIOUS
  <2> USE DEF Kept, Promise!Safe
  <2>1. CASE UNCHANGED Promise!contract
    BY <2>1 DEF Promise!contract
  <2>2. CASE Promise!Others
    BY <2>2 DEF Promise!Others
  <2>3. ASSUME NEW c \in Calls, Promise!Open(c) PROVE Kept'
    BY <2>3 DEF Promise!Open
  <2>4. ASSUME NEW c \in Calls, Promise!Happen(c) PROVE Kept'
    <3>1. version' \in Nat /\ since' <= version' /\ seen' <= version'
      BY <2>4 DEF Promise!Happen
    <3> QED BY <2>4, <3>1 DEF Promise!Happen
  <2>5. ASSUME NEW c \in Calls, Promise!Written(c) PROVE Kept'
    BY <2>5 DEF Promise!Written
  <2>6. ASSUME NEW c \in Calls, Promise!Read(c) PROVE Kept'
    <3>1. seen' \in Nat /\ seen' <= version
      BY <2>6 DEF Promise!Read
    <3> QED BY <2>6, <3>1 DEF Promise!Read
  <2>7. ASSUME NEW c \in Calls, Promise!Fail(c) PROVE Kept'
    BY <2>7 DEF Promise!Fail
  <2> QED
    BY <2>1, <2>2, <2>3, <2>4, <2>5, <2>6, <2>7 DEF Promise!Next
<1>3. Kept => Promise!Safe
  BY DEF Kept
<1> QED
  BY <1>1, <1>2, <1>3, PTL DEF KeepsPromise, Promise!Spec
=============================================================================
