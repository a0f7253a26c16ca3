---------------------- MODULE StoragePressureProofs ----------------------
(***************************************************************************)
(* What holds of the pressure guard for any torrents, clients, thresholds, *)
(* and any number of failed requests, killed runs and moves of others; and *)
(* of what operational health reports of it, for any age limit.            *)
(***************************************************************************)
EXTENDS PressureHealth, TLAPS

USE QueueAssumption DEF Items

---------------------------------------------------------------------------
(* The records. *)

\* An update of one field of a journal record yields one that differs there
\* only.
LEMMA JournalUpdates ==
  ASSUME NEW r \in Journals
  PROVE  /\ r.pressured \in BOOLEAN /\ r.qbittorrent \subseteq Torrents /\ r.sabnzbd \in BOOLEAN
         /\ \A b \in BOOLEAN :
              LET u == [r EXCEPT !.pressured = b]
              IN  /\ u \in Journals /\ u.pressured = b
                  /\ u.qbittorrent = r.qbittorrent /\ u.sabnzbd = r.sabnzbd
         /\ \A b \in BOOLEAN :
              LET u == [r EXCEPT !.sabnzbd = b]
              IN  /\ u \in Journals /\ u.pressured = r.pressured
                  /\ u.qbittorrent = r.qbittorrent /\ u.sabnzbd = b
         /\ \A s \in SUBSET Torrents :
              LET u == [r EXCEPT !.qbittorrent = s]
              IN  /\ u \in Journals /\ u.pressured = r.pressured
                  /\ u.qbittorrent = s /\ u.sabnzbd = r.sabnzbd
  BY DEF Journals

LEMMA SpentStep ==
  ASSUME spent \in Spending
  PROVE  /\ [spent EXCEPT !.moves = @ + 1] \in Spending
         /\ [spent EXCEPT !.faults = @ + 1] \in Spending
         /\ [spent EXCEPT !.crashes = @ + 1] \in Spending
  BY DEF Spending

---------------------------------------------------------------------------
(* Type correctness and the inductive invariant. *)

\* No run has begun and nothing is stopped in an initial state.
LEMMA InitIInv == Init => IInv
<1> SUFFICES ASSUME Init PROVE IInv
  OBVIOUS
<1>1. NoJournal \in Journals /\ OwnedItems(NoJournal) = {}
  BY DEF NoJournal, Journals, OwnedItems
<1>2. spent \in Spending
  BY DEF Init, Spending
<1>3. TypeOK
  <2>1. available \in 0..Capacity
    BY BytesAssumption DEF Init
  <2>2. phase \in [Torrents -> Phases] /\ stopper \in [Items -> Stoppers]
    BY DEF Init, Phases, Stoppers
  <2> QED BY <1>1, <1>2, <2>1, <2>2 DEF Init, TypeOK, Steps
<1> QED
  BY <1>1, <1>3 DEF Init, IInv, StopperInv, RequestInv, OwnerInv, NotOurs

\* Start: the copy is the journal but for the mode.
LEMMA StepStart == ASSUME IInv, Start PROVE IInv'
<1>1. Pressured(journal.pressured) \in BOOLEAN
  BY DEF Pressured
<1>2. /\ state' \in Journals
      /\ state'.qbittorrent = journal.qbittorrent /\ state'.sabnzbd = journal.sabnzbd
  BY <1>1, JournalUpdates DEF IInv, TypeOK, Start
<1>3. OwnedItems(state') = OwnedItems(journal) /\ state = journal
  BY <1>2 DEF OwnedItems, Start, IInv, OwnerInv
<1>4. TypeOK'
  BY <1>2 DEF IInv, TypeOK, Start, Steps, AfterQbit, disk, queues
<1>5. StopperInv' /\ RequestInv'
  BY DEF IInv, StopperInv, RequestInv, NotOurs, Start, AfterQbit, disk, queues
<1>6. OwnerInv'
  BY <1>3 DEF IInv, OwnerInv, NotOurs, Start, AfterQbit, disk, queues
<1> QED BY <1>4, <1>5, <1>6 DEF IInv

\* QbitList: with nothing to send and no pressure, nothing of the guard's is
\* left among the torrents.
LEMMA StepQbitList == ASSUME IInv, QbitList PROVE IInv'
<1>1. /\ state.qbittorrent \subseteq Torrents /\ state.pressured \in BOOLEAN
      /\ state \in Journals
  BY JournalUpdates DEF IInv, TypeOK
<1>2. request' \subseteq Torrents /\ request' \subseteq Items
  BY <1>1 DEF QbitList, Active, StoppedDownloads
<1>3. CASE request' # {}
  <2>1. pc = "qbitList" /\ pc' = "qbitSend" /\ UNCHANGED <<state, halted, stopper, phase, journal>>
    BY <1>3 DEF QbitList, queues
  <2>2. \A i \in request' : stopper[i] \notin NotOurs
    BY <1>1, <1>2 DEF QbitList, Active, StoppedDownloads, IInv, StopperInv, OwnerInv, NotOurs,
                      OwnedItems
  <2>3. ~state.pressured => request' \subseteq OwnedItems(state)
    BY DEF QbitList, OwnedItems
  <2>4. ~state.pressured =>
          \A t \in Torrents : stopper[t] = "guard" => t \in request'
    BY DEF QbitList, StoppedDownloads, IInv, StopperInv, OwnerInv, OwnedItems
  <2>5. TypeOK'
    BY <1>2, <2>1 DEF IInv, TypeOK, QbitList, Steps, disk, queues
  <2>6. StopperInv' /\ RequestInv' /\ OwnerInv'
    BY <1>2, <2>1, <2>2, <2>3, <2>4 DEF IInv, StopperInv, RequestInv, OwnerInv, NotOurs
  <2> QED BY <2>5, <2>6 DEF IInv
<1>4. CASE request' = {}
  <2>1. pc = "qbitList" /\ pc' \in {"sabQueue", "save"}
        /\ UNCHANGED <<halted, stopper, phase, journal>>
    BY <1>4 DEF QbitList, AfterQbit, queues
  <2>2. /\ state' \in Journals /\ state'.pressured = state.pressured
        /\ state'.sabnzbd = state.sabnzbd
        /\ state'.qbittorrent = IF state.pressured THEN state.qbittorrent ELSE {}
    <3>1. CASE state.pressured
      BY <1>1, <1>4, <3>1 DEF QbitList
    <3>2. CASE ~state.pressured
      <4>1. state' = [state EXCEPT !.qbittorrent = {}]
        BY <1>4, <3>2 DEF QbitList
      <4>2. {} \in SUBSET Torrents
        OBVIOUS
      <4> QED BY <1>1, <3>2, <4>1, <4>2, JournalUpdates
    <3> QED BY <3>1, <3>2
  <2>3. ~state.pressured => \A t \in Torrents : stopper[t] # "guard"
    BY <1>4 DEF QbitList, StoppedDownloads, IInv, StopperInv, OwnerInv, OwnedItems
  <2>4. TypeOK'
    BY <1>2, <2>1, <2>2 DEF IInv, TypeOK, QbitList, Steps, disk, queues
  <2>5. StopperInv' /\ RequestInv'
    BY <2>1 DEF IInv, StopperInv, RequestInv
  <2>6. OwnerInv'
    <3>1. state.pressured => OwnedItems(state') = OwnedItems(state)
      BY <2>2 DEF OwnedItems
    <3>2. ~state.pressured => OwnedItems(state') = OwnedItems(state) \ Torrents
      BY <1>1, <2>2 DEF OwnedItems
    <3> QED BY <1>1, <2>1, <2>2, <2>3, <3>1, <3>2 DEF IInv, OwnerInv, NotOurs
  <2> QED BY <2>4, <2>5, <2>6 DEF IInv
<1> QED BY <1>3, <1>4

\* SabQueue: as QbitList, for the queue.
LEMMA StepSabQueue == ASSUME IInv, SabQueue PROVE IInv'
<1>1. /\ state.sabnzbd \in BOOLEAN /\ state.pressured \in BOOLEAN
      /\ state \in Journals /\ state.qbittorrent \subseteq Torrents
  BY JournalUpdates DEF IInv, TypeOK
<1>2. CASE pc' = "sabSend"
  <2>1. request' = {Queue} /\ UNCHANGED <<state, halted, stopper, phase, journal>>
    BY <1>2 DEF SabQueue, queues
  <2>2. stopper[Queue] \notin NotOurs /\ (~state.pressured => Queue \in OwnedItems(state))
    BY <1>2, <1>1 DEF SabQueue, IInv, StopperInv, OwnerInv, NotOurs, OwnedItems
  <2>3. TypeOK'
    BY <1>2, <2>1 DEF IInv, TypeOK, SabQueue, Steps, disk, queues
  <2>4. StopperInv' /\ RequestInv' /\ OwnerInv'
    BY <1>2, <2>1, <2>2 DEF IInv, StopperInv, RequestInv, OwnerInv, NotOurs, SabQueue
  <2> QED BY <2>3, <2>4 DEF IInv
<1>3. CASE pc' # "sabSend"
  <2>1. pc = "sabQueue" /\ pc' = "save" /\ request' = {}
        /\ UNCHANGED <<halted, stopper, phase, journal>>
    BY <1>3 DEF SabQueue, queues
  <2>2. CASE state.pressured
    <3>1. state' = state
      BY <1>3, <2>2 DEF SabQueue
    <3>2. TypeOK'
      BY <2>1, <3>1 DEF IInv, TypeOK, SabQueue, Steps, disk, queues
    <3> QED BY <2>1, <3>1, <3>2 DEF IInv, StopperInv, RequestInv, OwnerInv, NotOurs
  <2>3. CASE ~state.pressured
    <3>1. state' = [state EXCEPT !.sabnzbd = FALSE]
      BY <1>3, <2>3 DEF SabQueue
    <3>2. /\ state' \in Journals /\ state'.pressured = FALSE
          /\ state'.qbittorrent = state.qbittorrent /\ state'.sabnzbd = FALSE
      BY <1>1, <2>3, <3>1, JournalUpdates
    <3>3. stopper[Queue] # "guard"
      BY <1>1, <1>3, <2>3 DEF SabQueue, IInv, StopperInv, OwnerInv, OwnedItems
    <3>4. OwnedItems(state') = OwnedItems(state) \ {Queue}
      BY <1>1, <3>2 DEF OwnedItems
    <3>5. TypeOK'
      BY <2>1, <3>2 DEF IInv, TypeOK, SabQueue, Steps, disk, queues
    <3>6. StopperInv' /\ RequestInv'
      BY <2>1 DEF IInv, StopperInv, RequestInv
    <3>7. OwnerInv'
      BY <2>1, <3>2, <3>3, <3>4 DEF IInv, OwnerInv, NotOurs
    <3> QED BY <3>5, <3>6, <3>7 DEF IInv
  <2> QED BY <2>2, <2>3
<1> QED BY <1>2, <1>3

\* What an answered request leaves in the copy of the journal.
LEMMA AnsweredOwns ==
  ASSUME IInv, pc \in {"qbitSend", "sabSend"}
  PROVE  /\ Answered \in Journals /\ Answered.pressured = state.pressured
         /\ OwnedItems(Answered) = IF state.pressured THEN OwnedItems(state) \cup request
              ELSE OwnedItems(state) \ (IF pc = "qbitSend" THEN Torrents ELSE {Queue})
<1>1. state \in Journals /\ state.pressured \in BOOLEAN
      /\ state.qbittorrent \subseteq Torrents /\ state.sabnzbd \in BOOLEAN
  BY JournalUpdates DEF IInv, TypeOK
<1>2. CASE pc = "qbitSend"
  <2> DEFINE s == IF state.pressured THEN state.qbittorrent \cup request ELSE {}
  <2>1. s \in SUBSET Torrents
    BY <1>1, <1>2 DEF IInv, RequestInv
  <2>2. Answered = [state EXCEPT !.qbittorrent = s]
    BY <1>2 DEF Answered
  <2> HIDE DEF s
  <2>3. Answered \in Journals /\ Answered.pressured = state.pressured
        /\ Answered.qbittorrent = s /\ Answered.sabnzbd = state.sabnzbd
    BY <1>1, <2>1, <2>2, JournalUpdates
  <2> USE DEF s
  <2> QED BY <1>1, <1>2, <2>3 DEF OwnedItems
<1>3. CASE pc = "sabSend"
  <2>1. Answered = [state EXCEPT !.sabnzbd = state.pressured]
    BY <1>3 DEF Answered
  <2>2. Answered \in Journals /\ Answered.pressured = state.pressured
        /\ Answered.qbittorrent = state.qbittorrent /\ Answered.sabnzbd = state.pressured
    BY <1>1, <2>1, JournalUpdates
  <2>3. request = {Queue}
    BY <1>3 DEF IInv, RequestInv
  <2> QED BY <1>1, <1>3, <2>2, <2>3 DEF OwnedItems
<1> QED BY <1>2, <1>3

\* A request that takes effect keeps the history true, whoever hears of it.
LEMMA EffectKeeps ==
  ASSUME IInv, pc \in {"qbitSend", "sabSend"}, NEW a \in BOOLEAN, TakeEffect(a), UNCHANGED phase
  PROVE  /\ halted' \in SUBSET Items /\ stopper' \in [Items -> Stoppers] /\ roomSeen' \in BOOLEAN
         /\ StopperInv'
         /\ \A i \in Items : stopper'[i] = "guard" =>
              \/ stopper[i] = "guard" /\ (state.pressured \/ i \notin request)
              \/ state.pressured /\ i \in request /\ (a \/ i \in OwnedItems(state))
         /\ \A i \in Items : stopper'[i] \in NotOurs =>
              \/ stopper[i] \in NotOurs
              \/ ~a /\ state.pressured /\ i \notin OwnedItems(state)
<1>1. request \subseteq Items
  BY DEF IInv, TypeOK
<1>2. CASE state.pressured
  <2> DEFINE mark == StopMark(a)
             now == {i \in request : i \notin halted /\ (i # Queue => phase[i] # "absent")}
  <2>1. /\ halted' = halted \cup now
        /\ stopper' = [i \in Items |-> IF i \in now THEN mark[i] ELSE stopper[i]]
    BY <1>2 DEF TakeEffect, Halt
  <2>2. \A i \in Items :
          /\ mark[i] \in {"lost", "hidden", "guard"}
          /\ mark[i] = "guard" => (a \/ i \in OwnedItems(state))
                                  /\ (i \in Torrents => phase[i] = "downloading")
          /\ mark[i] = "lost" => ~a /\ i \notin OwnedItems(state)
    BY DEF StopMark
  <2> HIDE DEF mark
  <2>3. halted' \in SUBSET Items /\ stopper' \in [Items -> Stoppers] /\ roomSeen' \in BOOLEAN
    BY <1>1, <1>2, <2>1, <2>2 DEF IInv, TypeOK, Stoppers, TakeEffect
  <2>4. StopperInv'
    BY <2>1, <2>2 DEF IInv, StopperInv
  <2> QED BY <1>2, <2>1, <2>2, <2>3, <2>4 DEF NotOurs
<1>3. CASE ~state.pressured
  <2>1. /\ halted' = halted \ request
        /\ stopper' = [i \in Items |-> IF i \in request THEN "nobody" ELSE stopper[i]]
    BY <1>3 DEF TakeEffect, Release
  <2>2. halted' \in SUBSET Items /\ stopper' \in [Items -> Stoppers] /\ roomSeen' \in BOOLEAN
    BY <1>3, <2>1 DEF IInv, TypeOK, Stoppers, TakeEffect
  <2>3. StopperInv'
    BY <2>1 DEF IInv, StopperInv
  <2> QED BY <1>3, <2>1, <2>2, <2>3 DEF NotOurs
<1> QED BY <1>2, <1>3

\* A request that is answered: its items are owned, or owned no more.
LEMMA StepSend == ASSUME IInv, Send PROVE IInv'
<1>1. /\ pc \in {"qbitSend", "sabSend"} /\ pc' \in {"sabQueue", "save"}
      /\ TakeEffect(TRUE) /\ state' = Answered /\ request' = {}
      /\ UNCHANGED <<disk, phase, failed, journal, spent>>
  BY DEF Send, AfterClient, AfterQbit
<1>2. TypeOK'
  BY <1>1, AnsweredOwns, EffectKeeps DEF IInv, TypeOK, Steps, disk
<1>3. StopperInv' /\ RequestInv'
  BY <1>1, EffectKeeps DEF RequestInv
<1>4. OwnerInv'
  <2>1. request \subseteq Items /\ state.pressured \in BOOLEAN /\ (pc = "sabSend" => request = {Queue})
    BY JournalUpdates DEF IInv, TypeOK, RequestInv
  <2>2. state'.pressured => OwnedItems(journal') \subseteq OwnedItems(state')
    BY <1>1, AnsweredOwns DEF IInv, OwnerInv
  <2>3. \A i \in Items : stopper'[i] = "guard" => i \in OwnedItems(state')
    BY <1>1, <2>1, AnsweredOwns, EffectKeeps DEF IInv, OwnerInv, RequestInv
  <2>4. \A i \in Items : stopper'[i] \in NotOurs =>
          i \notin OwnedItems(state') \cup OwnedItems(journal')
    BY <1>1, <2>1, AnsweredOwns, EffectKeeps DEF IInv, OwnerInv, RequestInv
  <2> QED BY <1>1, <2>2, <2>3, <2>4 DEF OwnerInv, NotOurs
<1> QED BY <1>2, <1>3, <1>4 DEF IInv

\* A client that fails, with or without its request having taken effect.
LEMMA StepClientFails == ASSUME IInv, ClientFails PROVE IInv'
<1>1. /\ pc' \in {"sabQueue", "save"} /\ request' = {} /\ failed' = TRUE
      /\ spent' \in Spending /\ UNCHANGED <<disk, phase, state, journal>>
  BY SpentStep DEF ClientFails, AfterClient, AfterQbit, IInv, TypeOK
<1>2. CASE UNCHANGED <<halted, stopper, roomSeen>>
  <2>1. TypeOK'
    BY <1>1, <1>2 DEF IInv, TypeOK, Steps, disk
  <2> QED BY <1>1, <1>2, <2>1 DEF IInv, StopperInv, RequestInv, OwnerInv, NotOurs
<1>3. CASE pc \in {"qbitSend", "sabSend"} /\ TakeEffect(FALSE)
  <2>1. TypeOK'
    BY <1>1, <1>3, EffectKeeps DEF IInv, TypeOK, Steps, disk
  <2>2. StopperInv' /\ RequestInv'
    BY <1>1, <1>3, EffectKeeps DEF RequestInv
  <2>3. OwnerInv'
    BY <1>1, <1>3, EffectKeeps DEF IInv, OwnerInv, NotOurs
  <2> QED BY <2>1, <2>2, <2>3 DEF IInv
<1> QED BY <1>2, <1>3 DEF ClientFails

\* The journal on disk becomes the run's copy; the run ends.
LEMMA StepSaveFinish == ASSUME IInv, Save \/ Finish PROVE IInv'
<1>1. CASE Save
  <2>1. TypeOK' /\ StopperInv' /\ RequestInv'
    BY <1>1 DEF IInv, TypeOK, StopperInv, RequestInv, Save, Steps, NotOurs, disk, queues
  <2>2. OwnerInv'
    BY <1>1 DEF IInv, OwnerInv, NotOurs, Save, queues
  <2> QED BY <2>1, <2>2 DEF IInv
<1>2. CASE Finish
  BY <1>2 DEF IInv, TypeOK, StopperInv, RequestInv, OwnerInv, NotOurs, Finish, Steps, disk, queues
<1> QED BY <1>1, <1>2

\* A run that is killed falls back to the journal, whether its unit fails or
\* the host restarts; what it did not record is "lost".
LEMMA StepDies == ASSUME IInv, Crash \/ Reboot PROVE IInv'
<1>0. Dies /\ failed' \in BOOLEAN
  BY DEF Crash, Reboot
<1>1. spent' \in Spending
  BY <1>0, SpentStep DEF Dies, IInv, TypeOK
<1>2. TypeOK'
  BY <1>0, <1>1 DEF Dies, IInv, TypeOK, Stoppers, Steps, disk
<1>3. \A i \in Items :
        /\ stopper'[i] = "guard" => stopper[i] = "guard" /\ i \in OwnedItems(journal)
        /\ stopper'[i] \in NotOurs => stopper[i] \in NotOurs \/ i \notin OwnedItems(journal)
        /\ stopper[i] = "nobody" => stopper'[i] = "nobody"
  BY <1>0 DEF Dies, IInv, OwnerInv, NotOurs
<1>4. StopperInv' /\ RequestInv' /\ OwnerInv'
  BY <1>0, <1>3 DEF Dies, IInv, StopperInv, RequestInv, OwnerInv, NotOurs
<1> QED BY <1>2, <1>4 DEF IInv

\* People: a stop counts against the journal, a start wipes the slate.
LEMMA StepUser == ASSUME IInv, NEW i \in Items, UserStops(i) \/ UserStarts(i) PROVE IInv'
<1>1. spent' \in Spending /\ UserMay
  BY SpentStep DEF UserStops, UserStarts, Move, IInv, TypeOK
<1>2. UNCHANGED <<phase, pc, state, request, failed, journal, roomSeen, available, storage>>
  BY DEF UserStops, UserStarts, disk, guard
<1>3. CASE UserStops(i)
  <2>1. /\ halted' = halted \cup {i} /\ i \notin halted
        /\ stopper' = [j \in Items |-> IF j = i
             THEN StopLabel(i) ELSE stopper[j]]
    BY <1>3 DEF UserStops, Halt
  <2>2. TypeOK'
    BY <1>1, <1>2, <2>1 DEF IInv, TypeOK, Stoppers, StopLabel
  <2>3. stopper'[i] # "guard" /\ stopper'[i] # "nobody"
        /\ (stopper'[i] \in NotOurs => pc = "idle" /\ i \notin OwnedItems(journal))
    BY <1>1, <2>1 DEF NotOurs, StopLabel, IInv, TypeOK
  <2>4. StopperInv' /\ RequestInv' /\ OwnerInv'
    BY <1>2, <2>1, <2>3 DEF IInv, StopperInv, RequestInv, OwnerInv, NotOurs
  <2> QED BY <2>2, <2>4 DEF IInv
<1>4. CASE UserStarts(i)
  <2>1. /\ halted' = halted \ {i}
        /\ stopper' = [j \in Items |-> IF j = i THEN "nobody" ELSE stopper[j]]
    BY <1>4 DEF UserStarts, Release
  <2>2. TypeOK'
    BY <1>1, <1>2, <2>1 DEF IInv, TypeOK, Stoppers
  <2>3. StopperInv' /\ RequestInv' /\ OwnerInv'
    BY <1>2, <2>1 DEF IInv, StopperInv, RequestInv, OwnerInv, NotOurs
  <2> QED BY <2>2, <2>3 DEF IInv
<1> QED BY <1>3, <1>4

\* A torrent leaves, completes or is checked: the guard's hold on it ends.
LEMMA StepTorrent == ASSUME IInv, NEW t \in Torrents, TorrentChanges(t) PROVE IInv'
<1>1. spent' \in Spending
  BY SpentStep DEF TorrentChanges, Move, IInv, TypeOK
<1>2. UNCHANGED <<pc, state, request, failed, journal, roomSeen, available, storage>>
  BY DEF TorrentChanges, disk, guard
<1>3. /\ halted' \in SUBSET Items /\ stopper' \in [Items -> Stoppers]
      /\ phase' \in [Torrents -> Phases]
      /\ halted' = halted \/ (halted' = halted \ {t} /\ stopper'[t] = "nobody")
      /\ \A i \in Items : stopper'[i] = stopper[i] \/ (i = t /\ stopper'[t] \in {"nobody", "hidden"})
      /\ \A i \in Items : stopper[i] = "nobody" => stopper'[i] = "nobody"
      /\ \A u \in Torrents : phase'[u] = phase[u] \/ (u = t /\ stopper'[t] # "guard")
  <2> USE DEF IInv, TypeOK, Phases, Stoppers, StopperInv
  <2>1. CASE UNCHANGED <<halted, stopper>> /\ stopper[t] # "guard"
             /\ \E p \in Phases : phase' = [phase EXCEPT ![t] = p]
    BY <2>1
  <2>2. CASE phase' = [phase EXCEPT ![t] = "absent"] /\ Release({t})
    BY <2>2 DEF Release
  <2>3. CASE /\ phase' = [phase EXCEPT ![t] = "checking"]
             /\ stopper' = [stopper EXCEPT ![t] = IF @ = "guard" THEN "hidden" ELSE @]
             /\ UNCHANGED halted
    BY <2>3
  <2> QED BY <2>1, <2>2, <2>3 DEF TorrentChanges, Active
<1>4. TypeOK'
  BY <1>1, <1>2, <1>3 DEF IInv, TypeOK
<1>5. StopperInv' /\ RequestInv' /\ OwnerInv'
  BY <1>2, <1>3 DEF IInv, StopperInv, RequestInv, OwnerInv, NotOurs
<1> QED BY <1>4, <1>5 DEF IInv

LEMMA NextIInv == IInv /\ [Next]_vars => IInv'
  <1> SUFFICES ASSUME IInv, [Next]_vars PROVE IInv'
  OBVIOUS
<1>1. CASE UNCHANGED vars
  BY <1>1 DEF vars, IInv, TypeOK, StopperInv, RequestInv, OwnerInv, NotOurs
<1>2. CASE DiskChanges
  BY <1>2 DEF DiskChanges, IInv, TypeOK, StopperInv, RequestInv, OwnerInv, NotOurs, queues, guard
<1>3. CASE Reconcile \/ Finish
  BY <1>3, StepStart, StepQbitList, StepSabQueue, StepSend, StepSaveFinish DEF Reconcile
<1> QED BY <1>1, <1>2, <1>3, StepClientFails, StepDies, StepUser, StepTorrent
             DEF Next, Disturbance

\* The invariant holds of every behaviour: the journal and the run's copy of it
\* own what the guard stopped, and nothing that anybody else did.
THEOREM Invariance == Spec => []IInv
  BY NextIInv, InitIInv, PTL DEF Spec

---------------------------------------------------------------------------
(* The theorems. *)

\* Every state has the types of TypeOK.
THEOREM TypeCorrect == Spec => []TypeOK
  BY Invariance, PTL DEF IInv

\* Between runs the journal owns everything the guard stopped and recorded,
\* through failed requests, killed runs and whatever people do meanwhile.
THEOREM HeldOwned == Spec => []HeldIsOwned
<1>1. IInv => HeldIsOwned
  BY DEF IInv, TypeOK, OwnerInv, HeldIsOwned
<1> QED BY <1>1, Invariance, PTL

\* What the guard starts again was not stopped by anyone in NotOurs.
LEMMA StartsOnlyOurs ==
  IInv /\ [Next]_vars => \A i \in Items : GuardStarts(i) => stopper[i] \notin NotOurs
<1> SUFFICES ASSUME IInv, [Next]_vars, NEW i \in Items, GuardStarts(i)
             PROVE  stopper[i] \notin NotOurs
  OBVIOUS
<1>1. pc' # pc /\ i \in halted /\ i \notin halted'
  BY DEF GuardStarts
<1>2. CASE Send \/ ClientFails
  <2>1. pc \in {"qbitSend", "sabSend"} /\ ~state.pressured /\ i \in request
    BY <1>1, <1>2 DEF Send, ClientFails, TakeEffect, Halt, Release
  <2> QED BY <2>1 DEF IInv, RequestInv
<1>3. CASE ~(Send \/ ClientFails)
  BY <1>1, <1>3 DEF vars, Next, Reconcile, Disturbance, Start, QbitList, SabQueue, Save, Finish,
       Crash, Reboot, Dies, UserStops, UserStarts, TorrentChanges, DiskChanges, queues, guard
<1> QED BY <1>2, <1>3

\* A pause that was not heard or not recorded is never resumed automatically.
THEOREM UncertainPauses == Spec => UncertainPauseNotResumed
<1>1. IInv /\ [Next]_vars => [\A i \in Items : GuardStarts(i) => stopper[i] # "lost"]_vars
  BY StartsOnlyOurs DEF NotOurs
<1> QED BY <1>1, Invariance, PTL DEF Spec, UncertainPauseNotResumed

\* People's stops of items the journal does not own, made between runs, are
\* never undone.
THEOREM UserStopsKept == Spec => UserStopKept
<1>1. IInv /\ [Next]_vars => [\A i \in Items : GuardStarts(i) => stopper[i] # "user"]_vars
  BY StartsOnlyOurs DEF NotOurs
<1> QED BY <1>1, Invariance, PTL DEF Spec, UserStopKept
\* Without room since its last stop, the guard is still in pressure.
HysteresisInv == roomSeen \/ state.pressured

LEMMA HysteresisStep ==
  IInv /\ HysteresisInv /\ [Next]_vars => HysteresisInv'
<1> SUFFICES ASSUME IInv, HysteresisInv, [Next]_vars, ~roomSeen'
             PROVE  state'.pressured
  BY DEF HysteresisInv
<1>1. /\ roomSeen \in BOOLEAN /\ available \in Nat
      /\ state \in Journals /\ journal \in Journals /\ state.pressured \in BOOLEAN
  BY JournalUpdates, BytesAssumption DEF IInv, TypeOK
<1>2. CASE Start
  <2>1. roomSeen' = (roomSeen \/ (storage = "mounted" /\ available >= ResumeBytes))
    BY <1>2 DEF Start
  <2>2. journal.pressured
    <3>1. ~roomSeen
      BY <1>1, <2>1
    <3>2. state.pressured /\ state = journal
      BY <1>2, <3>1 DEF Start, HysteresisInv, IInv, OwnerInv
    <3>3. QED
      BY <3>2
  <2>3. Pressured(journal.pressured) = TRUE
    <3>1. storage # "mounted" \/ available < ResumeBytes
      <4>1. ~(storage = "mounted" /\ available >= ResumeBytes)
        BY <2>1, Zenon
      <4>2. QED
        BY <1>1, <4>1, BytesAssumption
    <3>2. Pressured(journal.pressured)
      BY <2>2, <3>1 DEF Pressured
    <3>3. QED
      BY <3>2 DEF Pressured
  <2>4. state' = [journal EXCEPT !.pressured = TRUE]
    BY <1>2, <2>3 DEF Start
  <2>5. QED
    BY <1>1, <2>4, JournalUpdates
<1>3. CASE QbitList \/ SabQueue
  <2>1. roomSeen' = roomSeen
    BY <1>3 DEF QbitList, SabQueue
  <2>2. state.pressured
    BY <2>1 DEF HysteresisInv
  <2>3. state' = state
    BY <1>3, <2>2 DEF QbitList, SabQueue
  <2>4. QED
    BY <2>2, <2>3
<1>4. CASE Send
  <2>1. roomSeen' = (roomSeen /\ ~state.pressured) /\ state' = Answered
        /\ pc \in {"qbitSend", "sabSend"}
    BY <1>4 DEF Send, TakeEffect
  <2>2. state.pressured
    BY <1>1, <2>1 DEF HysteresisInv
  <2>3. QED
    BY <2>1, <2>2, AnsweredOwns
<1>5. CASE ClientFails
  <2>1. /\ state' = state
        /\ roomSeen' = roomSeen \/ roomSeen' = (roomSeen /\ ~state.pressured)
    BY <1>5 DEF ClientFails, TakeEffect
  <2>2. state.pressured
    BY <1>1, <2>1 DEF HysteresisInv
  <2>3. QED
    BY <2>1, <2>2
<1>6. CASE Crash \/ Reboot
  BY <1>1, <1>6 DEF Crash, Reboot, Dies
<1>7. CASE Save \/ Finish \/ DiskChanges \/ UNCHANGED vars
  BY <1>7 DEF Save, Finish, DiskChanges, vars, guard, HysteresisInv
<1>8. CASE (\E i \in Items : UserStops(i) \/ UserStarts(i)) \/ \E t \in Torrents : TorrentChanges(t)
  <2>1. state' = state /\ roomSeen' = roomSeen
    BY <1>8 DEF UserStops, UserStarts, TorrentChanges, guard
  <2>2. QED
    BY <2>1 DEF HysteresisInv
<1>9. QED
  BY <1>2, <1>3, <1>4, <1>5, <1>6, <1>7, <1>8 DEF Next, Reconcile, Disturbance

LEMMA StartsInRoom ==
  IInv /\ HysteresisInv /\ [Next]_vars =>
    \A i \in Items : GuardStarts(i) => roomSeen
<1> SUFFICES ASSUME IInv, HysteresisInv, [Next]_vars, NEW i \in Items, GuardStarts(i)
             PROVE  roomSeen
  OBVIOUS
<1>1. pc' # pc /\ i \in halted /\ i \notin halted'
  BY DEF GuardStarts
<1>2. CASE Send \/ ClientFails
  <2>1. ~state.pressured
    BY <1>1, <1>2 DEF Send, ClientFails, TakeEffect, Halt, Release
  <2>2. QED
    BY <2>1 DEF HysteresisInv
<1>3. CASE ~(Send \/ ClientFails)
  BY <1>1, <1>3 DEF vars, Next, Reconcile, Disturbance, Start, QbitList, SabQueue, Save, Finish,
       Crash, Reboot, Dies, UserStops, UserStarts, TorrentChanges, DiskChanges, queues, guard
<1>4. QED
  BY <1>2, <1>3

\* Hysteresis: after a stop nothing is started before some run has measured
\* ResumeBytes, however the measurements go up and down in between, or a killed
\* run has lost the mode.
THEOREM Hysteresis == Spec => NoToggling
<1>1. Init => HysteresisInv
  BY DEF Init, HysteresisInv
<1>2. IInv /\ HysteresisInv /\ [Next]_vars =>
        [\A i \in Items : GuardStarts(i) => roomSeen]_vars
  BY StartsInRoom
<1>3. QED
  BY <1>1, <1>2, HysteresisStep, Invariance, PTL DEF Spec, NoToggling

---------------------------------------------------------------------------
(* The guard implements PauseContract: every step of a run, of the people   *)
(* and of the disk is a step of the contract or none.                       *)

Promised == Pauses!Next \/ UNCHANGED Pauses!contract

\* What the contract sees of each item.
LEMMA StandingIs ==
  /\ Standing \in [Items -> {"running"} \cup Pauses!Stopped]
  /\ \A i \in Items :
       /\ stopper[i] = "nobody" <=> Standing[i] = "running"
       /\ stopper[i] = "guard" <=> Standing[i] = "held"
       /\ stopper[i] \in NotOurs <=> Standing[i] = "kept"
  BY DEF Standing, NotOurs, Pauses!Stopped
LEMMA StandingNext ==
  /\ Standing' \in [Items -> {"running"} \cup Pauses!Stopped]
  /\ \A i \in Items :
       /\ stopper'[i] = "nobody" <=> Standing'[i] = "running"
       /\ stopper'[i] = "guard" <=> Standing'[i] = "held"
       /\ stopper'[i] \in NotOurs <=> Standing'[i] = "kept"
       /\ stopper'[i] = stopper[i] => Standing'[i] = Standing[i]
  BY DEF Standing, NotOurs, Pauses!Stopped

\* A run's first step looks at the disk.
LEMMA StartPromised == ASSUME IInv, Start PROVE Pauses!Look
<1>1. /\ pc = "idle" /\ state' = [journal EXCEPT !.pressured = Pressured(journal.pressured)]
      /\ UNCHANGED <<disk, queues, journal, spent>> /\ pc' # "idle"
  BY DEF Start, AfterQbit
<1>2. journal \in Journals /\ journal.pressured \in BOOLEAN
      /\ Pressured(journal.pressured) \in BOOLEAN
  BY JournalUpdates DEF IInv, TypeOK, Pressured
<1>3. state'.pressured = Pressured(journal.pressured)
  BY <1>1, <1>2, JournalUpdates
<1>4. Pressured(journal.pressured) =
        CASE Space = "short" -> TRUE [] Space = "ample" -> FALSE [] OTHER -> journal.pressured
  <2>1. available \in Nat
    BY BytesAssumption DEF IInv, TypeOK
  <2>2. CASE storage # "mounted" \/ available < PauseBytes
    <3>1. Space = "short" /\ Pressured(journal.pressured)
      BY <1>2, <2>1, <2>2, BytesAssumption DEF Space, Pressured
    <3> QED BY <1>2, <3>1
  <2>3. CASE storage = "mounted" /\ available >= ResumeBytes
    <3>1. Space = "ample" /\ ~Pressured(journal.pressured)
      BY <1>2, <2>1, <2>3, BytesAssumption DEF Space, Pressured
    <3> QED BY <1>2, <3>1
  <2>4. CASE storage = "mounted" /\ ~(available < PauseBytes) /\ ~(available >= ResumeBytes)
    <3>1. Space = "between" /\ (Pressured(journal.pressured) <=> journal.pressured)
      BY <1>2, <2>1, <2>4, BytesAssumption DEF Space, Pressured
    <3> QED BY <1>2, <3>1
  <2> QED BY <2>2, <2>3, <2>4
<1>5. UNCHANGED <<Standing, Space>> /\ OwnedItems(journal') = OwnedItems(journal)
  BY <1>1 DEF Standing, Space, disk, queues
<1> QED
  BY <1>1, <1>3, <1>4, <1>5 DEF Pauses!Look

\* A request that takes effect, answered or not, is a hold or a release.
LEMMA EffectPromised ==
  ASSUME IInv, pc \in {"qbitSend", "sabSend"}, pc' # "idle", NEW a \in BOOLEAN, TakeEffect(a),
         state'.pressured = state.pressured, UNCHANGED <<disk, phase, journal, spent.moves>>
  PROVE  Pauses!Next
<1>1. request \subseteq Items /\ state \in Journals /\ state.pressured \in BOOLEAN
  BY JournalUpdates DEF IInv, TypeOK
<1>2. UNCHANGED Space /\ OwnedItems(journal') = OwnedItems(journal)
      /\ journal'.pressured = journal.pressured
  BY DEF Space, disk
<1>3. CASE state.pressured
  <2>1. \A i \in Items : stopper[i] # "nobody" => stopper'[i] = stopper[i]
    BY <1>3 DEF TakeEffect, Halt, IInv, StopperInv
  <2>2. \A i \in Items : Standing[i] # "running" => Standing'[i] = Standing[i]
    BY <2>1, StandingIs, StandingNext
  <2>3. \A i \in Items : stopper'[i] \in NotOurs => i \notin OwnedItems(journal)
    BY <1>3, EffectKeeps DEF IInv, OwnerInv
  <2>4. \A i \in Items : Standing'[i] = "kept" => i \notin OwnedItems(journal)
    BY <2>3, StandingNext
  <2>5. Pauses!Hold
    BY <1>2, <1>3, <2>2, <2>4, StandingNext DEF Pauses!Hold
  <2> QED BY <2>5 DEF Pauses!Next
<1>4. CASE ~state.pressured
  <2>1. stopper' = [i \in Items |-> IF i \in request THEN "nobody" ELSE stopper[i]]
    BY <1>4 DEF TakeEffect, Release
  <2>2. Standing' = [i \in Items |-> IF i \in request THEN "running" ELSE Standing[i]]
    BY <2>1 DEF Standing
  <2>3. \A i \in request : Standing[i] # "kept"
    BY <1>1, StandingIs DEF IInv, RequestInv
  <2>4. Pauses!Release(request)
    BY <1>2, <1>4, <2>2, <2>3 DEF Pauses!Release
  <2> QED BY <1>1, <2>4 DEF Pauses!Next
<1> QED BY <1>1, <1>3, <1>4

\* The steps of a run that the contract does not see.
LEMMA Unnoticed ==
  ASSUME UNCHANGED <<disk, stopper, journal, spent.moves>>, state'.pressured = state.pressured,
         (pc' = "idle") = (pc = "idle")
  PROVE  UNCHANGED Pauses!contract
<1>1. UNCHANGED <<Standing, Space>>
  BY DEF Standing, Space, disk
<1> QED
  BY <1>1 DEF Pauses!contract

\* The guard's own steps.
LEMMA RunPromised == ASSUME IInv, Reconcile \/ Finish \/ ClientFails PROVE Promised
<1> USE DEF Promised
<1>1. state \in Journals /\ journal \in Journals /\ spent \in Spending
      /\ pc \in Steps /\ state.pressured \in BOOLEAN
  BY JournalUpdates DEF IInv, TypeOK
<1>2. CASE Start
  BY <1>2, StartPromised DEF Pauses!Next
<1>3. CASE QbitList \/ SabQueue
  <2>1. UNCHANGED <<disk, stopper, journal, spent>> /\ pc # "idle" /\ pc' # "idle"
    BY <1>3 DEF QbitList, SabQueue, queues, AfterQbit
  <2>2. \/ state' = state
        \/ state' = [state EXCEPT !.qbittorrent = {}]
        \/ state' = [state EXCEPT !.sabnzbd = FALSE]
    BY <1>3 DEF QbitList, SabQueue
  <2>3. state'.pressured = state.pressured
    BY <1>1, <2>2 DEF Journals
  <2> QED BY <2>1, <2>3, Unnoticed
<1>4. CASE Send
  <2>1. /\ pc \in {"qbitSend", "sabSend"} /\ pc' # "idle"
        /\ TakeEffect(TRUE) /\ state' = Answered
        /\ UNCHANGED <<disk, phase, journal, spent>>
    BY <1>4 DEF Send, AfterClient, AfterQbit
  <2>2. state'.pressured = state.pressured
    BY <2>1, AnsweredOwns
  <2> QED BY <2>1, <2>2, EffectPromised
<1>5. CASE ClientFails
  <2>1. /\ pc # "idle" /\ pc' # "idle" /\ UNCHANGED <<disk, phase, journal, state>>
        /\ spent' = [spent EXCEPT !.faults = @ + 1]
    BY <1>5 DEF ClientFails, AfterClient, AfterQbit
  <2>2. spent'.moves = spent.moves
    BY <1>1, <2>1 DEF Spending
  <2>3. CASE UNCHANGED <<halted, stopper, roomSeen>>
    BY <2>1, <2>2, <2>3, Unnoticed
  <2>4. CASE pc \in {"qbitSend", "sabSend"} /\ TakeEffect(FALSE)
    BY <2>1, <2>2, <2>4, EffectPromised
  <2> QED BY <1>5, <2>3, <2>4 DEF ClientFails
<1>6. CASE Save
  <2>1. pc = "save" /\ journal' = state /\ UNCHANGED <<disk, queues, state, spent>>
        /\ pc' \in {"idle", "done"}
    BY <1>6 DEF Save
  <2>2. OwnedItems(state) \in SUBSET Items
    BY <1>1, JournalUpdates DEF OwnedItems, Items
  <2>3. UNCHANGED <<Standing, Space>>
    BY <2>1 DEF Standing, Space, disk, queues
  <2>4. /\ \A i \in Items : Standing[i] = "held" => i \in OwnedItems(state)
        /\ \A i \in Items : Standing[i] = "kept" => i \notin OwnedItems(state)
    BY StandingIs DEF IInv, OwnerInv
  <2>5. Pauses!Save(OwnedItems(state))
    BY <2>1, <2>3, <2>4 DEF Pauses!Save
  <2> QED BY <2>2, <2>5 DEF Pauses!Next
<1>7. CASE Finish
  <2>1. pc = "done" /\ pc' = "idle" /\ UNCHANGED <<disk, queues, state, journal, spent>>
    BY <1>7 DEF Finish
  <2>2. UNCHANGED <<Standing, Space>> /\ state = journal
    BY <2>1 DEF Standing, Space, disk, queues, IInv, OwnerInv
  <2>3. \A i \in Items : Standing[i] = "held" => i \in OwnedItems(journal)
    BY <2>2, StandingIs DEF IInv, OwnerInv
  <2>4. Pauses!Rest
    BY <2>1, <2>2, <2>3 DEF Pauses!Rest
  <2> QED BY <2>4 DEF Pauses!Next
<1> QED BY <1>2, <1>3, <1>4, <1>5, <1>6, <1>7 DEF Reconcile

\* A run that is killed keeps nothing that it did not record; a reboot between
\* two runs is no step of the contract.
LEMMA DeathPromised == ASSUME IInv, Crash \/ Reboot PROVE Promised
<1>1. /\ pc' = "idle" /\ state' = journal /\ UNCHANGED <<disk, journal>>
      /\ spent' = [spent EXCEPT !.crashes = @ + 1]
  BY DEF Crash, Reboot, Dies
<1>2. spent'.moves = spent.moves /\ UNCHANGED Space
  BY <1>1 DEF IInv, TypeOK, Spending, Space, disk
<1>3. stopper' = [i \in Items |->
        IF stopper[i] = "guard" /\ i \notin OwnedItems(journal) THEN "lost" ELSE stopper[i]]
  BY DEF Crash, Reboot, Dies, IInv, OwnerInv
<1>4. Standing' = [i \in Items |->
        IF Standing[i] = "held" /\ i \notin OwnedItems(journal) THEN "kept" ELSE Standing[i]]
  BY <1>3 DEF Standing
<1>5. CASE pc # "idle"
  <2>1. Pauses!Kill
    BY <1>1, <1>2, <1>4, <1>5 DEF Pauses!Kill
  <2> QED BY <2>1 DEF Promised, Pauses!Next
<1>6. CASE pc = "idle"
  <2>1. state = journal /\ \A i \in Items : stopper[i] = "guard" => i \in OwnedItems(journal)
    BY <1>6 DEF IInv, OwnerInv
  <2>2. stopper' = stopper
    BY <1>3, <2>1 DEF IInv, TypeOK
  <2> QED BY <1>1, <1>2, <1>6, <2>1, <2>2, Unnoticed DEF Promised, disk, Standing
<1> QED BY <1>5, <1>6

\* People, the applications that use the downloaders, and the disk.
LEMMA OthersPromised ==
  ASSUME IInv, spent' = [spent EXCEPT !.moves = @ + 1],
         UNCHANGED <<disk, guard, journal>>,
         Standing' = Standing \/ \E i \in Items : Pauses!Stop(i) \/ Pauses!Start(i) \/ Pauses!Blur(i)
  PROVE  Promised
<1>1. spent'.moves = spent.moves + 1
  BY DEF IInv, TypeOK, Spending
<1>2. UNCHANGED <<Space, pc, state, journal>> /\ OwnedItems(journal') = OwnedItems(journal)
  BY DEF Space, disk, guard
<1>3. Pauses!Others
  BY <1>1, <1>2 DEF Pauses!Others
<1> QED BY <1>3 DEF Promised, Pauses!Next

LEMMA PeoplePromised ==
  ASSUME IInv, NEW i \in Items, UserStops(i) \/ UserStarts(i)
  PROVE  Promised
<1>1. spent' = [spent EXCEPT !.moves = @ + 1] /\ UNCHANGED <<disk, guard, journal>>
  BY DEF UserStops, UserStarts, Move
<1>2. CASE UserStops(i)
  <2>1. /\ stopper' = [j \in Items |-> IF j = i THEN StopLabel(i) ELSE stopper[j]]
        /\ i \notin halted
    BY <1>2 DEF UserStops, Halt
  <2>2. stopper[i] = "nobody"
    BY <2>1 DEF IInv, StopperInv
  <2>3. Standing' = [Standing EXCEPT ![i] =
          IF pc = "idle" /\ i \notin OwnedItems(journal) THEN "kept" ELSE "unclear"]
    BY <2>1 DEF Standing, StopLabel
  <2>4. Pauses!Stop(i)
    BY <2>2, <2>3, StandingIs DEF Pauses!Stop
  <2> QED BY <1>1, <2>4, OthersPromised
<1>3. CASE UserStarts(i)
  <2>1. stopper' = [j \in Items |-> IF j = i THEN "nobody" ELSE stopper[j]]
    BY <1>3 DEF UserStarts, Release
  <2>2. Standing' = [Standing EXCEPT ![i] = "running"]
    BY <2>1 DEF Standing
  <2> QED BY <1>1, <2>2, OthersPromised DEF Pauses!Start
<1> QED BY <1>2, <1>3

LEMMA TorrentPromised ==
  ASSUME IInv, NEW t \in Torrents, TorrentChanges(t)
  PROVE  Promised
<1>1. spent' = [spent EXCEPT !.moves = @ + 1] /\ UNCHANGED <<disk, guard, journal>> /\ t \in Items
  BY DEF TorrentChanges, Move, Items
<1>2. CASE UNCHANGED stopper
  <2>1. Standing' = Standing
    BY <1>2 DEF Standing
  <2> QED BY <1>1, <2>1, OthersPromised
<1>3. CASE Release({t})
  <2>1. stopper' = [j \in Items |-> IF j = t THEN "nobody" ELSE stopper[j]]
    BY <1>3 DEF Release
  <2>2. Standing' = [Standing EXCEPT ![t] = "running"]
    BY <2>1 DEF Standing
  <2> QED BY <1>1, <2>2, OthersPromised DEF Pauses!Start
<1>4. CASE stopper' = [stopper EXCEPT ![t] = IF @ = "guard" THEN "hidden" ELSE @]
  <2>1. stopper' = [j \in Items |->
          IF j = t THEN (IF stopper[t] = "guard" THEN "hidden" ELSE stopper[t]) ELSE stopper[j]]
    BY <1>4 DEF IInv, TypeOK
  <2>2. Standing' = [Standing EXCEPT ![t] = IF Standing[t] = "held" THEN "unclear" ELSE Standing[t]]
    BY <1>1, <2>1 DEF Standing
  <2> QED BY <1>1, <2>2, OthersPromised DEF Pauses!Blur
<1> QED BY <1>2, <1>3, <1>4 DEF TorrentChanges

\* The guard implements PauseContract, for any torrents, marks and clients, and
\* however often requests fail, runs are killed and queues change by other hands.
THEOREM ContractKept == Spec => KeepsContract
<1>1. Init => Pauses!Init
  <2> SUFFICES ASSUME Init PROVE Pauses!Init
    OBVIOUS
  <2>1. Standing = [i \in Items |-> "running"]
    BY DEF Init, Standing
  <2>2. OwnedItems(journal) = {} /\ ~state.pressured /\ ~journal.pressured /\ pc = "idle"
        /\ spent.moves = 0
    BY DEF Init, NoJournal, OwnedItems
  <2>3. state.pressured = FALSE /\ journal.pressured = FALSE
    BY DEF Init, NoJournal
  <2>4. Space \in {"short", "between", "ample"}
    BY DEF Space
  <2> QED BY <2>1, <2>2, <2>3, <2>4 DEF Pauses!Init
<1>2. IInv /\ [Next]_vars => [Pauses!Next]_(Pauses!contract)
  <2> SUFFICES ASSUME IInv, [Next]_vars PROVE Promised
    BY DEF Promised
  <2>1. CASE UNCHANGED vars
    BY <2>1, Unnoticed DEF vars, Promised, disk
  <2>2. CASE DiskChanges
    <3>1. UNCHANGED <<queues, guard, journal, spent>>
      BY <2>2 DEF DiskChanges
    <3>2. UNCHANGED <<Standing, state, pc>> /\ Space' \in {"short", "between", "ample"}
      BY <3>1 DEF Standing, Space, queues, guard
    <3>3. Pauses!Disk
      BY <3>1, <3>2 DEF Pauses!Disk
    <3> QED BY <3>3 DEF Promised, Pauses!Next
  <2> QED
    BY <2>1, <2>2, RunPromised, DeathPromised, PeoplePromised, TorrentPromised
       DEF Next, Disturbance
<1> QED
  BY <1>1, <1>2, Invariance, PTL DEF Spec, KeepsContract, Pauses!Spec

\* What the contract alone says: between runs the guard has recorded all it
\* holds, and at no time does it own what it has no right to start.
THEOREM ContractSafe == KeepsContract => []Pauses!Safe
<1>1. Pauses!Init => Pauses!Safe
  BY DEF Pauses!Init, Pauses!Safe
<1>2. Pauses!Safe /\ [Pauses!Next]_(Pauses!contract) => Pauses!Safe'
  <2> SUFFICES ASSUME Pauses!Safe, [Pauses!Next]_(Pauses!contract) PROVE Pauses!Safe'
    OBVIOUS
  <2> USE DEF Pauses!Safe
  <2>1. CASE UNCHANGED Pauses!contract
    BY <2>1 DEF Pauses!contract
  <2>2. CASE Pauses!Look \/ Pauses!Rest \/ Pauses!Disk
    BY <2>2 DEF Pauses!Look, Pauses!Rest, Pauses!Disk
  <2>3. CASE Pauses!Hold
    BY <2>3 DEF Pauses!Hold
  <2>4. CASE Pauses!Kill
    BY <2>4 DEF Pauses!Kill
  <2>5. CASE Pauses!Others
    BY <2>5, StandingIs DEF Pauses!Others, Pauses!Stop, Pauses!Start, Pauses!Blur
  <2>6. ASSUME NEW some \in SUBSET Items, Pauses!Release(some) \/ Pauses!Save(some)
        PROVE  Pauses!Safe'
    BY <2>6 DEF Pauses!Release, Pauses!Save
  <2> QED
    BY <2>1, <2>2, <2>3, <2>4, <2>5, <2>6 DEF Pauses!Next
<1> QED
  BY <1>1, <1>2, PTL DEF KeepsContract, Pauses!Spec

---------------------------------------------------------------------------
(* Operational health. *)

\* What the marker says, and how old it is, as long as the unit is in order.
MarkerInv ==
  /\ pc = "idle" /\ journal.pressured => failed \/ booted \/ marker.text = "paused"
  /\ ~journal.pressured => pressedFor = 0
  /\ marker.text = "ready" => pressedFor <= marker.age

HealthIInv == IInv /\ HealthTypeOK /\ MarkerInv

LEMMA OlderType ==
  ASSUME NEW a \in Ages
  PROVE  /\ Older(a) \in Ages /\ a <= Older(a)
         /\ \A b \in Ages : b <= a => Older(b) <= Older(a)
BY MaxAgeAssumption DEF Ages, Older

LEMMA MarkerFields ==
  ASSUME HealthTypeOK
  PROVE  /\ marker.text \in {"none", "ready", "paused"} /\ marker.age \in Ages
         /\ pressedFor \in Ages
         /\ \A a \in Ages :
              LET m == [marker EXCEPT !.age = a]
              IN  /\ m \in [text : {"none", "ready", "paused"}, age : Ages]
                  /\ m.text = marker.text /\ m.age = a
BY DEF HealthTypeOK

\* Outside a run the journal does not change, and a run that does not end
\* cleanly leaves a failed unit or the host restarted.
LEMMA IdleMarker ==
  ASSUME IInv, Others, pc' = "idle", journal'.pressured
  PROVE  \/ failed' \/ booted'
         \/ pc = "idle" /\ journal' = journal /\ failed' = failed /\ ~booted
<1>1. CASE Start \/ QbitList \/ SabQueue \/ Send \/ Save
  BY <1>1 DEF Start, QbitList, SabQueue, Send, Save, AfterQbit, AfterClient
<1>2. CASE ClientFails \/ Crash
  BY <1>2 DEF ClientFails, Crash
<1>3. CASE Reboot
  BY <1>3 DEF Others
<1>4. ASSUME pc = "idle", UNCHANGED <<journal, failed>>
      PROVE  failed' \/ booted' \/ (journal' = journal /\ failed' = failed /\ ~booted)
  BY <1>4 DEF Others
<1>5. CASE DiskChanges \/ \E i \in Items : UserStops(i) \/ UserStarts(i)
  BY <1>4, <1>5 DEF DiskChanges, UserStops, UserStarts, guard
<1>6. CASE \E t \in Torrents : TorrentChanges(t)
  BY <1>4, <1>6 DEF TorrentChanges, guard
<1>7. QED
  BY <1>1, <1>2, <1>3, <1>5, <1>6 DEF Others, Reconcile, Disturbance

LEMMA HealthStep == HealthIInv /\ [HealthNext]_<<vars, healthVars>> => HealthIInv'
<1> SUFFICES ASSUME HealthIInv, [HealthNext]_<<vars, healthVars>> PROVE HealthIInv'
  OBVIOUS
<1>1. IInv /\ HealthTypeOK /\ MarkerInv
  BY DEF HealthIInv
<1>2. IInv'
  BY <1>1, NextIInv DEF HealthNext, Publish, Tick, Others, Next, healthVars
<1>3. TypeOK'
  BY <1>2 DEF IInv
<1>4. CASE Publish
  <2>1. /\ pc' = "idle" /\ journal' = journal /\ pressedFor' = pressedFor
        /\ booted' = FALSE
        /\ marker' = IF failed' THEN marker
                     ELSE [text |-> IF journal.pressured THEN "paused" ELSE "ready", age |-> 0]
    BY <1>4 DEF Publish, Finish
  <2>2. CASE failed'
    <3>1. marker' = marker
      BY <2>1, <2>2
    <3>2. HealthTypeOK'
      BY <1>1, <1>3, <2>1, <3>1 DEF HealthTypeOK
    <3>3. MarkerInv'
      BY <1>1, <2>1, <2>2, <3>1 DEF MarkerInv
    <3>4. QED
      BY <1>2, <3>2, <3>3 DEF HealthIInv
  <2>3. CASE ~failed' /\ journal.pressured
    <3>1. marker' = [text |-> "paused", age |-> 0]
      BY <2>1, <2>3
    <3>2. /\ marker' \in [text : {"none", "ready", "paused"}, age : Ages]
          /\ marker'.text = "paused"
      BY <3>1, MaxAgeAssumption DEF Ages
    <3>3. HealthTypeOK' /\ MarkerInv'
      BY <1>1, <1>3, <2>1, <2>3, <3>2 DEF HealthTypeOK, MarkerInv
    <3>4. QED
      BY <1>2, <3>3 DEF HealthIInv
  <2>4. CASE ~failed' /\ ~journal.pressured
    <3>1. marker' = [text |-> "ready", age |-> 0]
      BY <2>1, <2>4
    <3>2. /\ marker' \in [text : {"none", "ready", "paused"}, age : Ages]
          /\ marker'.text = "ready" /\ marker'.age = 0
      BY <3>1, MaxAgeAssumption DEF Ages
    <3>3. pressedFor = 0
      BY <1>1, <2>4 DEF MarkerInv
    <3>4. HealthTypeOK'
      BY <1>1, <1>3, <2>1, <3>2, <3>3 DEF HealthTypeOK
    <3>5. MarkerInv'
      BY <1>1, <2>1, <2>4, <3>2, <3>3 DEF MarkerInv
    <3>6. QED
      BY <1>2, <3>4, <3>5 DEF HealthIInv
  <2>5. QED
    BY <2>2, <2>3, <2>4
<1>5. CASE Tick
  <2>1. /\ UNCHANGED vars
        /\ marker' = IF marker.text = "none" THEN marker ELSE [marker EXCEPT !.age = Older(@)]
        /\ pressedFor' = IF journal.pressured THEN Older(pressedFor) ELSE 0
        /\ booted' = booted
    BY <1>5 DEF Tick
  <2>2. pc' = pc /\ journal' = journal /\ failed' = failed
    BY <2>1 DEF vars, guard
  <2>3. /\ marker' \in [text : {"none", "ready", "paused"}, age : Ages]
        /\ marker'.text = marker.text
        /\ marker.text = "ready" => marker'.age = Older(marker.age)
    BY <1>1, <2>1, MarkerFields, OlderType DEF HealthTypeOK
  <2>4. pressedFor' \in Ages
    BY <1>1, <2>1, MarkerFields, OlderType, MaxAgeAssumption DEF Ages
  <2>5. marker.text = "ready" => pressedFor' <= marker'.age
    <3>1. SUFFICES ASSUME marker.text = "ready" PROVE pressedFor' <= Older(marker.age)
      BY <2>3
    <3>2. pressedFor \in Ages /\ marker.age \in Ages /\ pressedFor <= marker.age
      BY <1>1, <3>1, MarkerFields DEF MarkerInv
    <3>3. Older(pressedFor) <= Older(marker.age) /\ Older(marker.age) \in Ages
      BY <3>2, OlderType
    <3>4. QED
      BY <2>1, <3>3 DEF Ages
  <2>6. HealthTypeOK'
    BY <1>1, <1>3, <2>1, <2>3, <2>4 DEF HealthTypeOK
  <2>7. MarkerInv'
    BY <1>1, <2>1, <2>2, <2>3, <2>5 DEF MarkerInv
  <2>8. QED
    BY <1>2, <2>6, <2>7 DEF HealthIInv
<1>6. CASE Others
  <2>1. /\ marker' = marker
        /\ pressedFor' = IF journal'.pressured THEN pressedFor ELSE 0
        /\ booted' \in BOOLEAN
    BY <1>6 DEF Others
  <2>2. HealthTypeOK'
    BY <1>1, <1>3, <2>1, MaxAgeAssumption DEF HealthTypeOK, Ages
  <2>3. pressedFor' <= pressedFor
    BY <1>1, <2>1, MarkerFields, MaxAgeAssumption DEF Ages
  <2>4. pressedFor' \in Ages /\ pressedFor \in Ages /\ marker.age \in Ages
    BY <1>1, <2>1, MarkerFields, MaxAgeAssumption DEF Ages
  <2>5. marker.text = "ready" => pressedFor' <= marker.age
    BY <1>1, <2>3, <2>4 DEF MarkerInv, Ages
  <2>6. pc' = "idle" /\ journal'.pressured => failed' \/ booted' \/ marker.text = "paused"
    BY <1>1, <1>6, IdleMarker DEF MarkerInv
  <2>7. QED
    BY <1>2, <2>1, <2>2, <2>5, <2>6 DEF HealthIInv, MarkerInv
<1>7. CASE UNCHANGED <<vars, healthVars>>
  <2>1. pc' = pc /\ journal' = journal /\ failed' = failed /\ marker' = marker /\ pressedFor' = pressedFor
        /\ booted' = booted
    BY <1>7 DEF vars, guard, healthVars
  <2>2. QED
    BY <1>1, <1>2, <1>3, <2>1 DEF HealthIInv, HealthTypeOK, MarkerInv
<1>8. QED
  BY <1>4, <1>5, <1>6, <1>7 DEF HealthNext

LEMMA HealthInvariance == HealthSpec => []HealthIInv
<1>1. HealthInit => HealthIInv
  <2> SUFFICES ASSUME HealthInit PROVE HealthIInv
    OBVIOUS
  <2>1. IInv /\ marker = [text |-> "none", age |-> 0] /\ pressedFor = 0 /\ journal = NoJournal
        /\ booted = FALSE
    BY InitIInv DEF HealthInit, Init
  <2>2. /\ marker \in [text : {"none", "ready", "paused"}, age : Ages] /\ marker.text = "none"
        /\ pressedFor \in Ages /\ ~journal.pressured
    BY <2>1, MaxAgeAssumption DEF Ages, NoJournal
  <2>3. QED
    BY <2>1, <2>2 DEF HealthIInv, HealthTypeOK, MarkerInv, IInv
<1>2. QED
  BY <1>1, HealthStep, PTL DEF HealthSpec

\* The health endpoint does not answer 200 between runs while downloads are
\* held, however many runs fail or are killed before, but after a reboot: until
\* the next run has ended, and for no longer than an old "ready" lasts
\* (health.py:41 to :59 and :187 to :211).
THEOREM RestingTells == HealthSpec => []RestingHealthTellsPressure
<1>1. HealthIInv => RestingHealthTellsPressure
  <2> SUFFICES ASSUME HealthIInv, pc = "idle", journal.pressured, Healthy
               PROVE  booted /\ pressedFor <= MaxAge
    BY DEF RestingHealthTellsPressure
  <2>1. JobCheck = "healthy" /\ PressureCheck = "healthy"
    BY DEF Healthy
  <2>2. ~failed
    BY <2>1 DEF JobCheck
  <2>3. marker.text = "ready" /\ marker.age <= MaxAge
    BY <2>1 DEF PressureCheck
  <2>4. booted
    BY <2>2, <2>3 DEF HealthIInv, MarkerInv
  <2>5. pressedFor <= marker.age
    BY <2>3 DEF HealthIInv, MarkerInv
  <2> QED BY <2>3, <2>4, <2>5, MarkerFields, MaxAgeAssumption DEF HealthIInv, Ages
<1> QED BY <1>1, HealthInvariance, PTL

---------------------------------------------------------------------------
(* The guard under its health markers. *)

\* Seen without the markers, a behaviour of the guard and its health check is
\* one of the guard: publishing what was done changes nothing it decides by.
THEOREM HealthIsGuard == HealthSpec => Spec
<1>1. HealthInit => Init
  BY DEF HealthInit
<1>2. [HealthNext]_<<vars, healthVars>> => [Next]_vars
  BY DEF HealthNext, Publish, Tick, Others, Next, vars
<1> QED BY <1>1, <1>2, PTL DEF HealthSpec, Spec

\* The guard keeps the contract of the pause under its markers too.
THEOREM ContractUnderHealth == HealthSpec => KeepsContract
  BY HealthIsGuard, ContractKept
==========================================================================
