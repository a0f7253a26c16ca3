----------------------- MODULE AccountUpdateProofs -----------------------
(***************************************************************************)
(* Safety of the account job for any secrets and any number of rotations,  *)
(* edits and failures.                                                     *)
(***************************************************************************)
EXTENDS AccountUpdate, TLAPS

USE PasswordAssumption, BudgetAssumption DEF host, loaded

\* The job's requests leave the account well-typed and present; what they
\* write of the password is what the run has loaded, and unrecorded.
LEMMA EffectFacts ==
  ASSUME TypeOK, RunInv, Effect
  PROVE  /\ account' \in Accounts /\ account'.exists
         /\ print' \in Prints /\ touched' \in BOOLEAN /\ unsure' \in BOOLEAN
         /\ author' \in {"people", "before", "run"}
         /\ pc \in {"create", "policy", "password", "update"}
         /\ unsure' \/ (account'.password = account.password /\ print' = print
                          /\ touched' = touched)
         /\ pc # "policy" => print' = password \/ account'.password = password
  <1> USE DEF TypeOK, RunInv, Accounts, Policies, Prints, Matches
  <1>1. CASE Created       BY <1>1 DEF Created
  <1>2. CASE PolicyWritten BY <1>2 DEF PolicyWritten
  <1>3. CASE PasswordWritten BY <1>3 DEF PasswordWritten
  <1>4. CASE Updated       BY <1>4 DEF Updated
  <1> QED BY <1>1, <1>2, <1>3, <1>4 DEF Effect

\* What the requests make of the policy and of who created the account.
LEMMA EffectPolicy ==
  ASSUME TypeOK, RunInv, Effect, account'.policy = "default", author' # "people"
  PROVE  IF pc = "create" THEN service = "jellyfin"
         ELSE pc = "password" /\ account.policy = "default" /\ author' = author
  <1> USE DEF TypeOK, RunInv, Accounts
  <1>1. CASE Created         BY <1>1 DEF Created
  <1>2. CASE PolicyWritten   BY <1>2 DEF PolicyWritten
  <1>3. CASE PasswordWritten BY <1>3 DEF PasswordWritten
  <1>4. CASE Updated         BY <1>4 DEF Updated
  <1> QED BY <1>1, <1>2, <1>3, <1>4 DEF Effect

\* Every step of the job, of its failures and of the people preserves IInv.
LEMMA StepKeeps == IInv /\ [Next]_vars => IInv'
  <1> SUFFICES ASSUME IInv, [Next]_vars PROVE IInv'
    OBVIOUS
  <1> USE DEF IInv
  <1>0. CASE UNCHANGED vars
    BY <1>0 DEF vars, TypeOK, RunInv, PolicyInv, FingerprintTrue, Matches
  <1>1. CASE StartJob
    BY <1>1 DEF StartJob, TypeOK, RunInv, PolicyInv, FingerprintTrue, Spending
  <1>8. CASE SignIn \/ Refused
    BY <1>8 DEF SignIn, Refused, TypeOK, RunInv, PolicyInv, FingerprintTrue
  <1>2. CASE List
    BY <1>2 DEF List, Plan, Update, Password, TypeOK, RunInv, PolicyInv, FingerprintTrue,
                Matches, Accounts, Policies, Spending
  <1>3. CASE Request
    <2>1. pc' \in {"idle", "policy", "password", "save"}
      BY <1>3 DEF Request, Then, Password
    <2>2. pc' = "save" => pc # "policy"
      BY <1>3 DEF Request, Then, Password
    <2>3. TypeOK'
      BY <1>3, <2>1, EffectFacts DEF Request, TypeOK
    <2>4. RunInv'
      BY <1>3, <2>1, <2>2, EffectFacts DEF Request, RunInv
    <2>5. PolicyInv'
      <3>1. pc = "create" /\ service = "jellyfin" => pc' = "policy"
        BY <1>3 DEF Request, Then
      <3> QED BY <1>3, <3>1, EffectFacts, EffectPolicy DEF Request, PolicyInv, RunInv
    <2>6. FingerprintTrue'
      BY <1>3, EffectFacts DEF Request, FingerprintTrue, RunInv, Effect, Created, PolicyWritten,
         PasswordWritten, Updated
    <2> QED BY <2>3, <2>4, <2>5, <2>6
  <1>4. CASE Save
    <2>1. TypeOK' /\ RunInv' /\ PolicyInv'
      BY <1>4 DEF Save, TypeOK, RunInv, PolicyInv, Prints
    <2>2. FingerprintTrue'
      BY <1>4 DEF Save, TypeOK, RunInv, FingerprintTrue, Matches
    <2> QED BY <2>1, <2>2
  <1>5. CASE Fault
    <2>1. /\ spent' \in Spending /\ spent'.faults > 0
          /\ UNCHANGED <<service, mode, host, loaded>> /\ pc' = "idle"
      BY <1>5 DEF Fault, TypeOK, Spending
    <2>2. CASE Effect
      BY <2>1, <2>2, EffectFacts, EffectPolicy
         DEF TypeOK, RunInv, PolicyInv, FingerprintTrue, Effect, Created, PolicyWritten,
             PasswordWritten, Updated
    <2>3. CASE UNCHANGED <<account, print, touched, unsure, author>>
      BY <2>1, <2>3 DEF TypeOK, RunInv, PolicyInv, FingerprintTrue
    <2> QED BY <1>5, <2>2, <2>3 DEF Fault
  <1>6. CASE Rotate
    <2>1. spent' \in Spending /\ spent'.faults = spent.faults
      BY <1>6 DEF Rotate, TypeOK, Spending
    <2> QED
      BY <1>6, <2>1 DEF Rotate, TypeOK, RunInv, PolicyInv, FingerprintTrue
  <1>7. ASSUME NEW to \in Accounts, Edit(to) PROVE IInv'
    <2>1. spent' \in Spending /\ spent'.faults = spent.faults
      <3>1. \/ spent' = [spent EXCEPT !.edits = @ + 1]
            \/ spent' = [spent EXCEPT !.intrusions = @ + 1]
        BY <1>7 DEF Edit
      <3> QED BY <3>1 DEF TypeOK, Spending
    <2>2. TypeOK'
      BY <1>7, <2>1 DEF Edit, TypeOK, Prints
    <2>3. RunInv' /\ PolicyInv' /\ FingerprintTrue'
      BY <1>7, <2>1 DEF Edit, TypeOK, RunInv, PolicyInv, FingerprintTrue, Accounts
    <2> QED BY <2>2, <2>3
  <1> QED BY <1>0, <1>1, <1>2, <1>3, <1>4, <1>5, <1>6, <1>7, <1>8 DEF Next, Job

\* Init establishes IInv.
LEMMA InitHolds == Init => IInv
  <1> SUFFICES ASSUME Init PROVE IInv
    OBVIOUS
  <1>1. spent \in Spending
    BY DEF Init, Spending
  <1>2. touched \in BOOLEAN
    <2>1. account \in [exists : BOOLEAN, password : Passwords, policy : Policies]
      BY DEF Init, Accounts
    <2>2. account.exists \in BOOLEAN
      BY <2>1
    <2> QED BY <2>2, Zenon DEF Init
  <1>3. TypeOK
    BY <1>1, <1>2 DEF Init, TypeOK, Prints
  <1>4. RunInv /\ PolicyInv /\ FingerprintTrue
    BY DEF Init, RunInv, PolicyInv, FingerprintTrue
  <1> QED BY <1>3, <1>4 DEF IInv

\* IInv holds in every state: it is inductive.
THEOREM Safety == Spec => []IInv
  <1> QED BY InitHolds, StepKeeps, PTL DEF Spec

\* A recorded fingerprint speaks of the password that the server has, unless
\* a person chose another one or a write is unrecorded (the save after the
\* answer, jellyfin.py:208 to :228).
THEOREM FingerprintSafety == Spec => []FingerprintTrue
  <1>1. IInv => FingerprintTrue BY DEF IInv
  <1> QED BY <1>1, Safety, PTL

\* An account that the job created rests with the server's own policy only
\* after a failed request or a killed run (jellyfin.py:195 to :205).
THEOREM PolicySafety == Spec => []PolicyUnlessBrokenOff
  <1>1. IInv => PolicyUnlessBrokenOff BY DEF IInv, PolicyInv, PolicyUnlessBrokenOff
  <1> QED BY <1>1, Safety, PTL

\* A step of the people's counts as one.
LEMMA EditCounts == ASSUME TypeOK, ~Edited PROVE \A to \in Accounts : ~Edit(to)
  BY DEF Edit, Edited, TypeOK, Spending

\* In bootstrap mode only an absent account is created, and what follows the
\* creation belongs to the run that made it.
OwnInv ==
  mode = "bootstrap" =>
    /\ pc = "create" => ~account.exists
    /\ pc \in {"policy", "password"} => author = "run"
    /\ pc # "update"

\* OwnInv is inductive: edits during a run neither create nor delete.
LEMMA OwnStep == ASSUME IInv, OwnInv, [Next]_vars PROVE OwnInv'
  <1> USE DEF OwnInv
  <1>1. CASE UNCHANGED vars BY <1>1 DEF vars
  <1>2. CASE StartJob \/ SignIn \/ Refused
    BY <1>2 DEF StartJob, SignIn, Refused
  <1>3. CASE List BY <1>3 DEF List, Plan
  <1>4. CASE Request
    BY <1>4 DEF Request, Then, Password, Effect, Created, PolicyWritten, PasswordWritten, Updated
  <1>5. CASE Save BY <1>5 DEF Save
  <1>6. CASE Fault BY <1>6 DEF Fault
  <1>7. CASE Rotate BY <1>7 DEF Rotate
  <1>8. ASSUME NEW to \in Accounts, Edit(to) PROVE OwnInv'
    BY <1>8 DEF Edit
  <1> QED
    BY <1>1, <1>2, <1>3, <1>4, <1>5, <1>6, <1>7, <1>8 DEF Next, Job

\* In bootstrap mode the job writes an account in the run that creates it and
\* never again (jellyfin.py:187 to :200).
THEOREM KeepsInBootstrap == Spec => BootstrapKeeps
  <1>1. Init => OwnInv BY DEF Init, OwnInv
  <1>2. ASSUME IInv, OwnInv, [Next]_vars, mode = "bootstrap", account.exists,
               author # "run", ~Edited
        PROVE  account' = account
    <2>1. ~Effect
      BY <1>2 DEF OwnInv, Effect, Created, PolicyWritten, PasswordWritten, Updated
    <2>2. \A to \in Accounts : ~Edit(to)
      BY <1>2, EditCounts DEF IInv
    <2> QED
      BY <1>2, <2>1, <2>2 DEF Next, Job, StartJob, SignIn, Refused, List, Request, Save, Fault, Rotate, vars
  <1>3. IInv /\ OwnInv /\ [Next]_vars => OwnInv'
    BY OwnStep
  <1>4. IInv /\ OwnInv /\ [Next]_vars =>
          [mode = "bootstrap" /\ account.exists /\ author # "run" /\ ~Edited
             => account' = account]_vars
    BY <1>2
  <1> QED BY <1>1, <1>3, <1>4, Safety, PTL DEF Spec, BootstrapKeeps

---------------------------------------------------------------------------
(* The sign-in. *)

\* Jellyfin takes the policy and the password one by one.
StepwiseInv == service = "jellyfin" => pc # "update"

\* A request for Jellyfin's account that the job signs in with leaves its
\* password at the secret, where login and account have one.
LEMMA EffectSignsIn ==
  ASSUME IInv, StepwiseInv, Effect, service = "jellyfin", login = secret,
         signing = password, SignsIn, UNCHANGED host
  PROVE  SignsIn'
  <1> USE DEF IInv, TypeOK, SignsIn, Accounts
  <1>1. password # None
    OBVIOUS
  <1>2. CASE Created BY <1>2 DEF Created, RunInv
  <1>3. CASE PolicyWritten BY <1>3 DEF PolicyWritten
  <1>4. CASE PasswordWritten BY <1>1, <1>4 DEF PasswordWritten, Accepted
  <1>5. CASE Updated BY <1>5 DEF Updated, StepwiseInv
  <1> QED BY <1>2, <1>3, <1>4, <1>5 DEF Effect

\* A job of Jellyfin with one secret for its sign-in and the account does not
\* lock itself out, because the server asks for the present password once more
\* (jellyfin.py:213 to :214).
THEOREM SignInKept == Spec => OwnSignInKept
  <1>1. Init => StepwiseInv BY DEF Init, StepwiseInv
  <1>2. StepwiseInv /\ [Next]_vars => StepwiseInv'
    BY DEF StepwiseInv, Next, Job, StartJob, SignIn, Refused, List, Plan, Update, Password,
           Request, Then, Save, Fault, Rotate, Edit, vars
  <1>3. ASSUME IInv, StepwiseInv, [Next]_vars, service = "jellyfin", login = secret,
               signing = password, SignsIn, ~Edited, UNCHANGED host
        PROVE  SignsIn'
    <2>1. CASE Effect BY <1>3, <2>1, EffectSignsIn
    <2>2. CASE UNCHANGED account BY <1>3, <2>2 DEF SignsIn
    <2>3. \A to \in Accounts : ~Edit(to) BY <1>3, EditCounts DEF IInv
    <2>4. ~Rotate BY <1>3 DEF Rotate
    <2> QED
      BY <1>3, <2>1, <2>2, <2>3, <2>4
         DEF Next, Job, StartJob, SignIn, Refused, List, Request, Save, Fault, vars
  <1>4. IInv /\ StepwiseInv /\ [Next]_vars =>
          [service = "jellyfin" /\ login = secret /\ signing = password
             /\ SignsIn /\ ~Edited /\ UNCHANGED host => SignsIn']_vars
    BY <1>3
  <1> QED BY <1>1, <1>2, <1>4, Safety, PTL DEF Spec, OwnSignInKept

---------------------------------------------------------------------------
(* Rest. *)

\* A run that finds the account as declared makes no request but the listing.
LEMMA SettledStep ==
  ASSUME TypeOK, Settled, [Next]_vars, ~Edited, spent'.rotations = spent.rotations
  PROVE  Settled' /\ UNCHANGED <<account, print>>
  <1> USE DEF Settled
  <1>1. CASE UNCHANGED vars BY <1>1 DEF vars
  <1>2. CASE StartJob \/ SignIn \/ Refused
    BY <1>2 DEF StartJob, SignIn, Refused
  <1>3. CASE List BY <1>3 DEF List, Plan, Update, Password, Matches, TypeOK
  <1>4. ~Effect /\ pc # "save"
    BY DEF Effect, Created, PolicyWritten, PasswordWritten, Updated
  <1>5. CASE Fault BY <1>4, <1>5 DEF Fault
  <1>6. ~Rotate
    BY DEF Rotate, TypeOK, Spending
  <1> QED
    BY <1>1, <1>2, <1>3, <1>4, <1>5, <1>6, EditCounts DEF Next, Job, Request, Save

\* Once an account is as declared, no run writes it or its fingerprint again,
\* failing runs included, until a person or the secret changes
\* (jellyfin.py:200 to :209, navidrome.py:44 to :63).
THEOREM SettledStays == Spec => StaysSettled
  <1>1. IInv /\ [Next]_vars =>
          [Settled /\ ~Edited /\ spent'.rotations = spent.rotations
             => Settled' /\ UNCHANGED <<account, print>>]_vars
    BY SettledStep DEF IInv
  <1> QED BY <1>1, Safety, PTL DEF Spec, StaysSettled

\* Behind the policy request the policy is there, and the password that was
\* right at the sign-in still is, if nobody intrudes.
WrittenInv ==
  spent.intrusions = 0 =>
    /\ pc \in {"password", "save"} => account.policy = "declared"
    /\ pc \in {"list", "create", "policy", "password"} => Accepted

\* What is left for the requests is to make the policy the declared one.
LEMMA WrittenStep == ASSUME IInv, WrittenInv, [Next]_vars PROVE WrittenInv'
  <1> USE DEF WrittenInv, Accepted
  <1>1. CASE UNCHANGED vars BY <1>1 DEF vars
  <1>2. CASE StartJob \/ SignIn \/ Refused \/ Save \/ Fault \/ Rotate
    <2>1. CASE Rotate
      BY <2>1 DEF Rotate, IInv, TypeOK, Spending
    <2> QED BY <1>2, <2>1 DEF StartJob, SignIn, Refused, Save, Fault
  <1>3. CASE List BY <1>3 DEF List, Plan, Update, Password
  <1>4. CASE Request
    <2>1. account \in Accounts /\ UNCHANGED <<spent, loaded>> /\ pc' = Then
      BY <1>4 DEF Request, IInv, TypeOK
    <2>2. CASE Created
      <3>1. pc' \in {"policy", "save"} /\ (pc' = "save" => service # "jellyfin")
        BY <2>1, <2>2 DEF Created, Then
      <3>2. account'.policy = "declared" \/ pc' # "save"
        BY <2>2, <3>1 DEF Created
      <3>3. signing = None \/ spent.intrusions # 0
        BY <2>2 DEF Created, IInv, RunInv
      <3> QED BY <2>1, <3>1, <3>2, <3>3
    <2>3. CASE PolicyWritten
      <3>1. /\ account'.policy = "declared" /\ account'.exists = account.exists
            /\ account'.password = account.password
        BY <2>1, <2>3 DEF PolicyWritten, Accounts
      <3> QED BY <2>1, <2>3, <3>1 DEF PolicyWritten
    <2>4. CASE PasswordWritten
      <3>1. account'.policy = account.policy
        BY <2>1, <2>4 DEF PasswordWritten, Accounts
      <3> QED BY <2>1, <2>4, <3>1 DEF PasswordWritten, Then
    <2>5. CASE Updated
      <3>1. account'.policy = "declared" /\ pc' = "save"
        BY <2>1, <2>5 DEF Updated, Accounts, Then
      <3> QED BY <3>1
    <2> QED BY <1>4, <2>2, <2>3, <2>4, <2>5 DEF Request, Effect
  <1>5. ASSUME NEW to \in Accounts, Edit(to) PROVE WrittenInv'
    BY <1>5 DEF Edit, IInv, TypeOK, Spending
  <1> QED BY <1>1, <1>2, <1>3, <1>4, <1>5 DEF Next, Job

\* A run that ends by itself leaves the account as declared.
LEMMA RunEndsSettled ==
  ASSUME IInv, WrittenInv, Next, pc \notin {"idle", "signIn"}, pc' = "idle", spent' = spent,
         spent.intrusions = 0, password = secret
  PROVE  Settled'
  <1>1. ~Fault /\ ~Rotate /\ \A to \in Accounts : ~Edit(to)
    <2>1. spent \in Spending
      BY DEF IInv, TypeOK
    <2> QED BY <2>1, EditCounts DEF Fault, Rotate, Edited, IInv, Spending
  <1>2. CASE List
    BY <1>2 DEF List, Plan, Update, Password, Matches, Settled
  <1>3. CASE Request
    <2>1. pc = "policy" /\ Matches
      BY <1>3 DEF Request, Then, Password
    <2>2. PolicyWritten /\ account \in Accounts
      BY <1>3, <2>1 DEF Request, Effect, Created, PolicyWritten, PasswordWritten, Updated, IInv, TypeOK
    <2>3. account'.exists /\ account'.policy = "declared" /\ print' = print
      BY <2>1, <2>2 DEF PolicyWritten, Accounts, IInv, RunInv
    <2> QED BY <1>3, <2>1, <2>3 DEF Request, Matches, Settled
  <1>4. CASE Save
    BY <1>4 DEF Save, IInv, RunInv, WrittenInv, Settled
  <1>5. ~Refused
    BY DEF Refused, WrittenInv
  <1> QED BY <1>1, <1>2, <1>3, <1>4, <1>5 DEF Next, Job, StartJob, SignIn

\* One run settles the account, and no later one writes it or the fingerprint
\* again (jellyfin.py:178 to :227, audiobookshelf.py:46 to :92).
THEOREM Idempotence == Spec => Idempotent
  <1>1. Init => WrittenInv
    BY DEF Init, WrittenInv
  <1>2. IInv /\ WrittenInv /\ [Next]_vars => WrittenInv'
    BY WrittenStep
  <1>3. IInv /\ WrittenInv /\ [Next]_vars =>
          [pc \notin {"idle", "signIn"} /\ pc' = "idle" /\ spent' = spent /\ spent.intrusions = 0
             /\ password = secret => Settled']_vars
    BY RunEndsSettled
  <1>4. Spec => RunSettles
    BY <1>1, <1>2, <1>3, Safety, PTL DEF Spec, RunSettles
  <1> QED BY <1>4, SettledStays DEF Idempotent
==========================================================================
