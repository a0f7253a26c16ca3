-------------------------- MODULE AccountUpdate --------------------------
(***************************************************************************)
(* A declared account of Jellyfin, Navidrome or Audiobookshelf under its   *)
(* adapter, src/scripts/integration/adapters/: the job signs in, lists the *)
(* accounts, creates the missing one, writes its policy and, when the      *)
(* fingerprint in its state file does not match, its password.  Jellyfin   *)
(* takes these as separate requests, the two audio servers as one.  The    *)
(* fingerprint is saved after the server has answered.  The account may be *)
(* the one that the job signs in with; Navidrome's adapter refuses that.   *)
(*                                                                         *)
(* Requests are refused or lose their answers, runs are killed, the host's *)
(* secrets rotate, and people work with the account.                       *)
(***************************************************************************)
EXTENDS Naturals

CONSTANTS
  Passwords,     \* values of the runtime secret, and what people choose
  None,          \* no fingerprint, or no sign-in with this account
  MaxRotations,  \* bound: new values of the host's secrets
  MaxEdits,      \* bound: changes people make
  MaxFaults      \* bound: refused requests, lost answers, killed runs

ASSUME PasswordAssumption == None \notin Passwords /\ Passwords # {}
ASSUME BudgetAssumption == MaxRotations \in Nat /\ MaxEdits \in Nat /\ MaxFaults \in Nat

VARIABLES
  service,   \* which adapter: "jellyfin" or "audio"
  mode,      \* config["mode"]
  secret,    \* the host's password file of the account
  login,     \* the host's password file for signing in; None where the job has
             \* an API key or signs in with another account
  account,   \* the server's account
  print,     \* the fingerprint that the state file holds under the account's id
  pc,        \* the job's next step; "idle" between runs
  password,  \* spec["password"], loaded when the run began
  signing,   \* login["password"], loaded then too
  touched,   \* history: a person chose the present password
  unsure,    \* history: a password was written and its fingerprint not saved
  author,    \* history: who created the account: people, an earlier run, this or the last one
  spent      \* how much of each bound is used

host == <<secret, login>>
loaded == <<password, signing>>
vars == <<service, mode, host, account, print, pc, loaded, touched, unsure, author, spent>>

Policies == {"default", "declared", "other"}
Accounts == [exists : BOOLEAN, password : Passwords, policy : Policies]
Prints == Passwords \cup {None}
Spending == [rotations : Nat, edits : Nat, intrusions : Nat, faults : Nat]

TypeOK ==
  /\ service \in {"jellyfin", "audio"} /\ mode \in {"managed", "bootstrap"}
  /\ secret \in Passwords /\ password \in Passwords
  /\ login \in Passwords \cup {None} /\ signing \in Passwords \cup {None}
  /\ account \in Accounts
  /\ print \in Prints
  /\ pc \in {"idle", "signIn", "list", "create", "policy", "password", "update", "save"}
  /\ touched \in BOOLEAN /\ unsure \in BOOLEAN /\ author \in {"people", "before", "run"}
  /\ spent \in Spending

Init ==
  /\ service \in {"jellyfin", "audio"} /\ mode \in {"managed", "bootstrap"}
  /\ secret \in Passwords /\ password = secret
  /\ account \in Accounts /\ account.policy # "declared"
  /\ login \in Passwords \cup {None} /\ signing = login
  /\ login # None => account.exists
  /\ print = None /\ pc = "idle"
  /\ touched = account.exists /\ unsure = FALSE /\ author = "people"
  /\ spent = [rotations |-> 0, edits |-> 0, intrusions |-> 0, faults |-> 0]

---------------------------------------------------------------------------
(* One run of the job. *)

StartJob ==
  /\ pc = "idle"
  /\ pc' = "signIn"
  /\ password' = secret /\ signing' = login
  /\ author' = IF author = "run" THEN "before" ELSE author
  /\ UNCHANGED <<service, mode, host, account, print, touched, unsure, spent>>

\* Variant: the present password is not asked for.
AcceptedAlways == TRUE

\* What the job gives as the account's present password is right: to sign in,
\* and once more as CurrentPw where Jellyfin's user changes the own password.
Accepted == signing # None => account.exists /\ account.password = signing

SignIn ==
  /\ pc = "signIn" /\ Accepted
  /\ pc' = "list"
  /\ UNCHANGED <<service, mode, host, account, print, loaded, touched, unsure, author, spent>>

\* An answer of 401 or 403 ends the run.
Refused ==
  /\ pc \in {"signIn", "password"} /\ ~Accepted
  /\ pc' = "idle"
  /\ UNCHANGED <<service, mode, host, account, print, loaded, touched, unsure, author, spent>>

\* Variant: the password is replayed in every run.
MatchesNever == FALSE

Matches == print = password

\* What is left of a Jellyfin account whose policy is in order.
Password == IF Matches THEN "idle" ELSE "password"

\* What is to be done about an account that exists, in managed mode.
Update ==
  IF service = "audio"
    THEN IF account.policy = "declared" /\ Matches THEN "idle" ELSE "update"
    ELSE IF account.policy = "declared" THEN Password ELSE "policy"

\* Variants: the mode is not asked for; an account that has its policy is
\* taken to be in order.
PlanManaged == IF account.exists THEN Update ELSE "create"
PlanPolicy ==
  IF ~account.exists THEN "create"
  ELSE IF mode = "bootstrap" \/ account.policy = "declared" THEN "idle" ELSE Update

\* What is to be done about the account as it is listed.
Plan ==
  IF ~account.exists THEN "create"
  ELSE IF mode = "bootstrap" THEN "idle" ELSE Update

List ==
  /\ pc = "list"
  /\ pc' = Plan
  /\ UNCHANGED <<service, mode, host, account, print, loaded, touched, unsure, author, spent>>

\* The requests: POST /Users/New creates a Jellyfin account with the server's
\* own policy, the audio servers take everything at once.
Created ==
  /\ pc = "create"
  /\ account' = [exists |-> TRUE, password |-> password,
                 policy |-> IF service = "jellyfin" THEN "default" ELSE "declared"]
  /\ print' = None
  /\ touched' = FALSE /\ unsure' = TRUE /\ author' = "run"

PolicyWritten ==
  /\ pc = "policy"
  /\ account' = [account EXCEPT !.policy = "declared"]
  /\ UNCHANGED <<print, touched, unsure, author>>

PasswordWritten ==
  /\ pc = "password" /\ Accepted
  /\ account' = [account EXCEPT !.password = password]
  /\ touched' = FALSE /\ unsure' = TRUE
  /\ UNCHANGED <<print, author>>

\* One request of an audio server carries the password only where needed.
Updated ==
  /\ pc = "update"
  /\ account' = [account EXCEPT !.policy = "declared",
                                !.password = IF Matches THEN @ ELSE password]
  /\ touched' = (touched /\ Matches) /\ unsure' = (unsure \/ ~Matches)
  /\ UNCHANGED <<print, author>>

Effect == Created \/ PolicyWritten \/ PasswordWritten \/ Updated

\* Variant: the policy of a new account is left to the server.
ThenWithoutPolicy ==
  IF pc = "create" /\ service = "jellyfin" THEN "password"
  ELSE IF pc = "policy" THEN Password ELSE "save"

\* The step after the request at hand.
Then ==
  IF pc = "create" /\ service = "jellyfin" THEN "policy"
  ELSE IF pc = "policy" THEN Password ELSE "save"

Request ==
  /\ Effect
  /\ pc' = Then
  /\ UNCHANGED <<service, mode, host, loaded, spent>>

\* The state file is replaced by a rename.
Save ==
  /\ pc = "save"
  /\ print' = password
  /\ unsure' = (unsure /\ Matches)
  /\ pc' = "idle"
  /\ UNCHANGED <<service, mode, host, account, loaded, touched, author, spent>>

---------------------------------------------------------------------------
(* Everything else. *)

\* Variant: the fingerprint is saved although the request failed.
FaultSaving ==
  /\ pc # "idle"
  /\ pc' = "idle"
  /\ UNCHANGED <<account, touched, unsure, author>>
  /\ print' = password
  /\ spent.faults < MaxFaults
  /\ spent' = [spent EXCEPT !.faults = @ + 1]
  /\ UNCHANGED <<service, mode, host, loaded>>

\* A request is refused, its answer is lost, or the run is killed: every one
\* of them ends the run, with the request at hand carried out or not.
Fault ==
  /\ pc # "idle"
  /\ pc' = "idle"
  /\ Effect \/ UNCHANGED <<account, print, touched, unsure, author>>
  /\ spent.faults < MaxFaults
  /\ spent' = [spent EXCEPT !.faults = @ + 1]
  /\ UNCHANGED <<service, mode, host, loaded>>

\* The host gets new secrets, one or both, or an API key in place of `login`.
Rotate ==
  /\ spent.rotations < MaxRotations
  /\ secret' \in Passwords
  /\ login' \in IF login = None THEN {None} ELSE Passwords \cup {None}
  /\ host' # host
  /\ spent' = [spent EXCEPT !.rotations = @ + 1]
  /\ UNCHANGED <<service, mode, account, print, pc, loaded, touched, unsure, author>>

\* People choose another password or policy, never the server's own one;
\* between the runs they delete the account or create it, which gives it a new id.
Edit(to) ==
  /\ spent.edits + spent.intrusions < MaxEdits
  /\ \/ /\ pc = "idle"
        /\ spent' = [spent EXCEPT !.edits = @ + 1]
     \/ /\ pc # "idle" /\ account.exists /\ to.exists
        /\ spent' = [spent EXCEPT !.intrusions = @ + 1]
  /\ to # account
  /\ to.policy \in {account.policy, "other"} \/ ~account.exists
  /\ account' = to
  /\ print' = IF account.exists /\ to.exists THEN print ELSE None
  /\ touched' = (touched \/ to.password # account.password \/ ~account.exists)
  /\ author' = IF account.exists /\ to.exists THEN author ELSE "people"
  /\ UNCHANGED <<service, mode, host, pc, loaded, unsure>>

---------------------------------------------------------------------------
Job == StartJob \/ SignIn \/ Refused \/ List \/ Request \/ Save

Next == Job \/ Fault \/ Rotate \/ \E to \in Accounts : Edit(to)

Spec == Init /\ [][Next]_vars

\* The timer starts the job a quarter of an hour after the last run, and every
\* request ends within its timeout.
FairSpec == Spec /\ WF_vars(Job)

---------------------------------------------------------------------------
(* Properties. *)

Edited == spent'.edits # spent.edits \/ spent'.intrusions # spent.intrusions

\* A fingerprint speaks of the password the server has: after any failures,
\* rotations and edits, unless a person chose another one or a write is
\* unrecorded.
FingerprintTrue ==
  account.exists /\ print # None /\ ~touched /\ ~unsure => account.password = print

\* Bootstrap writes an account in the run that creates it and never again,
\* whatever people make of it between the requests (docs/integration.md:22).
BootstrapKeeps ==
  [][mode = "bootstrap" /\ account.exists /\ author # "run" /\ ~Edited
       => account' = account]_vars

\* An account that the job created does not rest with the server's own policy,
\* which grants more than the declared defaults (docs/integration.md:163-166),
\* unless a request failed or a run was killed.
PolicyUnlessBrokenOff ==
  pc = "idle" /\ author # "people" /\ account.exists /\ account.policy = "default"
    => service = "jellyfin" /\ spent.faults > 0

\* Signing in works with what the host has.
SignsIn == login # None => account.exists /\ account.password = login

\* The present password is as declared, as far as anything can tell: a person
\* has not chosen another one since, and the secret did not go back to the
\* recorded value over an unrecorded write.
PasswordKnown == account.password = secret \/ touched \/ (unsure /\ print = secret)

\* If signing in works in the end, the account exists in the end and, in
\* managed mode, has its policy and its password.  The condition is on the
\* host and on people: where the job signs in with the account itself, a new
\* secret needs "coordination with the server's current credential"
\* (docs/integration.md:178-180, :232-233), and without it no run gets further
\* than its sign-in.
Converges ==
  <>[]SignsIn =>
    <>[](account.exists /\ (mode = "managed" => account.policy = "declared" /\ PasswordKnown))

\* A job of Jellyfin that has one secret for both does not lock itself out:
\* whatever passes between its sign-in and its last request, an attended change
\* of the server's password and of the host's secret included, no step of a run
\* takes away a sign-in that works.
OwnSignInKept ==
  [][service = "jellyfin" /\ login = secret /\ signing = password
       /\ SignsIn /\ ~Edited /\ UNCHANGED host
     => SignsIn']_vars

\* The account is as declared, as far as the job can tell, and the run that may
\* be under way has loaded the secret of now.
Settled ==
  /\ account.exists
  /\ pc \in {"idle", "signIn", "list"} /\ (pc # "idle" => password = secret)
  /\ mode = "managed" => account.policy = "declared" /\ print = secret

\* A settled account is settled for good and written by no run, failing runs
\* included, until a person or the secret changes: "unchanged credentials are
\* not replayed on every run" (docs/autobrr.md:40 says it of the same
\* fingerprints; tests/integration/test_audiobooks.py:17 expects it here).
StaysSettled ==
  [][Settled /\ ~Edited /\ spent'.rotations = spent.rotations
       => Settled' /\ UNCHANGED <<account, print>>]_vars

\* A run that has signed in settles the account, whatever earlier runs left of
\* it, if nothing fails, nobody intrudes and the secret is still the one that it has loaded.
RunSettles ==
  [][pc \notin {"idle", "signIn"} /\ pc' = "idle" /\ spent' = spent /\ spent.intrusions = 0 /\ password = secret
       => Settled']_vars

\* The job is idempotent: one run does all there is to do, the next nothing.
Idempotent == RunSettles /\ StaysSettled

---------------------------------------------------------------------------
(* The inductive invariant behind FingerprintTrue and PolicyUnlessBrokenOff. *)

\* A run that has passed the listing works on an account that is there, and
\* saves the fingerprint of what it wrote.
RunInv ==
  /\ pc \in {"policy", "password", "update", "save"} => account.exists
  /\ pc = "create" => ~account.exists
  /\ pc = "save" => print = password \/ touched \/ account.password = password

\* The server's own policy lasts until the policy request, or a failure.
PolicyInv ==
  account.exists /\ author # "people" /\ account.policy = "default"
    => service = "jellyfin" /\ (spent.faults > 0 \/ pc = "policy")

IInv == TypeOK /\ RunInv /\ PolicyInv /\ FingerprintTrue
==========================================================================
