---------------------------- MODULE Credentials ----------------------------
(***************************************************************************)
(* Password sign-in and recovery of one account (identity/native-auth.ts). *)
(* A login holds the credential row from the moment it reads the password  *)
(* until its session is inserted; a recovery reads its challenge and asks  *)
(* the provider outside of any transaction, then decides under locks.      *)
(***************************************************************************)
EXTENDS IdentityBase

CONSTANTS
  Holder,        \* the account; others share none of these rows
  MaxFailures,   \* 5 wrong passwords
  LockTime,      \* 15 minutes without sign-in
  MaxChallenges, \* bound on the recoveries that are asked for
  MaxSessions    \* bound on the sessions

ASSUME HolderAssumption == Holder \in Accounts /\ MaxFailures \in Nat \ {0} /\ LockTime \in Nat

VARIABLES
  password,    \* which password is current: the number of changes
  failures,    \* failed_attempts, as far as MaxFailures
  lockedUntil,
  sessions,    \* auth_sessions: the password each was opened with, and whether it is revoked
  challenges   \* password_reset_challenges, oldest first, with the changes made under each

credential == <<password, failures, lockedUntil>>
credentials == <<password, failures, lockedUntil, sessions, challenges>>

Mail == <<Holder, "email">>

CredentialsInit ==
  /\ password = 0 /\ failures = 0 /\ lockedUntil = 0
  /\ sessions = <<>> /\ challenges = <<>>

\* Mutant: the login reads the credentials without FOR UPDATE.
AlwaysFree == TRUE
CredentialFree == Busy({"login"}) = {}

\* The password is derived and compared while the row is locked.
loginRead(r, right) ==
  /\ CredentialFree /\ Len(sessions) < MaxSessions
  /\ Start(r, [op |-> "login", under |-> password, valid |-> right /\ lockedUntil <= clock])
  /\ UNCHANGED <<clock, code, crashes, credentials>>

\* Every failure counts, also while sign-in is locked; success clears the count.
loginWrite(r) ==
  /\ work[r] # None /\ work[r].op = "login" /\ Done(r)
  /\ \/ /\ work[r].valid
        /\ failures' = 0 /\ lockedUntil' = 0
        /\ sessions' = Append(sessions, [under |-> work[r].under, live |-> TRUE])
     \/ /\ ~ work[r].valid
        /\ failures' = Min({failures + 1, MaxFailures})
        /\ lockedUntil' = IF failures + 1 >= MaxFailures THEN clock + LockTime ELSE lockedUntil
        /\ UNCHANGED sessions
  /\ UNCHANGED <<clock, code, crashes, password, challenges>>

revokeNativeSession(i) ==
  /\ sessions[i].live
  /\ sessions' = [sessions EXCEPT ![i].live = FALSE]
  /\ UNCHANGED <<base, credential, challenges>>

\* The code is on its way before the challenge exists.
resetSend(r) ==
  /\ Len(challenges) + Cardinality({q \in Requests : work[q] # None /\ work[q].op = "reset"}) < MaxChallenges
  /\ Start(r, [op |-> "reset"])
  /\ code' = [code EXCEPT ![Mail] = TRUE]
  /\ UNCHANGED <<clock, crashes, credentials>>

resetInsert(r) ==
  /\ work[r] # None /\ work[r].op = "reset" /\ Done(r)
  /\ challenges' = Append(challenges,
       [expires |-> clock + CodeLife, attempts |-> 0, consumed |-> FALSE, changes |-> 0])
  /\ UNCHANGED <<clock, code, crashes, credential, sessions>>

Usable(c) == c.expires > clock /\ c.attempts < MaxAttempts

confirmRead(r) ==
  LET unused == {i \in DOMAIN challenges : ~ challenges[i].consumed}
  IN /\ unused # {} /\ Usable(challenges[Max(unused)])
     /\ Start(r, [op |-> "confirm", of |-> Max(unused), answer |-> None])
     /\ UNCHANGED <<clock, code, crashes, credentials>>

confirmAsk(r) ==
  /\ work[r] # None /\ work[r].op = "confirm" /\ work[r].answer = None
  /\ \E answer \in Answers(Mail) :
       /\ Answered(Mail, answer)
       /\ work' = [work EXCEPT ![r].answer = answer]
  /\ UNCHANGED <<clock, crashes, credentials>>

\* Mutant: the challenge is not looked at again once the provider has answered.
AsRead(c) == TRUE
StillUsable(c) == ~ c.consumed /\ Usable(c)

\* One transaction: the challenge FOR UPDATE, then the password, then every session.
confirmWrite(r) ==
  /\ work[r] # None /\ work[r].op = "confirm" /\ work[r].answer # None /\ Done(r)
  /\ LET i == work[r].of
         usable == StillUsable(challenges[i])
     IN \/ /\ ~ usable
           /\ UNCHANGED credentials
        \/ /\ usable /\ work[r].answer # "approved"
           /\ challenges' = [challenges EXCEPT ![i].attempts = @ + 1]
           /\ UNCHANGED <<credential, sessions>>
        \/ /\ usable /\ work[r].answer = "approved" /\ CredentialFree
           /\ challenges' = [challenges EXCEPT ![i].consumed = TRUE, ![i].changes = @ + 1]
           /\ password' = password + 1 /\ failures' = 0 /\ lockedUntil' = 0
           /\ sessions' = [s \in DOMAIN sessions |-> [sessions[s] EXCEPT !.live = FALSE]]
  /\ UNCHANGED <<clock, code, crashes>>

CredentialsNext ==
  \/ \E r \in Requests :
       \/ \E right \in BOOLEAN : loginRead(r, right)
       \/ loginWrite(r) \/ resetSend(r) \/ resetInsert(r)
       \/ confirmRead(r) \/ confirmAsk(r) \/ confirmWrite(r)
  \/ \E i \in DOMAIN sessions : revokeNativeSession(i)

(***************************************************************************)
(* Properties.                                                             *)
(***************************************************************************)
\* Every session that is still accepted was opened with the current password: a
\* login that verified the old one while a recovery changed it is either revoked
\* with the others or was refused (loginNativeAccount, confirmPasswordReset).
SessionsUnderCurrentPassword == \A i \in DOMAIN sessions : sessions[i].live => sessions[i].under = password

\* A recovery challenge changes the password at most once, although its state is
\* read before the provider is asked and several confirmations, and several codes,
\* may be under way (confirmPasswordReset).
ChangedOncePerChallenge == \A i \in DOMAIN challenges : challenges[i].changes <= 1
=============================================================================
