---------------------------- MODULE IdentityProofs ----------------------------
(***************************************************************************)
(* Proofs about Identity: a session that is accepted was opened with the   *)
(* current password, a recovery changes the password once, an address gets *)
(* no more codes than the limits allow, and a verified account is not      *)
(* taken back by a session that was being opened.                          *)
(*                                                                         *)
(* The handlers share the requests under way.  Each invariant says what a  *)
(* request in the middle of one kind of work may rely on: the password is  *)
(* still the one a login has read, the account it sends a code for has no  *)
(* other request, the account it opens a session for is not verified.      *)
(* Steps of the other handlers start no work of that kind.                 *)
(***************************************************************************)
EXTENDS Identity, FiniteSetTheorems, TLAPS

\* The requests and their work; a confirmation keeps the shape it was started with.
WorkOK ==
  /\ clock \in Nat /\ crashes \in Nat
  /\ work = [r \in Requests |-> work[r]]
  /\ \A r \in Requests : work[r] # None /\ work[r].op = "confirm" =>
       work[r] = [op |-> "confirm", of |-> work[r].of, answer |-> work[r].answer]

(***************************************************************************)
(* What the steps of each handler do to the work of a request: nothing, or *)
(* they end it, or it is work of that handler.                             *)
(***************************************************************************)
OnlyWork(ops) ==
  \A q \in Requests : work'[q] = work[q] \/ work'[q] = None \/ work'[q].op \in ops

\* Starting work or ending it concerns one request.
LEMMA WorkOf ==
  ASSUME WorkOK, NEW r \in Requests, NEW what, work' = [work EXCEPT ![r] = what]
  PROVE  /\ work' = [q \in Requests |-> work'[q]]
         /\ work'[r] = what /\ \A q \in Requests \ {r} : work'[q] = work[q]
BY DEF WorkOK

\* A request that asks the provider remembers the answer, and nothing else changes.
LEMMA WorkAsk ==
  ASSUME WorkOK, NEW r \in Requests, confirmAsk(r)
  PROVE  \E answer : work' = [work EXCEPT ![r] = [op |-> "confirm", of |-> work[r].of, answer |-> answer]]
<1>1. PICK answer : work' = [work EXCEPT ![r].answer = answer]
  BY DEF confirmAsk
<1>2. work[r] # None /\ work[r].op = "confirm"
  BY DEF confirmAsk
<1>3. work[r] = [op |-> "confirm", of |-> work[r].of, answer |-> work[r].answer]
  BY <1>2 DEF WorkOK
<1>4. [work[r] EXCEPT !.answer = answer] = [op |-> "confirm", of |-> work[r].of, answer |-> answer]
  BY <1>3
<1>5. QED  BY <1>1, <1>4

\* Which requests each component moves: those of sign-in and recovery,
LEMMA CredentialWork ==
  ASSUME WorkOK, CredentialsNext
  PROVE  OnlyWork({"login", "reset", "confirm"}) /\ WorkOK'
<1>1. ASSUME NEW r \in Requests, NEW what, work' = [work EXCEPT ![r] = what],
             \/ what = None
             \/ what.op \in {"login", "reset"}
             \/ what = [op |-> "confirm", of |-> what.of, answer |-> what.answer],
             UNCHANGED <<clock, crashes>>
      PROVE  OnlyWork({"login", "reset", "confirm"}) /\ WorkOK'
  <2>1. /\ work' = [q \in Requests |-> work'[q]]
        /\ work'[r] = what /\ \A q \in Requests \ {r} : work'[q] = work[q]
    BY <1>1, WorkOf
  <2>2. QED  BY <1>1, <2>1 DEF WorkOK, OnlyWork
<1>2. ASSUME NEW r \in Requests, NEW right \in BOOLEAN, loginRead(r, right)
      PROVE  OnlyWork({"login", "reset", "confirm"}) /\ WorkOK'
  <2>1. [op |-> "login", under |-> password, valid |-> right /\ lockedUntil <= clock].op = "login"
    OBVIOUS
  <2>2. QED  BY <1>1, <1>2, <2>1 DEF loginRead, Start
<1>3. ASSUME NEW r \in Requests, loginWrite(r) \/ resetInsert(r) \/ confirmWrite(r)
      PROVE  OnlyWork({"login", "reset", "confirm"}) /\ WorkOK'
  BY <1>1, <1>3 DEF loginWrite, resetInsert, confirmWrite, Done
<1>4. ASSUME NEW r \in Requests, resetSend(r)
      PROVE  OnlyWork({"login", "reset", "confirm"}) /\ WorkOK'
  BY <1>1, <1>4 DEF resetSend, Start
<1>5. ASSUME NEW r \in Requests, confirmRead(r)
      PROVE  OnlyWork({"login", "reset", "confirm"}) /\ WorkOK'
  BY <1>1, <1>5 DEF confirmRead, Start
<1>6. ASSUME NEW r \in Requests, confirmAsk(r)
      PROVE  OnlyWork({"login", "reset", "confirm"}) /\ WorkOK'
  <2>1. UNCHANGED <<clock, crashes>>
    BY <1>6 DEF confirmAsk
  <2>2. QED  BY <1>1, <1>6, <2>1, WorkAsk
<1>7. ASSUME NEW i \in DOMAIN sessions, revokeNativeSession(i)
      PROVE  OnlyWork({"login", "reset", "confirm"}) /\ WorkOK'
  BY <1>7 DEF revokeNativeSession, base, OnlyWork, WorkOK
<1>8. QED  BY <1>2, <1>3, <1>4, <1>5, <1>6, <1>7 DEF CredentialsNext

\* A step that starts work of another kind, or ends work.
LEMMA OtherWork ==
  ASSUME WorkOK, NEW r \in Requests, NEW what, work' = [work EXCEPT ![r] = what],
         NEW ops, what = None \/ what.op \in ops, "confirm" \notin ops,
         clock' \in Nat, crashes' \in Nat
  PROVE  OnlyWork(ops) /\ WorkOK'
<1>1. /\ work' = [q \in Requests |-> work'[q]]
      /\ work'[r] = what /\ \A q \in Requests \ {r} : work'[q] = work[q]
  BY WorkOf
<1>2. QED  BY <1>1 DEF WorkOK, OnlyWork

\* those of contact codes,
LEMMA ContactWork ==
  ASSUME WorkOK, ContactNext
  PROVE  OnlyWork({"send", "check"}) /\ WorkOK'
<1>1. ASSUME NEW r \in Requests, NEW a \in Accounts, NEW ch \in Channels, sendCall(r, a, ch)
      PROVE  OnlyWork({"send", "check"}) /\ WorkOK'
  <2>1. PICK state : Start(r, [op |-> "send", to |-> <<a, ch>>, at |-> clock, state |-> state])
    BY <1>1 DEF sendCall
  <2>2. [op |-> "send", to |-> <<a, ch>>, at |-> clock, state |-> state].op \in {"send", "check"}
    OBVIOUS
  <2>3. UNCHANGED <<clock, crashes>>
    BY <1>1 DEF sendCall
  <2>4. QED  BY <2>1, <2>2, <2>3, OtherWork DEF Start, WorkOK
<1>2. ASSUME NEW r \in Requests, NEW a \in Accounts, NEW ch \in Channels, checkCall(r, a, ch)
      PROVE  OnlyWork({"send", "check"}) /\ WorkOK'
  <2>1. PICK answer : Start(r, [op |-> "check", to |-> <<a, ch>>, at |-> clock, answer |-> answer])
    BY <1>2 DEF checkCall
  <2>2. [op |-> "check", to |-> <<a, ch>>, at |-> clock, answer |-> answer].op \in {"send", "check"}
    OBVIOUS
  <2>3. UNCHANGED <<clock, crashes>>
    BY <1>2 DEF checkCall
  <2>4. QED  BY <2>1, <2>2, <2>3, OtherWork DEF Start, WorkOK
<1>3. ASSUME NEW r \in Requests, sendWrite(r) \/ checkWrite(r)
      PROVE  OnlyWork({"send", "check"}) /\ WorkOK'
  BY <1>3, OtherWork DEF sendWrite, checkWrite, Done, WorkOK
<1>4. QED  BY <1>1, <1>2, <1>3 DEF ContactNext

\* those of inquiries,
LEMMA EvidenceWork ==
  ASSUME WorkOK, NEW addresses, EvidenceNext(addresses)
  PROVE  OnlyWork({"session"}) /\ WorkOK'
<1>1. ASSUME NEW r \in Requests, NEW q \in Inquiries, sessionCall(r, q, addresses)
      PROVE  OnlyWork({"session"}) /\ WorkOK'
  <2>1. [op |-> "session", of |-> q].op = "session"
    OBVIOUS
  <2>2. QED  BY <1>1, <2>1, OtherWork DEF sessionCall, Start, WorkOK
<1>2. ASSUME NEW r \in Requests, sessionWrite(r)
      PROVE  OnlyWork({"session"}) /\ WorkOK'
  BY <1>2, OtherWork DEF sessionWrite, Done, WorkOK
<1>3. ASSUME NEW e \in Events, applyPersonaEvent(e)
      PROVE  OnlyWork({"session"}) /\ WorkOK'
  BY <1>3 DEF applyPersonaEvent, base, OnlyWork, WorkOK
<1>4. QED  BY <1>1, <1>2, <1>3 DEF EvidenceNext

\* and, for the clock and lost requests, none new.
LEMMA BaseWork ==
  ASSUME WorkOK, Tick \/ \E r \in Requests : Lost(r)
  PROVE  OnlyWork({}) /\ WorkOK'
<1>1. CASE Tick
  BY <1>1 DEF Tick, WorkOK, OnlyWork
<1>2. ASSUME NEW r \in Requests, Lost(r)
      PROVE  OnlyWork({}) /\ WorkOK'
  BY <1>2, OtherWork DEF Lost, Done, WorkOK
<1>3. QED  BY <1>1, <1>2

\* A step belongs to one of the handlers, or to none.
LEMMA NextParts ==
  ASSUME Next
  PROVE  \/ CredentialsNext /\ UNCHANGED <<contacts, evidence>>
         \/ ContactNext /\ UNCHANGED <<credentials, evidence>>
         \/ EvidenceNext(verified) /\ UNCHANGED <<credentials, contacts>>
         \/ (Tick \/ \E r \in Requests : Lost(r)) /\ UNCHANGED <<credentials, contacts, evidence>>
BY DEF Next, ContactNext

\* Requests have the types of their operations.
LEMMA WorkInv == Spec => []WorkOK
<1>1. Init => WorkOK
  BY DEF Init, BaseInit, WorkOK
<1>2. ASSUME WorkOK, [Next]_vars
      PROVE  WorkOK'
  <2>1. CASE Next
    BY <1>2, <2>1, NextParts, CredentialWork, ContactWork, EvidenceWork, BaseWork
  <2>2. CASE UNCHANGED vars
    BY <1>2, <2>2 DEF WorkOK, vars, base
  <2>3. QED  BY <1>2, <2>1, <2>2
<1>3. QED  BY <1>1, <1>2, PTL DEF Spec

(***************************************************************************)
(* Sign-in and recovery.                                                   *)
(***************************************************************************)
Session   == [under : Nat, live : BOOLEAN]
Challenge == [expires : Nat, attempts : Nat, consumed : BOOLEAN, changes : Nat]

CredentialsInv ==
  /\ password \in Nat /\ sessions \in Seq(Session) /\ challenges \in Seq(Challenge)
  \* What a login under way has read is still the password.
  /\ \A r \in Requests : work[r] # None /\ work[r].op = "login" => work[r].under = password
  /\ \A i \in DOMAIN sessions : sessions[i].live => sessions[i].under = password
  /\ \A i \in DOMAIN challenges : challenges[i].changes = IF challenges[i].consumed THEN 1 ELSE 0

\* The steps of the other handlers leave it alone.
LEMMA CredentialsQuiet ==
  ASSUME CredentialsInv, UNCHANGED credentials, NEW ops, OnlyWork(ops), "login" \notin ops
  PROVE  CredentialsInv'
BY DEF CredentialsInv, OnlyWork, credentials

\* A challenge that changes has the form of a challenge again.
LEMMA ChallengeSteps ==
  ASSUME NEW c \in Challenge
  PROVE  /\ LET d == [c EXCEPT !.attempts = @ + 1]
            IN d \in Challenge /\ d.consumed = c.consumed /\ d.changes = c.changes
         /\ LET d == [c EXCEPT !.consumed = TRUE, !.changes = @ + 1]
            IN d \in Challenge /\ d.consumed /\ d.changes = c.changes + 1
<1>1. c.attempts + 1 \in Nat /\ c.changes + 1 \in Nat
  BY DEF Challenge
<1> PICK attempts \in Nat, changes \in Nat : attempts = c.attempts + 1 /\ changes = c.changes + 1
  BY <1>1
<1> PICK d : d = [c EXCEPT !.attempts = attempts]
  OBVIOUS
<1> PICK e : e = [c EXCEPT !.consumed = TRUE, !.changes = changes]
  OBVIOUS
<1>2. d \in Challenge
  BY DEF Challenge
<1>3. e \in Challenge
  <2>1. TRUE \in BOOLEAN /\ changes \in Nat
    OBVIOUS
  <2>2. QED  BY <2>1, Zenon DEF Challenge
<1>4. /\ d.consumed = c.consumed /\ d.changes = c.changes
      /\ e.consumed /\ e.changes = changes
  BY DEF Challenge
<1>5. [c EXCEPT !.attempts = @ + 1] = d /\ [c EXCEPT !.consumed = TRUE, !.changes = @ + 1] = e
  OBVIOUS
<1>6. QED  BY <1>2, <1>3, <1>4, <1>5

\* Opening a session under the current password, or closing sessions.
LEMMA SessionSteps ==
  ASSUME CredentialsInv
  PROVE  /\ LET after == Append(sessions, [under |-> password, live |-> TRUE])
            IN /\ after \in Seq(Session)
               /\ \A i \in DOMAIN after : after[i].live => after[i].under = password
         /\ \A i \in DOMAIN sessions :
              LET after == [sessions EXCEPT ![i].live = FALSE]
              IN /\ after \in Seq(Session)
                 /\ \A j \in DOMAIN after : after[j].live => after[j].under = password
         /\ LET after == [s \in DOMAIN sessions |-> [sessions[s] EXCEPT !.live = FALSE]]
            IN after \in Seq(Session) /\ \A j \in DOMAIN after : ~ after[j].live
<1> PICK ses \in Seq(Session), pw \in Nat : ses = sessions /\ pw = password
  BY DEF CredentialsInv
<1>1. \A i \in DOMAIN ses : ses[i] \in Session /\ (ses[i].live => ses[i].under = pw)
  BY DEF CredentialsInv
<1> PICK new : new = [under |-> pw, live |-> TRUE]
  OBVIOUS
<1>2. new \in Session /\ new.under = pw
  BY DEF Session
<1>3. \A s \in Session : LET t == [s EXCEPT !.live = FALSE] IN t \in Session /\ ~ t.live
  BY DEF Session
<1>4. LET after == Append(ses, new)
      IN /\ after \in Seq(Session)
         /\ \A i \in DOMAIN after : after[i].live => after[i].under = pw
  BY <1>1, <1>2
<1>5. ASSUME NEW i \in DOMAIN ses
      PROVE  LET after == [ses EXCEPT ![i].live = FALSE]
             IN /\ after \in Seq(Session)
                /\ \A j \in DOMAIN after : after[j].live => after[j].under = pw
  <2> PICK t : t = [ses[i] EXCEPT !.live = FALSE]
    OBVIOUS
  <2>1. t \in Session /\ ~ t.live
    BY <1>1, <1>3
  <2>2. [ses EXCEPT ![i].live = FALSE] = [ses EXCEPT ![i] = t]
    OBVIOUS
  <2>3. [ses EXCEPT ![i] = t] \in Seq(Session)
    BY <2>1
  <2>4. \A j \in DOMAIN ses : [ses EXCEPT ![i] = t][j] = IF j = i THEN t ELSE ses[j]
    OBVIOUS
  <2>5. QED  BY <1>1, <2>1, <2>2, <2>3, <2>4
<1>6. LET after == [s \in DOMAIN ses |-> [ses[s] EXCEPT !.live = FALSE]]
      IN after \in Seq(Session) /\ \A j \in DOMAIN after : ~ after[j].live
  <2>1. DOMAIN ses = 1..Len(ses) /\ Len(ses) \in Nat
    OBVIOUS
  <2>2. \A s \in DOMAIN ses : [ses[s] EXCEPT !.live = FALSE] \in Session /\ ~ [ses[s] EXCEPT !.live = FALSE].live
    BY <1>1, <1>3
  <2> PICK after : after = [s \in DOMAIN ses |-> [ses[s] EXCEPT !.live = FALSE]]
    OBVIOUS
  <2>3. after \in [1..Len(ses) -> Session]
    BY <2>1, <2>2
  <2>4. after \in Seq(Session)
    BY <2>1, <2>3, Z3
  <2>5. DOMAIN after = DOMAIN ses /\ \A j \in DOMAIN ses : ~ after[j].live
    BY <2>2
  <2>6. QED  BY <2>4, <2>5
<1>7. QED  BY <1>4, <1>5, <1>6

\* The part of the invariant that is about logins under way.
LoginsCurrent == \A r \in Requests : work[r] # None /\ work[r].op = "login" => work[r].under = password

\* A request that changes leaves the sign-ins of others current.
LEMMA LoginsKept ==
  ASSUME WorkOK, LoginsCurrent, NEW r \in Requests, NEW what, work' = [work EXCEPT ![r] = what],
         what = None \/ what.op # "login" \/ what.under = password',
         password' = password \/ CredentialFree
  PROVE  LoginsCurrent'
<1>1. work'[r] = what /\ \A q \in Requests \ {r} : work'[q] = work[q]
  BY WorkOf
<1>2. CredentialFree => \A q \in Requests : work[q] # None => work[q].op # "login"
  BY DEF CredentialFree, Busy
<1>3. QED  BY <1>1, <1>2 DEF LoginsCurrent

\* A step of Credentials keeps its invariant.
LEMMA CredentialsKept ==
  ASSUME WorkOK, CredentialsInv, CredentialsNext
  PROVE  CredentialsInv'
<1>1. LoginsCurrent /\ password \in Nat /\ clock \in Nat
  BY DEF CredentialsInv, LoginsCurrent, WorkOK
<1>2. ASSUME UNCHANGED credentials, LoginsCurrent'
      PROVE  CredentialsInv'
  BY <1>2 DEF CredentialsInv, LoginsCurrent, credentials
<1>3. ASSUME NEW r \in Requests, NEW right \in BOOLEAN, loginRead(r, right)
      PROVE  CredentialsInv'
  <2> PICK what : what = [op |-> "login", under |-> password, valid |-> right /\ lockedUntil <= clock]
    OBVIOUS
  <2>1. work' = [work EXCEPT ![r] = what] /\ UNCHANGED credentials
    BY <1>3 DEF loginRead, Start
  <2>2. what.under = password' /\ password' = password
    BY <2>1 DEF credentials
  <2>3. LoginsCurrent'
    BY <1>1, <2>1, <2>2, LoginsKept
  <2>4. QED  BY <1>2, <2>1, <2>3
<1>4. ASSUME NEW r \in Requests, loginWrite(r)
      PROVE  CredentialsInv'
  <2>1. work' = [work EXCEPT ![r] = None] /\ UNCHANGED <<password, challenges>>
    BY <1>4 DEF loginWrite, Done
  <2>2. LoginsCurrent'
    BY <1>1, <2>1, LoginsKept
  <2>3. work[r].under = password
    BY <1>1, <1>4 DEF loginWrite, LoginsCurrent
  <2>4. sessions' = sessions \/ sessions' = Append(sessions, [under |-> password, live |-> TRUE])
    BY <1>4, <2>3 DEF loginWrite
  <2>5. sessions' \in Seq(Session) /\ \A i \in DOMAIN sessions' : sessions'[i].live => sessions'[i].under = password
    BY <2>4, SessionSteps DEF CredentialsInv
  <2>6. QED  BY <2>1, <2>2, <2>5 DEF CredentialsInv, LoginsCurrent
<1>5. ASSUME NEW i \in DOMAIN sessions, revokeNativeSession(i)
      PROVE  CredentialsInv'
  <2>1. sessions' = [sessions EXCEPT ![i].live = FALSE] /\ UNCHANGED <<work, password, challenges>>
    BY <1>5 DEF revokeNativeSession, base, credential
  <2>2. sessions' \in Seq(Session) /\ \A j \in DOMAIN sessions' : sessions'[j].live => sessions'[j].under = password
    BY <2>1, SessionSteps
  <2>3. QED  BY <2>1, <2>2 DEF CredentialsInv
<1>6. ASSUME NEW r \in Requests, resetSend(r) \/ confirmRead(r)
      PROVE  CredentialsInv'
  <2>1. PICK what : what.op # "login" /\ work' = [work EXCEPT ![r] = what]
    BY <1>6 DEF resetSend, confirmRead, Start
  <2>2. UNCHANGED credentials
    BY <1>6 DEF resetSend, confirmRead
  <2>3. LoginsCurrent'
    BY <1>1, <2>1, <2>2, LoginsKept DEF credentials
  <2>4. QED  BY <1>2, <2>2, <2>3
<1>7. ASSUME NEW r \in Requests, confirmAsk(r)
      PROVE  CredentialsInv'
  <2>1. PICK answer : work' = [work EXCEPT ![r] = [op |-> "confirm", of |-> work[r].of, answer |-> answer]]
    BY <1>7, WorkAsk
  <2>2. UNCHANGED credentials
    BY <1>7 DEF confirmAsk
  <2>3. LoginsCurrent'
    BY <1>1, <2>1, <2>2, LoginsKept DEF credentials
  <2>4. QED  BY <1>2, <2>2, <2>3
<1>8. ASSUME NEW r \in Requests, resetInsert(r)
      PROVE  CredentialsInv'
  <2> PICK new : new = [expires |-> clock + CodeLife, attempts |-> 0, consumed |-> FALSE, changes |-> 0]
    OBVIOUS
  <2>1. /\ work' = [work EXCEPT ![r] = None] /\ UNCHANGED <<password, sessions>>
        /\ challenges' = Append(challenges, new)
    BY <1>8 DEF resetInsert, Done, credential
  <2>2. new \in Challenge /\ new.changes = 0 /\ ~ new.consumed
    BY <1>1, LifeAssumption DEF Challenge
  <2>3. LoginsCurrent'
    BY <1>1, <2>1, LoginsKept
  <2> PICK cs \in Seq(Challenge) : cs = challenges
    BY DEF CredentialsInv
  <2>4. \A i \in DOMAIN cs : cs[i].changes = IF cs[i].consumed THEN 1 ELSE 0
    BY DEF CredentialsInv
  <2>5. /\ Append(cs, new) \in Seq(Challenge)
        /\ \A i \in DOMAIN Append(cs, new) :
             Append(cs, new)[i].changes = IF Append(cs, new)[i].consumed THEN 1 ELSE 0
    BY <2>2, <2>4
  <2>6. QED  BY <2>1, <2>3, <2>5 DEF CredentialsInv, LoginsCurrent
<1>9. ASSUME NEW r \in Requests, confirmWrite(r)
      PROVE  CredentialsInv'
  <2> PICK i : i = work[r].of
    OBVIOUS
  <2> PICK cs \in Seq(Challenge) : cs = challenges
    BY DEF CredentialsInv
  <2>1. \A j \in DOMAIN cs : cs[j] \in Challenge /\ cs[j].changes = IF cs[j].consumed THEN 1 ELSE 0
    BY DEF CredentialsInv
  <2>2. work' = [work EXCEPT ![r] = None]
    BY <1>9 DEF confirmWrite, Done
  <2>3. ASSUME NEW d \in Challenge, d.changes = IF d.consumed THEN 1 ELSE 0,
               challenges' = [cs EXCEPT ![i] = d]
        PROVE  /\ challenges' \in Seq(Challenge)
               /\ \A j \in DOMAIN challenges' :
                    challenges'[j].changes = IF challenges'[j].consumed THEN 1 ELSE 0
    <3>1. challenges' \in Seq(Challenge) /\ DOMAIN challenges' = DOMAIN cs
      <4>1. CASE i \in DOMAIN cs
        BY <2>3, <4>1
      <4>2. CASE i \notin DOMAIN cs
        <5>1. [cs EXCEPT ![i] = d] = [j \in DOMAIN cs |-> cs[j]] /\ cs = [j \in DOMAIN cs |-> cs[j]]
          BY <4>2
        <5>2. [cs EXCEPT ![i] = d] = cs
          BY <5>1
        <5>3. challenges' = cs
          BY <2>3, <5>2
        <5>4. QED  BY <5>3
      <4>3. QED  BY <4>1, <4>2
    <3>2. \A j \in DOMAIN cs : challenges'[j] = IF j = i THEN d ELSE cs[j]
      BY <2>3
    <3>3. QED  BY <2>1, <2>3, <3>1, <3>2
  <2>4. CASE UNCHANGED credentials
    <3>1. LoginsCurrent'
      BY <1>1, <2>2, <2>4, LoginsKept DEF credentials
    <3>2. QED  BY <1>2, <2>4, <3>1
  <2>5. CASE /\ challenges' = [challenges EXCEPT ![i].attempts = @ + 1]
             /\ UNCHANGED <<credential, sessions>>
    <3>1. LoginsCurrent'
      BY <1>1, <2>2, <2>5, LoginsKept DEF credential
    <3>2. CASE i \in DOMAIN cs
      <4>1. PICK d \in Challenge : /\ challenges' = [cs EXCEPT ![i] = d]
                                  /\ d.changes = IF d.consumed THEN 1 ELSE 0
        <5>1. cs[i] \in Challenge /\ cs[i].changes = IF cs[i].consumed THEN 1 ELSE 0
          BY <2>1, <3>2
        <5> PICK d : d = [cs[i] EXCEPT !.attempts = @ + 1]
          OBVIOUS
        <5>2. d \in Challenge /\ d.changes = IF d.consumed THEN 1 ELSE 0
          BY <5>1, ChallengeSteps
        <5>3. challenges' = [cs EXCEPT ![i] = d]
          BY <2>5
        <5>4. QED  BY <5>2, <5>3
      <4>2. QED  BY <2>3, <2>5, <3>1, <4>1 DEF CredentialsInv, LoginsCurrent, credential
    <3>3. CASE i \notin DOMAIN cs
      <4>1. challenges' = [j \in DOMAIN cs |-> cs[j]]
        BY <2>5, <3>3
      <4>2. challenges' = challenges
        BY <4>1
      <4>3. QED  BY <1>2, <2>5, <3>1, <4>2 DEF credential, credentials
    <3>4. QED  BY <3>2, <3>3
  <2>6. CASE /\ challenges' = [challenges EXCEPT ![i].consumed = TRUE, ![i].changes = @ + 1]
             /\ ~ challenges[i].consumed /\ CredentialFree /\ password' = password + 1
             /\ sessions' = [s \in DOMAIN sessions |-> [sessions[s] EXCEPT !.live = FALSE]]
    <3>1. LoginsCurrent' /\ password' \in Nat
      <4>1. LoginsCurrent'
        BY <1>1, <2>2, <2>6, LoginsKept
      <4>2. password' \in Nat
        BY <1>1, <2>6
      <4>3. QED  BY <4>1, <4>2
    <3>2. sessions' \in Seq(Session) /\ \A j \in DOMAIN sessions' : ~ sessions'[j].live
      BY <2>6, SessionSteps
    <3>3. /\ challenges' \in Seq(Challenge)
          /\ \A j \in DOMAIN challenges' :
               challenges'[j].changes = IF challenges'[j].consumed THEN 1 ELSE 0
      <4>1. CASE i \in DOMAIN cs
        <5>1. cs[i] \in Challenge /\ cs[i].changes = 0 /\ ~ cs[i].consumed
          BY <2>1, <2>6, <4>1
        <5> PICK d : d = [cs[i] EXCEPT !.consumed = TRUE, !.changes = @ + 1]
          OBVIOUS
        <5>2. d \in Challenge /\ d.consumed /\ d.changes = cs[i].changes + 1
          BY <5>1, ChallengeSteps
        <5>3. d.changes = IF d.consumed THEN 1 ELSE 0
          BY <5>1, <5>2
        <5>4. challenges' = [cs EXCEPT ![i] = d]
          BY <2>6
        <5>5. QED  BY <2>3, <5>2, <5>3, <5>4
      <4>2. CASE i \notin DOMAIN cs
        <5>1. challenges' = [j \in DOMAIN cs |-> cs[j]]
          BY <2>6, <4>2
        <5>2. challenges' = cs
          BY <5>1
        <5>3. QED  BY <2>1, <5>2
      <4>3. QED  BY <4>1, <4>2
    <3>4. QED  BY <3>1, <3>2, <3>3 DEF CredentialsInv, LoginsCurrent
  <2>7. QED  BY <1>9, <2>4, <2>5, <2>6 DEF confirmWrite, StillUsable
<1>10. QED  BY <1>3, <1>4, <1>5, <1>6, <1>7, <1>8, <1>9 DEF CredentialsNext
\* The invariant of credentials holds.
LEMMA CredentialsHold == Spec => []CredentialsInv
<1>1. Init => CredentialsInv
  BY DEF Init, BaseInit, CredentialsInit, CredentialsInv
<1>2. ASSUME WorkOK, CredentialsInv, [Next]_vars
      PROVE  CredentialsInv'
  <2>1. CASE CredentialsNext
    BY <1>2, <2>1, CredentialsKept
  <2>2. CASE ContactNext /\ UNCHANGED credentials
    BY <1>2, <2>2, ContactWork, CredentialsQuiet
  <2>3. CASE EvidenceNext(verified) /\ UNCHANGED credentials
    BY <1>2, <2>3, EvidenceWork, CredentialsQuiet
  <2>4. CASE (Tick \/ \E r \in Requests : Lost(r)) /\ UNCHANGED credentials
    BY <1>2, <2>4, BaseWork, CredentialsQuiet
  <2>5. CASE UNCHANGED vars
    BY <1>2, <2>5 DEF CredentialsInv, vars, base, credentials
  <2>6. QED  BY <1>2, <2>1, <2>2, <2>3, <2>4, <2>5, NextParts
<1>3. QED  BY <1>1, <1>2, WorkInv, PTL DEF Spec

(* Whatever logins, recoveries and revocations overlap, and whatever is     *)
(* lost half way, no session opened with a replaced password is accepted.   *)
THEOREM CurrentPassword == Spec => []SessionsUnderCurrentPassword
<1>1. CredentialsInv => SessionsUnderCurrentPassword
  BY DEF CredentialsInv, SessionsUnderCurrentPassword
<1>2. QED  BY <1>1, CredentialsHold, PTL

(* However many confirmations of a recovery overlap, it changes the         *)
(* password at most once.                                                   *)
THEOREM ChangedOnce == Spec => []ChangedOncePerChallenge
<1>1. CredentialsInv => ChangedOncePerChallenge
  BY DEF CredentialsInv, ChangedOncePerChallenge
<1>2. QED  BY <1>1, CredentialsHold, PTL

(***************************************************************************)
(* Identity verification.                                                  *)
(***************************************************************************)
\* While a session is being opened the account is not verified.
OpeningUnverified ==
  \A r \in Requests : work[r] # None /\ work[r].op = "session" => status # "VERIFIED"

\* Requests other than openings of sessions do not matter to OpeningUnverified.
LEMMA EvidenceQuiet ==
  ASSUME OpeningUnverified, UNCHANGED status, NEW ops, OnlyWork(ops), "session" \notin ops
  PROVE  OpeningUnverified'
BY DEF OpeningUnverified, OnlyWork

\* What a step of the inquiries does: it keeps that, and takes a status only on an event.
LEMMA EvidenceKept ==
  ASSUME WorkOK, OpeningUnverified, NEW addresses, EvidenceNext(addresses)
  PROVE  /\ OpeningUnverified'
         /\ status = "VERIFIED" /\ status' # "VERIFIED" => received' # received
<1>1. ASSUME NEW r \in Requests, NEW q \in Inquiries, sessionCall(r, q, addresses)
      PROVE  OpeningUnverified' /\ status' = status
  <2> PICK what : what = [op |-> "session", of |-> q]
    OBVIOUS
  <2>1. work' = [work EXCEPT ![r] = what] /\ status # "VERIFIED" /\ status' = status
    BY <1>1 DEF sessionCall, Start
  <2>2. QED  BY <2>1 DEF OpeningUnverified
<1>2. ASSUME NEW r \in Requests, sessionWrite(r)
      PROVE  OpeningUnverified' /\ status # "VERIFIED"
  <2>1. work[r] # None /\ work[r].op = "session" /\ status' = "PENDING"
    BY <1>2 DEF sessionWrite
  <2>2. QED  BY <2>1 DEF OpeningUnverified
<1>3. ASSUME NEW e \in Events, applyPersonaEvent(e)
      PROVE  OpeningUnverified' /\ received' # received
  <2>1. received' = received \cup {e} /\ e \notin received /\ work' = work
    BY <1>3 DEF applyPersonaEvent, base
  <2>2. \A r \in Requests : work[r] # None => work[r].op # "session"
    BY <1>3 DEF applyPersonaEvent, AssuranceFree, Busy
  <2>3. QED  BY <2>1, <2>2 DEF OpeningUnverified
<1>4. QED  BY <1>1, <1>2, <1>3 DEF EvidenceNext

\* The same of a step of any handler.
LEMMA StatusKept ==
  WorkOK /\ OpeningUnverified /\ [Next]_vars =>
    OpeningUnverified' /\ [status = "VERIFIED" /\ status' # "VERIFIED" => received' # received]_status
<1> SUFFICES ASSUME WorkOK, OpeningUnverified, [Next]_vars
             PROVE  /\ OpeningUnverified'
                    /\ [status = "VERIFIED" /\ status' # "VERIFIED" => received' # received]_status
  OBVIOUS
<1>1. CASE EvidenceNext(verified)
  BY <1>1, EvidenceKept
<1>2. ASSUME NEW ops, OnlyWork(ops), "session" \notin ops, UNCHANGED evidence
      PROVE  OpeningUnverified' /\ status' = status
  BY <1>2, EvidenceQuiet DEF evidence
<1>3. CASE CredentialsNext /\ UNCHANGED evidence
  BY <1>2, <1>3, CredentialWork
<1>4. CASE ContactNext /\ UNCHANGED evidence
  BY <1>2, <1>4, ContactWork
<1>5. CASE (Tick \/ \E r \in Requests : Lost(r)) /\ UNCHANGED evidence
  BY <1>2, <1>5, BaseWork
<1>6. CASE UNCHANGED vars
  BY <1>6 DEF vars, base, evidence, OpeningUnverified
<1>7. QED  BY <1>1, <1>3, <1>4, <1>5, <1>6, NextParts

(* In whatever order sessions are opened and events of the provider come,   *)
(* a verified account stops being so only on an event.                      *)
THEOREM VerifiedKept == Spec => VerifiedStands
<1>1. Init => OpeningUnverified
  BY DEF Init, EvidenceInit, OpeningUnverified
<1>2. QED  BY <1>1, StatusKept, WorkInv, PTL DEF Spec, VerifiedStands

(***************************************************************************)
(* Contact codes.  The log of events lags behind what the provider was     *)
(* asked: by the requests that are under way, one per account at most, and *)
(* by those that were lost.  That is counted for every set of addresses    *)
(* and every moment c the hour may end at, not only now.                   *)
(***************************************************************************)
InHour(at, c) == at + Window > c
Since(log, keys, c) ==
  UNION {{<<k, i>> : i \in {j \in DOMAIN log[k] : log[k][j] + Window > c}} : k \in keys}
Addresses    == Accounts \X Channels
SendKeys(D)  == {<<d[1], d[2], "send">> : d \in D}
Contacts(w)  == w # None /\ w.op \in {"send", "check"}
Sending(D, c) ==
  {a \in Accounts : \E r \in Requests :
     /\ work[r] # None /\ work[r].op = "send" /\ work[r].to \in D /\ work[r].to[1] = a
     /\ work[r].at + Window > c}

ContactTypes ==
  /\ asked \in [Addresses -> Seq(Nat)]
  /\ events \in [Accounts \X Channels \X {"send", "check"} -> Seq(Nat)]
  /\ \A r \in Requests : Contacts(work[r]) => work[r].to \in Addresses /\ work[r].at \in Nat
Counted ==
  \A D \in SUBSET Addresses, c \in Nat :
    /\ IsFiniteSet(Since(asked, D, c)) /\ IsFiniteSet(Since(events, SendKeys(D), c))
    /\ Cardinality(Since(asked, D, c))
         <= Cardinality(Since(events, SendKeys(D), c)) + Cardinality(Sending(D, c)) + crashes

ContactInv == ContactTypes /\ Counted /\ SendsWithinLimit

\* The count of the code is the count since an hour ago.
LEMMA RecentSince ==
  ASSUME NEW log, NEW keys
  PROVE  Recent(log, keys) = Cardinality(Since(log, keys, clock))
BY DEF Recent, Since

\* A new entry in a log counts once, if it is of the hour that is looked at.
OneMore(log, after, k, t, keys, c) ==
  /\ after \in [DOMAIN log -> Seq(Nat)] /\ IsFiniteSet(Since(after, keys, c))
  /\ k \in keys /\ InHour(t, c) => Cardinality(Since(after, keys, c)) = Cardinality(Since(log, keys, c)) + 1
  /\ ~ (k \in keys /\ InHour(t, c)) => Cardinality(Since(after, keys, c)) = Cardinality(Since(log, keys, c))

\* One more entry in a log is counted once, in windows that reach it.
LEMMA SinceAppend ==
  ASSUME NEW log, log \in [DOMAIN log -> Seq(Nat)], NEW k \in DOMAIN log, NEW t \in Nat,
         NEW keys \in SUBSET DOMAIN log, NEW c \in Nat, IsFiniteSet(Since(log, keys, c)),
         NEW after, after = [log EXCEPT ![k] = Append(@, t)]
  PROVE  OneMore(log, after, k, t, keys, c)
<1> PICK new : new = <<k, Len(log[k]) + 1>>
  OBVIOUS
<1>1. after \in [DOMAIN log -> Seq(Nat)]
  OBVIOUS
<1>2. /\ DOMAIN after[k] = DOMAIN log[k] \cup {Len(log[k]) + 1} /\ Len(log[k]) + 1 \notin DOMAIN log[k]
      /\ after[k][Len(log[k]) + 1] = t /\ \A j \in DOMAIN log[k] : after[k][j] = log[k][j]
      /\ \A x \in DOMAIN log \ {k} : after[x] = log[x]
  OBVIOUS
<1>3. new \notin Since(log, keys, c)
  BY <1>2 DEF Since
<1>4. CASE k \in keys /\ InHour(t, c)
  <2>1. Since(after, keys, c) = Since(log, keys, c) \cup {new}
    BY <1>2, <1>4 DEF Since, InHour
  <2>2. /\ IsFiniteSet(Since(after, keys, c))
        /\ Cardinality(Since(after, keys, c)) = Cardinality(Since(log, keys, c)) + 1
    <3> PICK S : S = Since(log, keys, c)
      OBVIOUS
    <3>1. IsFiniteSet(S \cup {new}) /\ Cardinality(S \cup {new}) = Cardinality(S) + 1
      BY <1>3, FS_AddElement, Zenon
    <3>2. QED  BY <2>1, <3>1
  <2>3. QED  BY <1>1, <1>4, <2>2 DEF OneMore
<1>5. CASE ~ (k \in keys /\ InHour(t, c))
  <2>1. Since(after, keys, c) = Since(log, keys, c)
    BY <1>2, <1>5 DEF Since, InHour
  <2>2. QED  BY <1>1, <1>5, <2>1, FS_CardinalityType DEF OneMore
<1>6. QED  BY <1>4, <1>5 DEF OneMore

\* A step that leaves the contact requests alone, as it leaves the logs.
SameContacts == \A q \in Requests : Contacts(work[q]) \/ Contacts(work'[q]) => work'[q] = work[q]

\* A step that leaves contacts alone keeps their invariant.
LEMMA ContactQuiet ==
  ASSUME ContactInv, SameContacts, UNCHANGED contacts, clock \in Nat, clock' \in {clock, clock + 1},
         crashes' = crashes, crashes \in Nat
  PROVE  ContactInv'
<1>1. ContactTypes'
  BY DEF ContactInv, ContactTypes, SameContacts, contacts
<1>2. \A D, c : Sending(D, c)' = Sending(D, c)
  BY DEF Sending, SameContacts, Contacts
<1>3. Counted'
  BY <1>2 DEF ContactInv, Counted, contacts, Since
<1>4. ASSUME NEW D \in SUBSET Addresses
      PROVE  /\ IsFiniteSet(Since(asked, D, clock')) /\ IsFiniteSet(Since(asked, D, clock))
             /\ Cardinality(Since(asked, D, clock')) <= Cardinality(Since(asked, D, clock))
             /\ Cardinality(Since(asked, D, clock')) \in Nat /\ Cardinality(Since(asked, D, clock)) \in Nat
  <2>1. IsFiniteSet(Since(asked, D, clock'))
    BY DEF ContactInv, Counted
  <2>2. IsFiniteSet(Since(asked, D, clock))
    BY DEF ContactInv, Counted
  <2>3. Since(asked, D, clock') \subseteq Since(asked, D, clock)
    <3>1. \A k \in D : DOMAIN asked[k] = 1..Len(asked[k]) /\ \A j \in DOMAIN asked[k] : asked[k][j] \in Nat
      BY DEF ContactInv, ContactTypes
    <3>2. Window \in Nat
      BY LimitAssumption
    <3>3. \A k \in D : \A j \in DOMAIN asked[k] : asked[k][j] + Window > clock' => asked[k][j] + Window > clock
      BY <3>1, <3>2
    <3>4. QED  BY <3>3 DEF Since
  <2>4. QED  BY <2>1, <2>2, <2>3, FS_Subset, FS_CardinalityType
<1>5. asked' = asked
  BY DEF contacts
<1>6. SendsWithinLimit'
  <2>1. ASSUME NEW D \in SUBSET Addresses, NEW n \in Int, Recent(asked, D) <= n
        PROVE  Recent(asked, D)' <= n
    <3>1. Recent(asked, D)' = Cardinality(Since(asked, D, clock'))
      BY <1>5 DEF Recent, Since
    <3>2. Recent(asked, D) = Cardinality(Since(asked, D, clock))
      BY RecentSince
    <3>3. QED  BY <1>4, <2>1, <3>1, <3>2
  <2>2. \A d \in Addresses : {d} \in SUBSET Addresses
    OBVIOUS
  <2>3. \A ch \in Channels : Accounts \X {ch} \in SUBSET Addresses
    BY DEF Addresses
  <2>4. SendLimit + crashes \in Int /\ SendLimitIp + crashes + Cardinality(Accounts) - 1 \in Int
    BY LimitAssumption, AccountsAssumption, FS_CardinalityType
  <2>5. \A d \in Addresses : Recent(asked, {d})' <= SendLimit + crashes
    BY <2>1, <2>2, <2>4 DEF ContactInv, SendsWithinLimit, Addresses
  <2>6. \A ch \in Channels :
          Recent(asked, Accounts \X {ch})' <= SendLimitIp + crashes + Cardinality(Accounts) - 1
    BY <2>1, <2>3, <2>4 DEF ContactInv, SendsWithinLimit
  <2>7. QED  BY <2>5, <2>6 DEF SendsWithinLimit, Addresses
<1>7. QED  BY <1>1, <1>3, <1>6 DEF ContactInv

\* The other handlers start and end requests of their own.
LEMMA OthersSameContacts ==
  ASSUME WorkOK, CredentialsNext \/ (\E addresses : EvidenceNext(addresses)) \/ Tick
  PROVE  SameContacts /\ crashes' = crashes
<1>1. ASSUME NEW r \in Requests, NEW what, work' = [work EXCEPT ![r] = what],
             ~ Contacts(work[r]), ~ Contacts(what)
      PROVE  SameContacts
  BY <1>1, WorkOf DEF SameContacts
<1>2. ASSUME NEW r \in Requests, NEW right \in BOOLEAN, loginRead(r, right)
      PROVE  SameContacts /\ crashes' = crashes
  <2>1. ~ Contacts([op |-> "login", under |-> password, valid |-> right /\ lockedUntil <= clock])
    BY DEF Contacts
  <2>2. QED  BY <1>1, <1>2, <2>1 DEF loginRead, Start, Contacts
<1>3. ASSUME NEW r \in Requests,
             loginWrite(r) \/ resetInsert(r) \/ confirmWrite(r) \/ sessionWrite(r)
      PROVE  SameContacts /\ crashes' = crashes
  <2>1. work' = [work EXCEPT ![r] = None] /\ crashes' = crashes
    BY <1>3 DEF loginWrite, resetInsert, confirmWrite, sessionWrite, Done
  <2>2. ~ Contacts(work[r]) /\ ~ Contacts(None)
    BY <1>3 DEF loginWrite, resetInsert, confirmWrite, sessionWrite, Contacts
  <2>3. QED  BY <1>1, <2>1, <2>2
<1>4. ASSUME NEW r \in Requests, resetSend(r)
      PROVE  SameContacts /\ crashes' = crashes
  <2>1. ~ Contacts([op |-> "reset"])
    BY DEF Contacts
  <2>2. QED  BY <1>1, <1>4, <2>1 DEF resetSend, Start, Contacts
<1>5. ASSUME NEW r \in Requests, confirmRead(r)
      PROVE  SameContacts /\ crashes' = crashes
  <2>1. PICK i : work[r] = None /\ work' = [work EXCEPT ![r] = [op |-> "confirm", of |-> i, answer |-> None]]
    BY <1>5 DEF confirmRead, Start
  <2>2. ~ Contacts([op |-> "confirm", of |-> i, answer |-> None])
    BY DEF Contacts
  <2>3. QED  BY <1>1, <1>5, <2>1, <2>2 DEF confirmRead, Contacts
<1>6. ASSUME NEW r \in Requests, confirmAsk(r)
      PROVE  SameContacts /\ crashes' = crashes
  <2>1. PICK answer : work' = [work EXCEPT ![r] = [op |-> "confirm", of |-> work[r].of, answer |-> answer]]
    BY <1>6, WorkAsk
  <2>2. ~ Contacts([op |-> "confirm", of |-> work[r].of, answer |-> answer])
    BY DEF Contacts
  <2>3. ~ Contacts(work[r]) /\ crashes' = crashes
    BY <1>6 DEF confirmAsk, Contacts
  <2>4. QED  BY <1>1, <2>1, <2>2, <2>3
<1>7. ASSUME NEW r \in Requests, NEW q \in Inquiries, NEW addresses, sessionCall(r, q, addresses)
      PROVE  SameContacts /\ crashes' = crashes
  <2>1. ~ Contacts([op |-> "session", of |-> q])
    BY DEF Contacts
  <2>2. QED  BY <1>1, <1>7, <2>1 DEF sessionCall, Start, Contacts
<1>8. ASSUME UNCHANGED <<work, crashes>>
      PROVE  SameContacts /\ crashes' = crashes
  BY <1>8 DEF SameContacts
<1>9. CASE CredentialsNext
  BY <1>2, <1>3, <1>4, <1>5, <1>6, <1>8, <1>9 DEF CredentialsNext, revokeNativeSession, base
<1>10. ASSUME NEW addresses, EvidenceNext(addresses)
       PROVE  SameContacts /\ crashes' = crashes
  BY <1>3, <1>7, <1>8, <1>10 DEF EvidenceNext, applyPersonaEvent, base
<1>11. CASE Tick
  BY <1>8, <1>11 DEF Tick
<1>12. QED  BY <1>9, <1>10, <1>11

\* Sending counts accounts.
LEMMA SendingFinite == ASSUME NEW D, NEW c PROVE IsFiniteSet(Sending(D, c)) /\ Cardinality(Sending(D, c)) \in Nat
<1>1. Sending(D, c) \in SUBSET Accounts
  BY DEF Sending
<1>2. QED  BY <1>1, AccountsAssumption, FS_Subset, FS_CardinalityType

\* The sets of addresses the limits are about, in both logs.
LEMMA LimitKeys ==
  /\ \A d \in Addresses : {d} \in SUBSET Addresses /\ SendKeys({d}) = {<<d[1], d[2], "send">>}
  /\ \A ch \in Channels : /\ Accounts \X {ch} \in SUBSET Addresses
                          /\ SendKeys(Accounts \X {ch}) = Accounts \X {ch} \X {"send"}
<1>1. \A d \in Addresses : {d} \in SUBSET Addresses /\ SendKeys({d}) = {<<d[1], d[2], "send">>}
  BY DEF SendKeys
<1>2. ASSUME NEW ch \in Channels
      PROVE  Accounts \X {ch} \in SUBSET Addresses
  BY DEF Addresses
<1>3. ASSUME NEW ch \in Channels
      PROVE  SendKeys(Accounts \X {ch}) = Accounts \X {ch} \X {"send"}
  <2>1. ASSUME NEW k \in SendKeys(Accounts \X {ch})
        PROVE  k \in Accounts \X {ch} \X {"send"}
    <3>1. PICK d \in Accounts \X {ch} : k = <<d[1], d[2], "send">>
      BY DEF SendKeys
    <3>2. d[1] \in Accounts /\ d[2] = ch
      OBVIOUS
    <3>3. QED  BY <3>1, <3>2
  <2>2. ASSUME NEW k \in Accounts \X {ch} \X {"send"}
        PROVE  k \in SendKeys(Accounts \X {ch})
    <3>1. PICK a \in Accounts : k = <<a, ch, "send">>
      OBVIOUS
    <3>2. <<a, ch>> \in Accounts \X {ch} /\ <<a, ch>>[1] = a /\ <<a, ch>>[2] = ch
      OBVIOUS
    <3>3. QED  BY <3>1, <3>2 DEF SendKeys
  <2>3. QED  BY <2>1, <2>2
<1>4. QED  BY <1>1, <1>2, <1>3

\* One more code is asked for: within the limit of the address, and within the limit
\* of the IP address but for what the other accounts have under way.
LEMMA SendCallKeeps ==
  ASSUME WorkOK, ContactInv, NEW r \in Requests, NEW a \in Accounts, NEW ch \in Channels,
         sendCall(r, a, ch)
  PROVE  ContactInv'
<1>d. PICK d \in Addresses : d = <<a, ch>>
  BY DEF Addresses
<1>1. PICK state \in {"pending", "delivery_uncertain"} :
                   /\ work[r] = None
                   /\ work' = [work EXCEPT ![r] = [op |-> "send", to |-> d, at |-> clock, state |-> state]]
  BY <1>d DEF sendCall, Start
<1>w. PICK what : what = [op |-> "send", to |-> d, at |-> clock, state |-> state]
  OBVIOUS
<1>2. /\ ProfileFree(a) /\ enforceLimit(d, "send", SendLimit, SendLimitIp)
      /\ asked' = [asked EXCEPT ![d] = Append(@, clock)]
      /\ UNCHANGED <<clock, crashes, events>> /\ clock \in Nat /\ crashes \in Nat
  BY <1>d DEF sendCall, WorkOK
<1>3. /\ ContactTypes /\ Counted /\ SendsWithinLimit
      /\ d[1] = a /\ d[2] = ch /\ asked \in [Addresses -> Seq(Nat)]
  BY <1>d DEF ContactInv, ContactTypes
<1>4. /\ what.op = "send" /\ what.to = d /\ what.at = clock /\ work' = [work EXCEPT ![r] = what]
      /\ work'[r] = what /\ \A q \in Requests \ {r} : work'[q] = work[q]
  BY <1>1, <1>w, WorkOf
<1>l. PICK log, t, after : log = asked /\ t = clock /\ after = asked'
  OBVIOUS
<1>5. ASSUME NEW D \in SUBSET Addresses, NEW c \in Nat
      PROVE  OneMore(log, after, d, t, D, c)
  <2>1. IsFiniteSet(Since(log, D, c))
    BY <1>3, <1>l DEF Counted
  <2>2. after = [log EXCEPT ![d] = Append(@, t)]
    BY <1>2, <1>l
  <2>3. DOMAIN log = Addresses
    BY <1>3, <1>l
  <2>4. log \in [DOMAIN log -> Seq(Nat)] /\ d \in DOMAIN log /\ D \in SUBSET DOMAIN log /\ t \in Nat
    BY <1>2, <1>3, <1>l, <2>3
  <2>5. QED  BY <2>1, <2>2, <2>4, SinceAppend
<1>6. \A q \in Requests : Contacts(work[q]) => work[q].to[1] # a
  BY <1>2 DEF ProfileFree, Busy, Contacts
<1>7. ASSUME NEW D \in SUBSET Addresses, NEW c \in Nat
      PROVE  /\ d \in D /\ InHour(t, c) => Cardinality(Sending(D, c)') = Cardinality(Sending(D, c)) + 1
             /\ ~ (d \in D /\ InHour(t, c)) => Cardinality(Sending(D, c)') = Cardinality(Sending(D, c))
  <2> PICK S, T : S = Sending(D, c) /\ T = Sending(D, c)'
    OBVIOUS
  <2>1. a \notin S /\ IsFiniteSet(S)
    BY <1>6, SendingFinite DEF Sending, Contacts
  <2>2. what # None
    BY <1>2, <1>w, NoneAssumption DEF Addresses
  <2>3. CASE d \in D /\ InHour(t, c)
    <3>1. T = S \cup {a}
      BY <1>1, <1>3, <1>4, <1>l, <2>2, <2>3 DEF Sending, InHour
    <3>2. QED  BY <2>1, <2>3, <3>1, FS_AddElement
  <2>4. CASE ~ (d \in D /\ InHour(t, c))
    <3>1. T = S
      BY <1>1, <1>3, <1>4, <1>l, <2>4 DEF Sending, InHour
    <3>2. QED  BY <2>4, <3>1, SendingFinite
  <2>5. QED  BY <2>3, <2>4
<1>8. ContactTypes'
  <2>1. asked' \in [Addresses -> Seq(Nat)]
    <3>1. {} \in SUBSET Addresses /\ 0 \in Nat
      OBVIOUS
    <3>2. QED  BY <1>3, <1>5, <1>l, <3>1 DEF OneMore
  <2>2. d \in Addresses /\ clock \in Nat
    BY <1>2
  <2>3. QED  BY <1>2, <1>3, <1>4, <2>1, <2>2 DEF ContactTypes, Contacts
\* What is counted, before and after, for the addresses D and the moment c.
<1>9. ASSUME NEW D \in SUBSET Addresses, NEW c \in Nat
      PROVE  /\ IsFiniteSet(Since(asked, D, c)') /\ IsFiniteSet(Since(events, SendKeys(D), c)')
             /\ Cardinality(Since(asked, D, c)')
                  <= Cardinality(Since(events, SendKeys(D), c)') + Cardinality(Sending(D, c)') + crashes'
  <2>1. Since(asked, D, c)' = Since(after, D, c) /\ Since(asked, D, c) = Since(log, D, c)
    BY <1>l DEF Since
  <2>2. Since(events, SendKeys(D), c)' = Since(events, SendKeys(D), c)
    BY <1>2 DEF Since
  <2> PICK A, B, E, S, T : /\ A = Cardinality(Since(log, D, c)) /\ B = Cardinality(Since(after, D, c))
                           /\ E = Cardinality(Since(events, SendKeys(D), c))
                           /\ S = Cardinality(Sending(D, c)) /\ T = Cardinality(Sending(D, c)')
    OBVIOUS
  <2>3. /\ IsFiniteSet(Since(log, D, c)) /\ IsFiniteSet(Since(events, SendKeys(D), c))
        /\ A <= E + S + crashes
    BY <1>3, <2>1 DEF Counted
  <2>4. A \in Nat /\ E \in Nat /\ S \in Nat /\ crashes \in Nat
    BY <1>2, <2>3, SendingFinite, FS_CardinalityType
  <2>5. (B = A + 1 /\ T = S + 1) \/ (B = A /\ T = S)
    BY <1>5, <1>7 DEF OneMore
  <2>6. B <= E + T + crashes
    BY <2>3, <2>4, <2>5
  <2>7. QED  BY <1>2, <1>5, <2>1, <2>2, <2>3, <2>6 DEF OneMore
<1>10. Counted'
  BY <1>9 DEF Counted
<1>11. SendsWithinLimit'
  <2>1. ASSUME NEW D \in SUBSET Addresses
        PROVE  /\ Recent(asked, D)' = Cardinality(Since(after, D, t))
               /\ Recent(asked, D) = Cardinality(Since(log, D, t))
               /\ IsFiniteSet(Since(after, D, t)) /\ IsFiniteSet(Since(log, D, t))
               /\ d \notin D => Cardinality(Since(after, D, t)) = Cardinality(Since(log, D, t))
               /\ Cardinality(Since(after, D, t)) <= Cardinality(Since(log, D, t)) + 1
    <3>1. t \in Nat /\ clock = t
      BY <1>2, <1>l
    <3>2. OneMore(log, after, d, t, D, t)
      BY <1>5, <3>1
    <3>3. Recent(asked, D)' = Cardinality(Since(after, D, t)) /\ Recent(asked, D) = Cardinality(Since(log, D, t))
      BY <1>2, <1>l DEF Recent, Since
    <3>4. IsFiniteSet(Since(log, D, t))
      BY <1>3, <1>l, <3>1 DEF Counted
    <3>5. Cardinality(Since(log, D, t)) \in Nat /\ Cardinality(Since(after, D, t)) \in Nat
      BY <3>2, <3>4, FS_CardinalityType DEF OneMore
    <3>6. QED  BY <3>2, <3>3, <3>4, <3>5 DEF OneMore
  <2>2. ASSUME NEW D \in SUBSET Addresses, NEW m \in Nat, NEW s \in Nat,
               Recent(events, SendKeys(D)) < m, Cardinality(Sending(D, t)) <= s
        PROVE  Recent(asked, D)' <= m + s + crashes
    <3>1. t \in Nat /\ clock = t
      BY <1>2, <1>l
    <3> PICK A, B, E, S, x : /\ A = Cardinality(Since(log, D, t)) /\ B = Cardinality(Since(after, D, t))
                             /\ E = Cardinality(Since(events, SendKeys(D), t))
                             /\ S = Cardinality(Sending(D, t)) /\ x = crashes
      OBVIOUS
    <3>2. E = Recent(events, SendKeys(D))
      BY <3>1, RecentSince
    <3>3. A <= E + S + x /\ IsFiniteSet(Since(events, SendKeys(D), t))
      BY <1>3, <1>l, <3>1 DEF Counted
    <3>4. A \in Nat /\ B \in Nat /\ E \in Nat /\ S \in Nat /\ x \in Nat
      BY <1>2, <2>1, <3>3, SendingFinite, FS_CardinalityType
    <3>5. B <= A + 1 /\ Recent(asked, D)' = B
      BY <2>1
    <3>6. E < m /\ S <= s
      BY <2>2, <3>2
    <3>7. B <= m + s + x
      BY <3>3, <3>4, <3>5, <3>6
    <3>8. QED  BY <3>5, <3>7
  <2>3. Recent(asked, {d})' <= SendLimit + crashes
    <3>1. {d} \in SUBSET Addresses /\ SendKeys({d}) = {<<d[1], d[2], "send">>}
      BY LimitKeys
    <3>2. Recent(events, SendKeys({d})) < SendLimit
      BY <1>2, <3>1 DEF enforceLimit
    <3>3. Sending({d}, t) = {}
      BY <1>3, <1>6 DEF Sending, Contacts
    <3>4. Cardinality(Sending({d}, t)) <= 0
      BY <3>3, FS_EmptySet
    <3>5. SendLimit \in Nat /\ crashes \in Nat
      BY <1>2, LimitAssumption
    <3>6. Recent(asked, {d})' <= SendLimit + 0 + crashes
      BY <2>2, <3>1, <3>2, <3>4, <3>5
    <3>7. QED  BY <3>5, <3>6
  <2>4. Recent(asked, Accounts \X {ch})' <= SendLimitIp + crashes + Cardinality(Accounts) - 1
    <3> PICK D : D = Accounts \X {ch}
      OBVIOUS
    <3>1. D \in SUBSET Addresses /\ SendKeys(D) = Accounts \X {ch} \X {"send"}
      BY LimitKeys
    <3>2. Recent(events, SendKeys(D)) < SendLimitIp
      BY <1>2, <1>3, <3>1 DEF enforceLimit
    <3>3. Sending(D, t) \in SUBSET (Accounts \ {a})
      BY <1>6 DEF Sending, Contacts
    <3>4. /\ IsFiniteSet(Accounts \ {a}) /\ Cardinality(Accounts \ {a}) = Cardinality(Accounts) - 1
          /\ Cardinality(Accounts) - 1 \in Nat
      <4>1. IsFiniteSet(Accounts \ {a}) /\ Cardinality(Accounts \ {a}) = Cardinality(Accounts) - 1
        BY AccountsAssumption, FS_RemoveElement, Zenon
      <4>2. Cardinality(Accounts \ {a}) \in Nat
        BY <4>1, FS_CardinalityType
      <4>3. QED  BY <4>1, <4>2
    <3>5. Cardinality(Sending(D, t)) <= Cardinality(Accounts) - 1
      <4> PICK S, T : S = Sending(D, t) /\ T = Accounts \ {a}
        OBVIOUS
      <4>1. Cardinality(S) <= Cardinality(T)
        BY <3>3, <3>4, FS_Subset
      <4>2. QED  BY <3>4, <4>1
    <3>6. SendLimitIp \in Nat /\ crashes \in Nat /\ Cardinality(Accounts) \in Nat
      BY <1>2, LimitAssumption, AccountsAssumption, FS_CardinalityType
    <3> PICK n \in Nat : n = Cardinality(Accounts) - 1
      BY <3>4
    <3>7. Recent(asked, D)' <= SendLimitIp + n + crashes
      BY <2>2, <3>1, <3>2, <3>5, <3>6
    <3>8. QED  BY <3>6, <3>7
  <2>5. ASSUME NEW e \in Addresses
        PROVE  Recent(asked, {e})' <= SendLimit + crashes'
    <3>1. CASE e = d
      BY <1>2, <2>3, <3>1
    <3>2. CASE e # d
      <4>1. {e} \in SUBSET Addresses /\ d \notin {e}
        BY <3>2
      <4>2. Recent(asked, {e})' = Recent(asked, {e})
        BY <2>1, <4>1
      <4>3. Recent(asked, {e}) <= SendLimit + crashes
        BY <1>3 DEF SendsWithinLimit, Addresses
      <4>4. QED  BY <1>2, <4>2, <4>3
    <3>3. QED  BY <3>1, <3>2
  <2>6. ASSUME NEW k \in Channels
        PROVE  Recent(asked, Accounts \X {k})' <= SendLimitIp + crashes' + Cardinality(Accounts) - 1
    <3>1. CASE k = ch
      BY <1>2, <2>4, <3>1
    <3>2. CASE k # ch
      <4>1. Accounts \X {k} \in SUBSET Addresses
        BY LimitKeys
      <4>2. d \notin Accounts \X {k}
        BY <1>3, <3>2
      <4>3. Recent(asked, Accounts \X {k})' = Recent(asked, Accounts \X {k})
        BY <2>1, <4>1, <4>2
      <4>4. Recent(asked, Accounts \X {k}) <= SendLimitIp + crashes + Cardinality(Accounts) - 1
        BY <1>3 DEF SendsWithinLimit
      <4>5. QED  BY <1>2, <4>3, <4>4
    <3>3. QED  BY <3>1, <3>2
  <2>7. QED  BY <2>5, <2>6 DEF SendsWithinLimit, Addresses
<1>12. QED  BY <1>8, <1>10, <1>11 DEF ContactInv

\* Without another call to the provider, what was asked stays within the limits.
LEMMA LimitStays ==
  ASSUME ContactInv, UNCHANGED <<asked, clock>>, clock \in Nat,
         crashes \in Nat, crashes' \in Nat, crashes <= crashes'
  PROVE  SendsWithinLimit'
<1>1. ASSUME NEW D \in SUBSET Addresses
      PROVE  Recent(asked, D)' = Recent(asked, D) /\ Recent(asked, D) \in Nat
  <2>1. Recent(asked, D)' = Recent(asked, D)
    BY DEF Recent
  <2>2. Recent(asked, D) = Cardinality(Since(asked, D, clock)) /\ IsFiniteSet(Since(asked, D, clock))
    BY RecentSince DEF ContactInv, Counted
  <2>3. QED  BY <2>1, <2>2, FS_CardinalityType
<1>2. SendLimit \in Nat /\ SendLimitIp \in Nat /\ Cardinality(Accounts) \in Nat
  BY LimitAssumption, AccountsAssumption, FS_CardinalityType
<1>3. ASSUME NEW d \in Addresses
      PROVE  Recent(asked, {d})' <= SendLimit + crashes'
  <2>1. {d} \in SUBSET Addresses
    OBVIOUS
  <2>2. Recent(asked, {d}) <= SendLimit + crashes
    BY DEF ContactInv, SendsWithinLimit, Addresses
  <2>3. QED  BY <1>1, <1>2, <2>1, <2>2
<1>4. ASSUME NEW ch \in Channels
      PROVE  Recent(asked, Accounts \X {ch})' <= SendLimitIp + crashes' + Cardinality(Accounts) - 1
  <2>1. Accounts \X {ch} \in SUBSET Addresses
    BY LimitKeys
  <2>2. Recent(asked, Accounts \X {ch}) <= SendLimitIp + crashes + Cardinality(Accounts) - 1
    BY DEF ContactInv, SendsWithinLimit
  <2>3. QED  BY <1>1, <1>2, <2>1, <2>2
<1>5. QED  BY <1>3, <1>4 DEF SendsWithinLimit, Addresses

\* What the log of events may lag behind by, for the addresses D and the moment c.
Seen(D, c) == Cardinality(Since(events, SendKeys(D), c)) + Cardinality(Sending(D, c)) + crashes

\* Counts stand when nothing more is asked of the provider.
LEMMA CountStays ==
  ASSUME ContactInv, UNCHANGED asked,
         \A D \in SUBSET Addresses, c \in Nat :
           IsFiniteSet(Since(events, SendKeys(D), c)') /\ Seen(D, c) <= Seen(D, c)' /\ Seen(D, c) \in Nat
           /\ Seen(D, c)' \in Nat
  PROVE  Counted'
<1>1. ASSUME NEW D \in SUBSET Addresses, NEW c \in Nat
      PROVE  /\ IsFiniteSet(Since(asked, D, c)') /\ IsFiniteSet(Since(events, SendKeys(D), c)')
             /\ Cardinality(Since(asked, D, c)') <= Seen(D, c)'
  <2>1. Since(asked, D, c)' = Since(asked, D, c)
    BY DEF Since
  <2>2. IsFiniteSet(Since(asked, D, c)) /\ Cardinality(Since(asked, D, c)) <= Seen(D, c)
    BY DEF ContactInv, Counted, Seen
  <2>3. Cardinality(Since(asked, D, c)) \in Nat
    BY <2>2, FS_CardinalityType
  <2>4. QED  BY <2>1, <2>2, <2>3
<1>2. QED  BY <1>1 DEF Counted, Seen

\* A request that ends takes one account at most from those that are sending.
LEMMA SendingEnds ==
  ASSUME WorkOK, NEW r \in Requests, work' = [work EXCEPT ![r] = None], NEW D, NEW c
  PROVE  /\ Cardinality(Sending(D, c)) <= Cardinality(Sending(D, c)') + 1
         /\ ~ (work[r] # None /\ work[r].op = "send" /\ work[r].to \in D /\ InHour(work[r].at, c)) =>
              Cardinality(Sending(D, c)') = Cardinality(Sending(D, c))
<1>1. work'[r] = None /\ \A q \in Requests \ {r} : work'[q] = work[q]
  BY WorkOf
<1> PICK S, T, a : S = Sending(D, c) /\ T = Sending(D, c)' /\ a = work[r].to[1]
  OBVIOUS
<1>2. S \subseteq T \cup {a}
  BY <1>1 DEF Sending
<1>3. IsFiniteSet(T) /\ IsFiniteSet(S) /\ Cardinality(T) \in Nat /\ Cardinality(S) \in Nat
  <2>1. S \subseteq Accounts /\ T \subseteq Accounts
    BY DEF Sending
  <2>2. QED  BY <2>1, AccountsAssumption, FS_Subset, FS_CardinalityType
<1>4. Cardinality(S) <= Cardinality(T) + 1
  <2> PICK U : U = T \cup {a}
    OBVIOUS
  <2>1. IsFiniteSet(U) /\ Cardinality(U) <= Cardinality(T) + 1
    <3>1. CASE a \in T
      <4>1. U = T
        BY <3>1
      <4>2. Cardinality(U) = Cardinality(T) /\ IsFiniteSet(U)
        BY <1>3, <4>1, Zenon
      <4>3. QED  BY <1>3, <4>2
    <3>2. CASE a \notin T
      <4>1. IsFiniteSet(U) /\ Cardinality(U) = Cardinality(T) + 1
        BY <1>3, <3>2, FS_AddElement, Zenon
      <4>2. QED  BY <1>3, <4>1
    <3>3. QED  BY <3>1, <3>2
  <2>2. Cardinality(U) \in Nat /\ Cardinality(S) <= Cardinality(U)
    BY <1>2, <2>1, FS_Subset, FS_CardinalityType
  <2>3. QED  BY <1>3, <2>1, <2>2
<1>5. ASSUME ~ (work[r] # None /\ work[r].op = "send" /\ work[r].to \in D /\ InHour(work[r].at, c))
      PROVE  T = S
  <2>1. T \subseteq S
    BY <1>1 DEF Sending
  <2>2. S \subseteq T
    BY <1>1, <1>5 DEF Sending, InHour
  <2>3. QED  BY <2>1, <2>2
<1>6. QED  BY <1>4, <1>5

\* A request that ends leaves the others as they were.
LEMMA TypesEnd ==
  ASSUME WorkOK, ContactTypes, NEW r \in Requests, work' = [work EXCEPT ![r] = None],
         UNCHANGED asked, events' \in [Accounts \X Channels \X {"send", "check"} -> Seq(Nat)]
  PROVE  ContactTypes'
BY WorkOf DEF ContactTypes, Contacts

\* The log of the codes sent, in the keys of the addresses D.
LEMMA SendKeysIn ==
  ASSUME NEW D \in SUBSET Addresses, NEW d \in Addresses, NEW action \in {"send", "check"}
  PROVE  /\ SendKeys(D) \in SUBSET (Accounts \X Channels \X {"send", "check"})
         /\ <<d[1], d[2], action>> \in Accounts \X Channels \X {"send", "check"}
         /\ <<d[1], d[2], action>> \in SendKeys(D) <=> action = "send" /\ d \in D
<1>1. \A e \in Addresses : e = <<e[1], e[2]>> /\ e[1] \in Accounts /\ e[2] \in Channels
  BY DEF Addresses
<1>2. ASSUME NEW k \in SendKeys(D)
      PROVE  k \in Accounts \X Channels \X {"send", "check"}
  <2>1. PICK e \in D : k = <<e[1], e[2], "send">>
    BY DEF SendKeys
  <2>2. e[1] \in Accounts /\ e[2] \in Channels
    BY <1>1
  <2>3. QED  BY <2>1, <2>2
<1>3. <<d[1], d[2], action>> \in Accounts \X Channels \X {"send", "check"}
  BY <1>1
<1>4. ASSUME <<d[1], d[2], action>> \in SendKeys(D)
      PROVE  action = "send" /\ d \in D
  <2>1. PICK e \in D : <<d[1], d[2], action>> = <<e[1], e[2], "send">>
    BY <1>4 DEF SendKeys
  <2>2. d[1] = e[1] /\ d[2] = e[2] /\ action = "send"
    BY <2>1
  <2>3. d = e
    BY <1>1, <2>2
  <2>4. QED  BY <2>2, <2>3
<1>5. ASSUME action = "send", d \in D
      PROVE  <<d[1], d[2], action>> \in SendKeys(D)
  BY <1>5 DEF SendKeys
<1>6. QED  BY <1>2, <1>3, <1>4, <1>5

\* A request that ends and is logged, or is lost, is still accounted for.
LEMMA EndKeeps ==
  ASSUME WorkOK, ContactInv, NEW r \in Requests, work' = [work EXCEPT ![r] = None], work[r] # None,
         UNCHANGED <<asked, clock>>,
         \/ UNCHANGED events /\ crashes' = crashes + 1
         \/ /\ work[r].op \in {"send", "check"} /\ Logged(work[r].to, work[r].op, work[r].at)
            /\ UNCHANGED crashes
  PROVE  ContactInv'
<1>1. ContactTypes /\ Counted /\ clock \in Nat /\ crashes \in Nat
  BY DEF ContactInv, WorkOK
<1>2. CASE UNCHANGED events /\ crashes' = crashes + 1
  <2>1. ContactTypes'
    BY <1>1, <1>2, TypesEnd DEF ContactTypes
  <2>2. ASSUME NEW D \in SUBSET Addresses, NEW c \in Nat
        PROVE  /\ IsFiniteSet(Since(events, SendKeys(D), c)') /\ Seen(D, c) <= Seen(D, c)'
               /\ Seen(D, c) \in Nat /\ Seen(D, c)' \in Nat
    <3>0. IsFiniteSet(Since(events, SendKeys(D), c))
      BY <1>1 DEF Counted
    <3>1. Since(events, SendKeys(D), c)' = Since(events, SendKeys(D), c) /\ IsFiniteSet(Since(events, SendKeys(D), c))
      BY <1>2, <3>0 DEF Since
    <3> PICK E, S, T : /\ E = Cardinality(Since(events, SendKeys(D), c))
                       /\ S = Cardinality(Sending(D, c)) /\ T = Cardinality(Sending(D, c)')
      OBVIOUS
    <3>2. E \in Nat /\ S \in Nat
      BY <3>1, SendingFinite, FS_CardinalityType
    <3>3. T \in Nat
      <4>1. Sending(D, c)' \in SUBSET Accounts
        BY DEF Sending
      <4>2. QED  BY <4>1, AccountsAssumption, FS_Subset, FS_CardinalityType
    <3>4. S <= T + 1
      BY SendingEnds
    <3>5. Seen(D, c) = E + S + crashes /\ Seen(D, c)' = E + T + (crashes + 1)
      BY <1>2, <3>1 DEF Seen
    <3>6. QED  BY <1>1, <3>1, <3>2, <3>3, <3>4, <3>5
  <2>3. Counted'
    BY <2>2, CountStays
  <2>4. SendsWithinLimit'
    BY <1>1, <1>2, LimitStays
  <2>5. QED  BY <2>1, <2>3, <2>4 DEF ContactInv
<1>3. CASE /\ work[r].op \in {"send", "check"} /\ Logged(work[r].to, work[r].op, work[r].at)
           /\ UNCHANGED crashes
  <2> PICK d, action, at : d = work[r].to /\ action = work[r].op /\ at = work[r].at
    OBVIOUS
  <2> PICK key : key = <<d[1], d[2], action>>
    OBVIOUS
  <2>1. d \in Addresses /\ at \in Nat /\ action \in {"send", "check"}
    BY <1>1, <1>3 DEF ContactTypes, Contacts
  <2>2. events' = [events EXCEPT ![key] = Append(@, at)]
    BY <1>3 DEF Logged
  <2>3. /\ events \in [DOMAIN events -> Seq(Nat)] /\ DOMAIN events = Accounts \X Channels \X {"send", "check"}
        /\ key \in DOMAIN events
    <3>1. {} \in SUBSET Addresses
      OBVIOUS
    <3>2. key \in Accounts \X Channels \X {"send", "check"}
      BY <2>1, <3>1, SendKeysIn
    <3>3. events \in [Accounts \X Channels \X {"send", "check"} -> Seq(Nat)]
      BY <1>1 DEF ContactTypes
    <3>4. DOMAIN events = Accounts \X Channels \X {"send", "check"}
      BY <3>3
    <3>5. QED  BY <3>2, <3>3, <3>4
  <2>4. ASSUME NEW D \in SUBSET Addresses, NEW c \in Nat
        PROVE  OneMore(events, events', key, at, SendKeys(D), c)
    <3>1. IsFiniteSet(Since(events, SendKeys(D), c)) /\ SendKeys(D) \in SUBSET DOMAIN events
      BY <1>1, <2>1, <2>3, SendKeysIn DEF Counted
    <3>2. QED  BY <2>1, <2>2, <2>3, <3>1, SinceAppend
  <2>5. ContactTypes'
    <3>1. {} \in SUBSET Addresses /\ 0 \in Nat
      OBVIOUS
    <3>2. events' \in [Accounts \X Channels \X {"send", "check"} -> Seq(Nat)]
      BY <2>3, <2>4, <3>1 DEF OneMore
    <3>3. QED  BY <1>1, <3>2, TypesEnd
  <2>6. ASSUME NEW D \in SUBSET Addresses, NEW c \in Nat
        PROVE  /\ IsFiniteSet(Since(events, SendKeys(D), c)') /\ Seen(D, c) <= Seen(D, c)'
               /\ Seen(D, c) \in Nat /\ Seen(D, c)' \in Nat
    <3>1. /\ Since(events, SendKeys(D), c)' = Since(events', SendKeys(D), c)
          /\ IsFiniteSet(Since(events, SendKeys(D), c))
      BY <1>1 DEF Since, Counted
    <3>2. IsFiniteSet(Since(events', SendKeys(D), c))
      BY <2>4 DEF OneMore
    <3> PICK E, F, S, T : /\ E = Cardinality(Since(events, SendKeys(D), c))
                          /\ F = Cardinality(Since(events', SendKeys(D), c))
                          /\ S = Cardinality(Sending(D, c)) /\ T = Cardinality(Sending(D, c)')
      OBVIOUS
    <3>3. E \in Nat /\ F \in Nat /\ S \in Nat
      BY <3>1, <3>2, SendingFinite, FS_CardinalityType
    <3>4. T \in Nat
      <4>1. Sending(D, c)' \in SUBSET Accounts
        BY DEF Sending
      <4>2. QED  BY <4>1, AccountsAssumption, FS_Subset, FS_CardinalityType
    <3>5. key \in SendKeys(D) <=> action = "send" /\ d \in D
      BY <2>1, SendKeysIn
    <3>6. E + S <= F + T
      <4>1. CASE key \in SendKeys(D) /\ InHour(at, c)
        <5>1. F = E + 1 /\ S <= T + 1
          BY <2>4, <4>1, SendingEnds DEF OneMore
        <5>2. QED  BY <3>3, <3>4, <5>1
      <4>2. CASE ~ (key \in SendKeys(D) /\ InHour(at, c))
        <5>1. F = E
          BY <2>4, <4>2 DEF OneMore
        <5>2. T = S
          BY <3>5, <4>2, SendingEnds
        <5>3. QED  BY <3>3, <3>4, <5>1, <5>2
      <4>3. QED  BY <4>1, <4>2
    <3>7. Seen(D, c) = E + S + crashes /\ Seen(D, c)' = F + T + crashes
      BY <1>3, <3>1 DEF Seen
    <3>8. QED  BY <1>1, <3>1, <3>2, <3>3, <3>4, <3>6, <3>7
  <2>7. Counted'
    BY <2>6, CountStays
  <2>8. SendsWithinLimit'
    BY <1>1, <1>3, LimitStays
  <2>9. QED  BY <2>5, <2>7, <2>8 DEF ContactInv
<1>4. QED  BY <1>2, <1>3

\* Only the clock moves the clock.
LEMMA OthersClock ==
  ASSUME CredentialsNext \/ (\E addresses : EvidenceNext(addresses)) \/ Tick
  PROVE  clock' \in {clock, clock + 1}
<1>1. CASE CredentialsNext
  BY <1>1 DEF CredentialsNext, loginRead, loginWrite, resetSend, resetInsert, confirmRead, confirmAsk,
              confirmWrite, revokeNativeSession, base
<1>2. CASE \E addresses : EvidenceNext(addresses)
  BY <1>2 DEF EvidenceNext, sessionCall, sessionWrite, applyPersonaEvent, base
<1>3. CASE Tick
  BY <1>3 DEF Tick
<1>4. QED  BY <1>1, <1>2, <1>3

\* A check asks for no code.
LEMMA CheckCallKeeps ==
  ASSUME WorkOK, ContactInv, NEW r \in Requests, NEW a \in Accounts, NEW ch \in Channels,
         checkCall(r, a, ch)
  PROVE  ContactInv'
<1>1. PICK answer : /\ work[r] = None
                    /\ work' = [work EXCEPT ![r] = [op |-> "check", to |-> <<a, ch>>, at |-> clock, answer |-> answer]]
  BY DEF checkCall, Start
<1>2. PICK what : what = [op |-> "check", to |-> <<a, ch>>, at |-> clock, answer |-> answer]
  OBVIOUS
<1>3. /\ work'[r] = what /\ what.op = "check" /\ what.to \in Addresses /\ what.at = clock
      /\ \A q \in Requests \ {r} : work'[q] = work[q]
  BY <1>1, <1>2, WorkOf DEF Addresses
<1>4. ContactTypes /\ Counted /\ clock \in Nat /\ crashes \in Nat /\ UNCHANGED <<clock, crashes, contacts>>
  BY DEF ContactInv, WorkOK, checkCall
<1>5. UNCHANGED <<asked, events>>
  BY <1>4 DEF contacts
<1>6. ContactTypes'
  BY <1>3, <1>4, <1>5 DEF ContactTypes, Contacts
<1>7. ASSUME NEW D \in SUBSET Addresses, NEW c \in Nat
      PROVE  /\ IsFiniteSet(Since(events, SendKeys(D), c)') /\ Seen(D, c) <= Seen(D, c)'
             /\ Seen(D, c) \in Nat /\ Seen(D, c)' \in Nat
  <2>1. IsFiniteSet(Since(events, SendKeys(D), c))
    BY <1>4 DEF Counted
  <2>2. Since(events, SendKeys(D), c)' = Since(events, SendKeys(D), c)
    BY <1>5 DEF Since
  <2>3. Sending(D, c)' = Sending(D, c)
    BY <1>1, <1>3 DEF Sending
  <2>4. Seen(D, c)' = Seen(D, c)
    BY <1>4, <2>2, <2>3 DEF Seen
  <2>5. Seen(D, c) \in Nat
    BY <1>4, <2>1, SendingFinite, FS_CardinalityType DEF Seen
  <2>6. QED  BY <2>1, <2>2, <2>4, <2>5
<1>8. Counted'
  BY <1>5, <1>7, CountStays
<1>9. SendsWithinLimit'
  BY <1>4, <1>5, LimitStays
<1>10. QED  BY <1>6, <1>8, <1>9 DEF ContactInv

\* Before the first step nobody has asked for anything.
LEMMA ContactStart == Init => ContactInv
<1> SUFFICES ASSUME Init
             PROVE  ContactInv
  OBVIOUS
<1>1. /\ asked = [d \in Addresses |-> <<>>]
      /\ events = [e \in Accounts \X Channels \X {"send", "check"} |-> <<>>]
      /\ work = [r \in Requests |-> None] /\ crashes = 0 /\ clock = 0
  BY DEF Init, ContactInit, BaseInit, Addresses
<1>2. ContactTypes
  BY <1>1 DEF ContactTypes, Contacts
<1>3. ASSUME NEW D \in SUBSET Addresses, NEW c \in Nat
      PROVE  Since(asked, D, c) = {} /\ Since(events, SendKeys(D), c) = {} /\ Sending(D, c) = {}
  <2>1. Since(asked, D, c) = {}
    BY <1>1 DEF Since
  <2>2. Since(events, SendKeys(D), c) = {}
    <3>1. \A k \in SendKeys(D) : events[k] = <<>>
      <4>1. {"send"} \subseteq {"send", "check"} /\ "send" \in {"send", "check"}
        OBVIOUS
      <4>2. \A d \in D : <<d[1], d[2], "send">> \in Accounts \X Channels \X {"send", "check"}
        BY <4>1, SendKeysIn
      <4>3. QED  BY <1>1, <4>2 DEF SendKeys
    <3>2. QED  BY <3>1 DEF Since
  <2>3. Sending(D, c) = {}
    BY <1>1 DEF Sending
  <2>4. QED  BY <2>1, <2>2, <2>3
<1>4. Cardinality({}) = 0 /\ IsFiniteSet({})
  BY FS_EmptySet
<1>5. Counted
  <2>1. ASSUME NEW D \in SUBSET Addresses, NEW c \in Nat
        PROVE  /\ IsFiniteSet(Since(asked, D, c)) /\ IsFiniteSet(Since(events, SendKeys(D), c))
               /\ Cardinality(Since(asked, D, c)) = 0 /\ Cardinality(Since(events, SendKeys(D), c)) = 0
               /\ Cardinality(Sending(D, c)) = 0
    BY <1>3, <1>4, Zenon
  <2>2. ASSUME NEW D \in SUBSET Addresses, NEW c \in Nat
        PROVE  Cardinality(Since(asked, D, c))
                 <= Cardinality(Since(events, SendKeys(D), c)) + Cardinality(Sending(D, c)) + crashes
    BY <1>1, <2>1
  <2>3. QED  BY <2>1, <2>2 DEF Counted
<1>6. ASSUME NEW D \in SUBSET Addresses
      PROVE  Recent(asked, D) = 0
  <2>1. Recent(asked, D) = Cardinality(Since(asked, D, clock))
    BY RecentSince
  <2>2. clock \in Nat
    BY <1>1
  <2>3. Since(asked, D, clock) = {}
    BY <1>3, <2>2
  <2>4. QED  BY <1>4, <2>1, <2>3, Zenon
<1>7. SendLimit \in Nat /\ SendLimitIp \in Nat /\ Cardinality(Accounts) \in Nat /\ 1 <= Cardinality(Accounts)
  <2>1. Accounts # {} /\ IsFiniteSet(Accounts)
    BY AccountsAssumption, HolderAssumption
  <2>2. Cardinality(Accounts) # 0 /\ Cardinality(Accounts) \in Nat
    BY <2>1, FS_EmptySet, FS_CardinalityType
  <2>3. QED  BY <2>2, LimitAssumption
<1>8. ASSUME NEW d \in Addresses
      PROVE  Recent(asked, {d}) <= SendLimit + crashes
  <2>1. {d} \in SUBSET Addresses
    OBVIOUS
  <2>2. QED  BY <1>1, <1>6, <1>7, <2>1
<1>9. ASSUME NEW ch \in Channels
      PROVE  Recent(asked, Accounts \X {ch}) <= SendLimitIp + crashes + Cardinality(Accounts) - 1
  <2>1. Accounts \X {ch} \in SUBSET Addresses
    BY LimitKeys
  <2>2. QED  BY <1>1, <1>6, <1>7, <2>1
<1>10. SendsWithinLimit
  BY <1>8, <1>9 DEF SendsWithinLimit, Addresses
<1>11. QED  BY <1>2, <1>5, <1>10 DEF ContactInv

\* In an hour the provider is asked for at most SendLimit codes to one address, one
\* more per request that was lost, and to all addresses of an IP for at most its limit,
\* those, and one per other account that has a request under way.
THEOREM CodesLimited == Spec => []SendsWithinLimit
<1>1. Init => ContactInv
  BY ContactStart
<1>2. ASSUME WorkOK, ContactInv, [Next]_vars
      PROVE  ContactInv'
  <2>1. clock \in Nat /\ crashes \in Nat
    BY <1>2 DEF WorkOK
  <2>2. ASSUME UNCHANGED contacts, CredentialsNext \/ (\E addresses : EvidenceNext(addresses)) \/ Tick
        PROVE  ContactInv'
    <3>1. SameContacts /\ crashes' = crashes
      BY <1>2, <2>2, OthersSameContacts
    <3>2. clock' \in {clock, clock + 1}
      BY <2>2, OthersClock
    <3>3. QED  BY <1>2, <2>1, <2>2, <3>1, <3>2, ContactQuiet
  <2>3. ASSUME NEW r \in Requests, Lost(r), UNCHANGED contacts
        PROVE  ContactInv'
    <3>1. work[r] # None /\ work' = [work EXCEPT ![r] = None] /\ crashes' = crashes + 1 /\ UNCHANGED clock
      BY <2>3 DEF Lost, Done
    <3>2. UNCHANGED <<asked, events>>
      BY <2>3 DEF contacts
    <3>3. QED  BY <1>2, <3>1, <3>2, EndKeeps
  <2>4. ASSUME NEW r \in Requests, sendWrite(r) \/ checkWrite(r)
        PROVE  ContactInv'
    <3>1. /\ work[r] # None /\ work' = [work EXCEPT ![r] = None] /\ work[r].op \in {"send", "check"}
          /\ Logged(work[r].to, work[r].op, work[r].at) /\ UNCHANGED <<asked, clock, crashes>>
      BY <2>4 DEF sendWrite, checkWrite, Done
    <3>2. QED  BY <1>2, <3>1, EndKeeps
  <2>5. CASE ContactNext
    BY <1>2, <2>4, <2>5, SendCallKeeps, CheckCallKeeps DEF ContactNext
  <2>6. CASE Next
    <3>1. CASE CredentialsNext /\ UNCHANGED <<contacts, evidence>>
      BY <2>2, <3>1
    <3>2. CASE EvidenceNext(verified) /\ UNCHANGED <<credentials, contacts>>
      BY <2>2, <3>2
    <3>3. CASE (Tick \/ \E r \in Requests : Lost(r)) /\ UNCHANGED <<credentials, contacts, evidence>>
      BY <2>2, <2>3, <3>3
    <3>4. QED  BY <2>5, <2>6, <3>1, <3>2, <3>3, NextParts
  <2>7. CASE UNCHANGED vars
    <3>1. SameContacts /\ UNCHANGED <<contacts, clock, crashes>>
      BY <2>7 DEF vars, base, SameContacts
    <3>2. QED  BY <1>2, <2>1, <3>1, ContactQuiet
  <2>8. QED  BY <1>2, <2>6, <2>7
<1>3. ContactInv => SendsWithinLimit
  BY DEF ContactInv
<1>4. QED  BY <1>1, <1>2, <1>3, WorkInv, PTL DEF Spec
=============================================================================
