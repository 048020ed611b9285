---------------------------- MODULE ContactCodes ----------------------------
(***************************************************************************)
(* Verification of an email address or a phone by a code                   *)
(* (identity/contact.ts).  The whole handler is one transaction that holds *)
(* the account's profile row while it calls the provider: a request that   *)
(* is lost after the call leaves no trace, but the code was sent.  All     *)
(* accounts send from one IP address, the worst case for its limit.        *)
(***************************************************************************)
EXTENDS IdentityBase

CONSTANTS
  SendLimit, CheckLimit,     \* per account, channel and hour: 5 and 20
  SendLimitIp, CheckLimitIp, \* per IP address, channel and hour: 20 and 50
  Window,                    \* an hour
  Cooldown                   \* 60 seconds between two codes

ASSUME LimitAssumption == {SendLimit, CheckLimit, SendLimitIp, CheckLimitIp, Window, Cooldown} \subseteq Nat

VARIABLES
  verification, \* verification[a, ch]: the newest row of contact_verifications, or None
  events,       \* contact_verification_events: when, by address and action
  asked,        \* when the provider was asked to send a code, by address
  verified      \* the addresses that account_assurance holds as verified

contacts == <<verification, events, asked, verified>>

ContactInit ==
  /\ verification = [d \in Accounts \X Channels |-> None]
  /\ events = [e \in Accounts \X Channels \X {"send", "check"} |-> <<>>]
  /\ asked = [d \in Accounts \X Channels |-> <<>>] /\ verified = {}

\* Mutant: the profile is read without FOR UPDATE.
AlwaysReadable(a) == TRUE
ProfileFree(a) == \A w \in Busy({"send", "check"}) : w.to[1] # a

\* How much the log holds under the keys, of the last hour.
Recent(log, keys) ==
  Cardinality(UNION {{<<k, i>> : i \in {j \in DOMAIN log[k] : log[k][j] + Window > clock}} : k \in keys})

enforceLimit(d, action, limit, limitIp) ==
  /\ Recent(events, {<<d[1], d[2], action>>}) < limit
  /\ Recent(events, Accounts \X {d[2]} \X {action}) < limitIp

\* The limits, the cooldown, and the call; the provider may take the code and not say so.
sendCall(r, a, ch) ==
  LET d == <<a, ch>>
  IN /\ ProfileFree(a) /\ enforceLimit(d, "send", SendLimit, SendLimitIp)
     /\ verification[d] # None => verification[d].resend <= clock
     /\ asked' = [asked EXCEPT ![d] = Append(@, clock)]
     /\ \E taken, accepted \in BOOLEAN :
          /\ accepted => taken
          /\ code' = [code EXCEPT ![d] = @ \/ taken]
          /\ Start(r, [op |-> "send", to |-> d, at |-> clock,
                       state |-> IF accepted THEN "pending" ELSE "delivery_uncertain"])
     /\ UNCHANGED <<clock, crashes, verification, events, verified>>

Logged(d, action, at) == events' = [events EXCEPT ![<<d[1], d[2], action>>] = Append(@, at)]

sendWrite(r) ==
  /\ work[r] # None /\ work[r].op = "send" /\ Done(r)
  /\ verification' = [verification EXCEPT ![work[r].to] =
       [state |-> work[r].state, attempts |-> 0,
        expires |-> work[r].at + CodeLife, resend |-> work[r].at + Cooldown]]
  /\ Logged(work[r].to, "send", work[r].at)
  /\ UNCHANGED <<clock, code, crashes, asked, verified>>

\* A call that fails (None) is recorded as an event, not as an attempt.
checkCall(r, a, ch) ==
  LET d == <<a, ch>>
  IN /\ ProfileFree(a) /\ enforceLimit(d, "check", CheckLimit, CheckLimitIp)
     /\ verification[d] # None
     /\ verification[d].state \in {"pending", "delivery_uncertain"}
     /\ verification[d].expires > clock /\ verification[d].attempts < MaxAttempts
     /\ \E answer \in Answers(d), heard \in BOOLEAN :
          /\ Answered(d, answer)
          /\ Start(r, [op |-> "check", to |-> d, at |-> clock, answer |-> IF heard THEN answer ELSE None])
     /\ UNCHANGED <<clock, crashes, contacts>>

CheckedState(answer, attempts) ==
  IF answer \in {"approved", "expired"} THEN answer
  ELSE IF attempts >= MaxAttempts THEN "failed" ELSE "pending"

checkWrite(r) ==
  /\ work[r] # None /\ work[r].op = "check" /\ Done(r)
  /\ LET d == work[r].to
         attempts == verification[d].attempts + 1
         answer == work[r].answer
     IN /\ Logged(d, "check", work[r].at)
        /\ verification' = IF answer = None THEN verification
             ELSE [verification EXCEPT ![d].state = CheckedState(answer, attempts), ![d].attempts = attempts]
        /\ verified' = IF answer = "approved" THEN verified \union {d} ELSE verified
  /\ UNCHANGED <<clock, code, crashes, asked>>

ContactNext ==
  \E r \in Requests :
    \/ \E a \in Accounts, ch \in Channels : sendCall(r, a, ch) \/ checkCall(r, a, ch)
    \/ sendWrite(r) \/ checkWrite(r)

(***************************************************************************)
(* Property.                                                               *)
(***************************************************************************)
\* The provider is asked for at most SendLimit codes to one address in an hour,
\* one more per request that was lost.  The limit of an IP address is checked under
\* no lock that its accounts share, so each of the other accounts with a request
\* under way may add one (context and enforceLimit of identity/contact.ts).
SendsWithinLimit ==
  /\ \A d \in Accounts \X Channels : Recent(asked, {d}) <= SendLimit + crashes
  /\ \A ch \in Channels :
       Recent(asked, Accounts \X {ch}) <= SendLimitIp + crashes + Cardinality(Accounts) - 1
=============================================================================
