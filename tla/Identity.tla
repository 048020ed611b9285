------------------------------ MODULE Identity ------------------------------
(***************************************************************************)
(* The identity handlers together.  Sign-in, contact codes and inquiries   *)
(* meet at the verified addresses, the provider's codes and the clock.  To *)
(* keep the runs small a behaviour is about one of three subjects, chosen  *)
(* at the start: sign-in and recovery, the codes of several accounts, or   *)
(* the inquiries of one account, whose addresses are verified first.       *)
(***************************************************************************)
EXTENDS Credentials, ContactCodes, IdentityEvidence

VARIABLE subject

vars == <<base, credentials, contacts, evidence, subject>>

Init ==
  /\ BaseInit /\ CredentialsInit /\ ContactInit /\ EvidenceInit
  /\ subject \in {"recovery", "codes", "inquiries"}

\* Bound: the requests for codes a behaviour about another subject makes.
Contact(a, ch) ==
  \/ subject = "codes" /\ ch = "email"
  \/ subject = "inquiries" /\ a = Claimant /\ asked[a, ch] = <<>>

Next ==
  /\ \/ CredentialsNext /\ subject = "recovery" /\ UNCHANGED <<contacts, evidence>>
     \/ /\ \E r \in Requests :
             \/ \E a \in Accounts, ch \in Channels :
                  \/ sendCall(r, a, ch) /\ Contact(a, ch)
                  \/ checkCall(r, a, ch)
             \/ sendWrite(r) \/ checkWrite(r)
        /\ UNCHANGED <<credentials, evidence>>
     \/ EvidenceNext(verified) /\ subject = "inquiries" /\ UNCHANGED <<credentials, contacts>>
     \/ (Tick \/ \E r \in Requests : Lost(r)) /\ UNCHANGED <<credentials, contacts, evidence>>
  /\ UNCHANGED subject

Spec == Init /\ [][Next]_vars
=============================================================================
