-------------------------- MODULE IdentityEvidence --------------------------
(***************************************************************************)
(* Identity verification by an external provider (identity/persona.ts): an *)
(* account opens inquiries at the provider, whose signed events arrive at  *)
(* any time, in any order and more than once.                              *)
(***************************************************************************)
EXTENDS IdentityBase

CONSTANTS
  Claimant,   \* the account; accounts share no inquiry
  Inquiries,  \* the provider's references
  Events      \* what the provider reports: [of: inquiry, at: its time, state: normalized]

ASSUME EventsAssumption ==
  Claimant \in Accounts /\ \A e \in Events : e.of \in Inquiries /\ e.at \in Nat \ {0}

VARIABLES
  status,    \* account_assurance.identity_status
  atProvider,\* the inquiries the provider has opened
  inquiries, \* identity_inquiries: [state, last event's time], or None
  received   \* identity_provider_events

evidence == <<status, atProvider, inquiries, received>>

EvidenceInit ==
  /\ status = "NOT_STARTED" /\ atProvider = {} /\ received = {}
  /\ inquiries = [q \in Inquiries |-> None]

\* Mutant: the assurance row is read without FOR UPDATE.
AlwaysUnlocked == TRUE
AssuranceFree == Busy({"session"}) = {}

\* The provider is called under the lock; a repeated key gives the same inquiry.
sessionCall(r, q, addresses) ==
  /\ AssuranceFree /\ {Claimant} \X Channels \subseteq addresses /\ status # "VERIFIED"
  /\ Start(r, [op |-> "session", of |-> q])
  /\ atProvider' = atProvider \union {q}
  /\ UNCHANGED <<clock, code, crashes, status, inquiries, received>>

sessionWrite(r) ==
  /\ work[r] # None /\ work[r].op = "session" /\ Done(r)
  /\ LET q == work[r].of
     IN inquiries' = IF inquiries[q] # None THEN inquiries
                     ELSE [inquiries EXCEPT ![q] = [state |-> "PENDING", last |-> 0]]
  /\ status' = "PENDING"
  /\ UNCHANGED <<clock, code, crashes, atProvider, received>>

Newer(e) == e.at > inquiries[e.of].last

\* An event of an inquiry that is not recorded yet is refused and sent again; one
\* that was received before changes nothing.
applyPersonaEvent(e) ==
  /\ e.of \in atProvider /\ inquiries[e.of] # None /\ e \notin received /\ AssuranceFree
  /\ received' = received \union {e}
  /\ inquiries' = IF Newer(e) THEN [inquiries EXCEPT ![e.of] = [state |-> e.state, last |-> e.at]]
                              ELSE inquiries
  /\ status' = IF Newer(e) THEN e.state ELSE status
  /\ UNCHANGED <<base, atProvider>>

EvidenceNext(addresses) ==
  \/ \E r \in Requests : \/ \E q \in Inquiries : sessionCall(r, q, addresses)
                         \/ sessionWrite(r)
  \/ \E e \in Events : applyPersonaEvent(e)

(***************************************************************************)
(* Properties.                                                             *)
(***************************************************************************)
\* A verified account loses that status only to an event of the provider, never to
\* a session that was being opened when the approval came in (createIdentitySession).
VerifiedStands ==
  [][status = "VERIFIED" /\ status' # "VERIFIED" => received' # received]_status
=============================================================================
