----------------------------- MODULE Governance -----------------------------
(***************************************************************************)
(* How a market gets published: proposals of outsiders, drafts, the four   *)
(* independent reviews, publication, and the images the terms refer to.    *)
(*                                                                         *)
(* A handler that reads the registries or the images is a transaction of   *)
(* two steps.  Begin... takes the locks in the order of the code and makes *)
(* every check: FOR UPDATE on the market, FOR SHARE on the registry rows   *)
(* and the images.  Finish... writes and commits; Rollback gives up after  *)
(* a lock timeout or a stopped process.  Between the two, operators change *)
(* the registries and other accounts send their own commands; a handler    *)
(* whose row is locked waits.  A handler that locks one row and decides    *)
(* from it alone is one step.                                              *)
(***************************************************************************)
EXTENDS Naturals, FiniteSets

CONSTANTS
  Accounts,     \* the people with operator roles
  Roles,        \* Roles[a]: the roles of account a
  Markets,      \* identifiers of markets
  Proposals,    \* identifiers of proposals
  Images,       \* identifiers of image uploads
  Owner,        \* Owner[i]: the account that asks for upload i
  Terms,        \* the terms a command may carry
  Entries,      \* rows of the template, source, policy and country registries
  Connections,  \* database connections: transactions open at a time
  None,         \* no row yet, no transaction
  Scopes,       \* bound: what one behaviour uses (markets, connections) and submits
  MaxVersion,   \* bound on the versions of a market
  MaxClock      \* bound on the clock

ASSUME GovernanceAssumption ==
  /\ Roles \in [Accounts -> SUBSET STRING]
  /\ Owner \in [Images -> Accounts]
  /\ \A t \in Terms : /\ t.needs \subseteq Entries /\ t.countries \subseteq Entries
                      /\ t.images \subseteq Images /\ t.opens \in Nat

\* The rows of markets and market_proposals, and what an open transaction remembers.
Market == [creator : Accounts, source : Proposals \union {None},
           state : {"draft", "rejected", "review", "scheduled"}, version : Nat, terms : Terms]
Proposal == [proposer : Accounts, terms : Terms, status : {"submitted", "accepted", "rejected"}]
Transaction == [op : {"create", "edit", "submit", "publish"}, by : Accounts, market : Markets,
                terms : Terms, proposal : Proposals \union {None}]
MediaStatus == {"pending", "complete", "deleted"}

\* None stands for SQL's NULL, which is no row and no identifier.
ASSUME NoneAssumption ==
  None \notin Market \union Proposal \union Transaction \union MediaStatus \union Proposals

VARIABLES
  markets,    \* markets[m]: the row of m, or None
  proposals,  \* proposals[p]: the row of p, or None
  reviews,    \* the rows of market_reviews
  media,      \* media[i]: the status of upload i, or None
  registry,   \* the entries that are approved
  clock,      \* the server's time
  session,    \* session[c]: the open transaction of c, or None
  scope       \* the scope this behaviour keeps to

vars == <<markets, proposals, reviews, media, registry, clock, session, scope>>

\* The account that reviews each part of the policy: reviewRoles.
ReviewRole == [product |-> "market_approver", legal |-> "legal_reviewer",
               integrity |-> "integrity_reviewer", resolution |-> "resolution_reviewer"]
ReviewTypes == DOMAIN ReviewRole

Init ==
  /\ markets = [m \in Markets |-> None]
  /\ proposals = [p \in Proposals |-> None]
  /\ reviews = {}
  /\ media = [i \in Images |-> None]
  /\ registry = Entries
  /\ clock = 0
  /\ session = [c \in Connections |-> None]
  /\ scope \in Scopes

(***************************************************************************)
(* The locks of the open transactions.                                     *)
(***************************************************************************)
Open == {session[c] : c \in {d \in Connections : session[d] # None}}
LockedMarkets == {x.market : x \in Open}
LockedImages == UNION {x.terms.images : x \in {y \in Open : y.op \in {"create", "edit"}}}

\* Mutant: the registry rows are read without FOR SHARE.
UnlockedEntries == {}
LockedEntries ==
  UNION {x.terms.needs \union (IF x.op = "publish" THEN x.terms.countries ELSE {}) : x \in Open}

(***************************************************************************)
(* The checks.                                                             *)
(***************************************************************************)
\* validateTerms at the time of the command: structure is fixed per terms,
\* the opening time is not.
validateTerms(t) == t.opens > clock

\* approvedTemplate and approvedReferences.
Approved(t) == t.needs \subseteq registry

\* Every image is a completed upload of the draft's creator.
assertOutcomeMedia(a, t) == \A i \in t.images : Owner[i] = a /\ media[i] = "complete"

\* Neither the creator nor the original proposer reviews or publishes.
independent(a, row) ==
  /\ row.creator # a
  /\ row.source # None => proposals[row.source].proposer # a

\* The part of the policy that has an approval for this version and these terms.
\* Mutant: the approvals of earlier versions and of other terms count too.
ApprovedOnce(m) == {r.type : r \in {s \in reviews : s.market = m /\ s.decision = "approved"}}
ApprovedTypes(m) ==
  {r.type : r \in {s \in reviews : /\ s.market = m /\ s.decision = "approved"
                                   /\ s.version = markets[m].version
                                   /\ s.terms = markets[m].terms}}

Adoptable(p, t) == /\ proposals[p] # None
                   /\ proposals[p].status = "submitted" /\ proposals[p].terms = t

(***************************************************************************)
(* Transactions: Begin takes the locks and checks, Finish writes.          *)
(***************************************************************************)
Begin(c, op, a, m, t, p) ==
  /\ c \in scope.connections /\ m \in scope.markets
  /\ session[c] = None /\ m \notin LockedMarkets
  /\ validateTerms(t) /\ Approved(t)
  /\ session' = [session EXCEPT ![c] =
       [op |-> op, by |-> a, market |-> m, terms |-> t, proposal |-> p]]
  /\ UNCHANGED <<markets, proposals, reviews, media, registry, clock, scope>>

beginCreate(c, a, m, t, p) ==
  /\ "market_creator" \in Roles[a] /\ markets[m] = None
  /\ assertOutcomeMedia(a, t)
  /\ Begin(c, "create", a, m, t, p)

beginEdit(c, a, m, t) ==
  /\ markets[m] # None /\ markets[m].creator = a
  /\ markets[m].state \in {"draft", "rejected"} /\ markets[m].version < MaxVersion
  /\ assertOutcomeMedia(a, t)
  /\ Begin(c, "edit", a, m, t, None)

beginSubmit(c, a, m) ==
  /\ m \in scope.submits
  /\ markets[m] # None /\ markets[m].creator = a /\ markets[m].state = "draft"
  /\ Begin(c, "submit", a, m, markets[m].terms, None)

beginPublish(c, a, m) ==
  /\ markets[m] # None /\ "market_approver" \in Roles[a]
  /\ independent(a, markets[m]) /\ markets[m].state = "review"
  /\ ApprovedTypes(m) = ReviewTypes
  /\ markets[m].terms.countries \subseteq registry
  /\ Begin(c, "publish", a, m, markets[m].terms, None)

\* createDraft locks the proposal last, checks it and writes both rows.
finishCreate(x) ==
  /\ x.op = "create"
  /\ x.proposal # None => Adoptable(x.proposal, x.terms)
  /\ markets' = [markets EXCEPT ![x.market] =
       [creator |-> x.by, source |-> x.proposal, state |-> "draft", version |-> 1, terms |-> x.terms]]
  /\ proposals' = IF x.proposal = None THEN proposals
                  ELSE [proposals EXCEPT ![x.proposal].status = "accepted"]

finishEdit(x) ==
  /\ x.op = "edit"
  /\ markets' = [markets EXCEPT ![x.market] =
       [@ EXCEPT !.terms = x.terms, !.version = markets[x.market].version + 1, !.state = "draft"]]
  /\ UNCHANGED proposals

finishSubmit(x) ==
  /\ x.op = "submit"
  /\ markets' = [markets EXCEPT ![x.market].state = "review"]
  /\ UNCHANGED proposals

finishPublish(x) ==
  /\ x.op = "publish"
  /\ markets' = [markets EXCEPT ![x.market].state = "scheduled"]
  /\ UNCHANGED proposals

Finish(c) ==
  /\ session[c] # None
  /\ \/ finishCreate(session[c]) \/ finishEdit(session[c])
     \/ finishSubmit(session[c]) \/ finishPublish(session[c])
  /\ session' = [session EXCEPT ![c] = None]
  /\ UNCHANGED <<reviews, media, registry, clock, scope>>

Rollback(c) ==
  /\ session[c] # None
  /\ session' = [session EXCEPT ![c] = None]
  /\ UNCHANGED <<markets, proposals, reviews, media, registry, clock, scope>>

(***************************************************************************)
(* Commands that lock one row and decide from it.                          *)
(***************************************************************************)
\* One decision per part and version, each by another account.
reviewMarket(a, m, type, decision) ==
  /\ ReviewRole[type] \in Roles[a]
  /\ markets[m] # None /\ m \notin LockedMarkets
  /\ independent(a, markets[m]) /\ markets[m].state = "review"
  /\ \A r \in reviews : r.market = m /\ r.version = markets[m].version
                          => r.reviewer # a /\ r.type # type
  /\ reviews' = reviews \union
       {[market |-> m, version |-> markets[m].version, terms |-> markets[m].terms,
         type |-> type, reviewer |-> a, decision |-> decision]}
  /\ markets' = IF decision = "rejected" THEN [markets EXCEPT ![m].state = "rejected"]
                                         ELSE markets
  /\ UNCHANGED <<proposals, media, registry, clock, session, scope>>

\* A proposal refers to the registries like a draft, but its images are not looked at.
submitMarketProposal(a, p, t) ==
  /\ "market_proposer" \in Roles[a] /\ proposals[p] = None
  /\ validateTerms(t) /\ Approved(t)
  /\ proposals' = [proposals EXCEPT ![p] = [proposer |-> a, terms |-> t, status |-> "submitted"]]
  /\ UNCHANGED <<markets, reviews, media, registry, clock, session, scope>>

rejectMarketProposal(a, p) ==
  /\ "market_approver" \in Roles[a]
  /\ proposals[p] # None /\ proposals[p].proposer # a /\ proposals[p].status = "submitted"
  /\ proposals' = [proposals EXCEPT ![p].status = "rejected"]
  /\ UNCHANGED <<markets, reviews, media, registry, clock, session, scope>>

createMarketMediaUpload(i) ==
  /\ "market_creator" \in Roles[Owner[i]] /\ media[i] = None
  /\ media' = [media EXCEPT ![i] = "pending"]
  /\ UNCHANGED <<markets, proposals, reviews, registry, clock, session, scope>>

completeMarketMediaUpload(i) ==
  /\ media[i] = "pending"
  /\ media' = [media EXCEPT ![i] = "complete"]
  /\ UNCHANGED <<markets, proposals, reviews, registry, clock, session, scope>>

\* FOR UPDATE waits for the transactions that hold the image; the search for
\* markets and proposals that use it is a later statement and sees what they wrote.
\* Mutant: the image is deleted without waiting.
UsedOnly(i) == \E row \in ({markets[m] : m \in Markets} \union {proposals[p] : p \in Proposals}) \ {None} :
                 i \in row.terms.images
InUse(i) == i \in LockedImages \/ UsedOnly(i)
deleteMarketMediaUpload(i) ==
  /\ media[i] \in {"pending", "complete"} /\ ~ InUse(i)
  /\ media' = [media EXCEPT ![i] = "deleted"]
  /\ UNCHANGED <<markets, proposals, reviews, registry, clock, session, scope>>

(***************************************************************************)
(* The operators' registries and the clock.                                *)
(***************************************************************************)
SetEntry(e) ==
  /\ e \notin LockedEntries
  /\ registry' = IF e \in registry THEN registry \ {e} ELSE registry \union {e}
  /\ UNCHANGED <<markets, proposals, reviews, media, clock, session, scope>>

Tick ==
  /\ clock < MaxClock
  /\ clock' = clock + 1
  /\ UNCHANGED <<markets, proposals, reviews, media, registry, session, scope>>

Next ==
  \/ \E c \in Connections : Finish(c) \/ Rollback(c)
  \/ \E c \in Connections, a \in Accounts, m \in Markets :
       \/ \E t \in Terms : beginEdit(c, a, m, t) \/ \E p \in Proposals \union {None} : beginCreate(c, a, m, t, p)
       \/ beginSubmit(c, a, m) \/ beginPublish(c, a, m)
  \/ \E a \in Accounts, m \in Markets, type \in ReviewTypes, decision \in {"approved", "rejected"} :
       reviewMarket(a, m, type, decision)
  \/ \E a \in Accounts, p \in Proposals :
       rejectMarketProposal(a, p) \/ \E t \in Terms : submitMarketProposal(a, p, t)
  \/ \E i \in Images : \/ createMarketMediaUpload(i) \/ completeMarketMediaUpload(i)
                       \/ deleteMarketMediaUpload(i)
  \/ \E e \in Entries : SetEntry(e)
  \/ Tick

Spec == Init /\ [][Next]_vars

\* Every variable keeps its type.
Review == [market : Markets, version : Nat, terms : Terms, type : ReviewTypes,
           reviewer : Accounts, decision : {"approved", "rejected"}]
TypeOK ==
  /\ markets \in [Markets -> Market \union {None}]
  /\ proposals \in [Proposals -> Proposal \union {None}]
  /\ reviews \subseteq Review
  /\ media \in [Images -> MediaStatus \union {None}]
  /\ registry \subseteq Entries /\ clock \in Nat
  /\ session \in [Connections -> Transaction \union {None}]

(***************************************************************************)
(* Properties.                                                             *)
(***************************************************************************)
\* A published market was approved, in the version and with the terms that are
\* published, by four different people, none of whom drafted or proposed it, and
\* nobody rejected that version: whatever edits, rejections and resubmissions came
\* before (reviewMarket, publish, editDraft of markets/service.ts).
PublishedAsReviewed ==
  \A m \in Markets : markets[m] # None /\ markets[m].state = "scheduled" =>
    LET row == markets[m]
        mine == {r \in reviews : r.market = m /\ r.version = row.version}
    IN /\ {r.type : r \in mine} = ReviewTypes
       /\ \A r \in mine : r.decision = "approved" /\ r.terms = row.terms /\ independent(r.reviewer, row)
       /\ Cardinality({r.reviewer : r \in mine}) = Cardinality(ReviewTypes)

\* At the step that publishes a market its template, every source, every policy
\* reference and every country of its terms are approved, although each was read
\* in an earlier statement and operators withdraw approvals at any time
\* (FOR SHARE in approvedTemplate, approvedReferences and publish).
PublishedUnderPolicy ==
  [][\A m \in Markets :
       (markets[m] # None /\ markets[m].state # "scheduled" /\ markets'[m].state = "scheduled")
         => markets[m].terms.needs \union markets[m].terms.countries \subseteq registry]_vars

\* The images of every market's terms exist, are complete and belong to its
\* creator: a delete that races a draft either waits and finds the draft, or comes
\* first and the draft is refused (assertOutcomeMedia, deleteMarketMediaUpload).
ImagesKept ==
  \A m \in Markets : markets[m] # None => assertOutcomeMedia(markets[m].creator, markets[m].terms)
=============================================================================
