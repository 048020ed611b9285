-------------------------- MODULE GovernanceProofs --------------------------
(***************************************************************************)
(* Proofs about Governance: what is published was reviewed as it is, under *)
(* policies that stand, and no market's images are lost.                   *)
(*                                                                         *)
(* The invariant says three things the handlers rely on without looking:   *)
(* what a transaction checked still holds when it commits (Held), reviews  *)
(* of a version are about the terms of that version and a rejected version *)
(* leaves the review (Reviewed), and no version that nobody has drafted    *)
(* has reviews (Fresh).                                                    *)
(***************************************************************************)
EXTENDS Governance, FiniteSetTheorems, TLAPS

\* The reviews of the version that market m has now.
Current(m) == {r \in reviews : r.market = m /\ r.version = markets[m].version}

\* No review is about a market, or a version of one, that is still to come.
Fresh ==
  \A r \in reviews : markets[r.market] # None /\ r.version <= markets[r.market].version

\* The reviews of the current version are about the current terms, are by
\* outsiders, by different people on different parts, and all approve unless the
\* version was rejected; a draft has none.
Reviewed ==
  \A m \in Markets : markets[m] # None =>
    /\ markets[m].source # None => proposals[markets[m].source] # None
    /\ markets[m].state = "draft" => Current(m) = {}
    /\ \A r \in Current(m) :
         /\ r.terms = markets[m].terms /\ independent(r.reviewer, markets[m])
         /\ r.decision = "approved" \/ markets[m].state = "rejected"
         /\ \A s \in Current(m) : r # s => r.type # s.type /\ r.reviewer # s.reviewer

\* What an open transaction has checked and locked.
Held(x) ==
  /\ x.op = "create" => markets[x.market] = None
  /\ x.op # "create" => markets[x.market] # None
  /\ x.op = "edit" => /\ markets[x.market].creator = x.by
                      /\ markets[x.market].state \in {"draft", "rejected"}
  /\ x.op = "submit" => markets[x.market].state = "draft"
  /\ x.op = "publish" => /\ markets[x.market].state = "review"
                         /\ ApprovedTypes(x.market) = ReviewTypes
                         /\ x.terms = markets[x.market].terms
                         /\ x.terms.countries \subseteq registry
  /\ x.terms.needs \subseteq registry
  /\ x.op \in {"create", "edit"} => assertOutcomeMedia(x.by, x.terms)

Locked ==
  \A c \in Connections : session[c] # None =>
    /\ Held(session[c])
    /\ \A d \in Connections : session[d] # None /\ session[d].market = session[c].market => d = c

\* A scheduled market keeps the approvals it was published with.
Approvals ==
  \A m \in Markets : markets[m] # None /\ markets[m].state = "scheduled" =>
    ApprovedTypes(m) = ReviewTypes

GovernanceInv == TypeOK /\ Fresh /\ Reviewed /\ Locked /\ Approvals /\ ImagesKept

(***************************************************************************)
(* What the locks cover.                                                   *)
(***************************************************************************)
\* The locks of an open transaction are among the locks held.
LEMMA Covered ==
  ASSUME NEW c \in Connections, session[c] # None
  PROVE  /\ session[c].market \in LockedMarkets
         /\ session[c].terms.needs \subseteq LockedEntries
         /\ session[c].op = "publish" => session[c].terms.countries \subseteq LockedEntries
         /\ session[c].op \in {"create", "edit"} => session[c].terms.images \subseteq LockedImages
<1>1. session[c] \in Open
  BY DEF Open
<1>2. session[c].market \in LockedMarkets
  BY <1>1 DEF LockedMarkets
<1>3. session[c].terms.needs \subseteq LockedEntries
  BY <1>1 DEF LockedEntries
<1>4. session[c].op = "publish" => session[c].terms.countries \subseteq LockedEntries
  BY <1>1 DEF LockedEntries
<1>5. session[c].op \in {"create", "edit"} => session[c].terms.images \subseteq LockedImages
  BY <1>1 DEF LockedImages
<1>6. QED  BY <1>2, <1>3, <1>4, <1>5

\* A transaction has the fields of its record, a row of a market too, and neither is None.
LEMMA Records ==
  /\ \A x \in Transaction : /\ x # None /\ x.market \in Markets /\ x.terms \in Terms
                            /\ x.by \in Accounts /\ x.proposal \in Proposals \union {None}
                            /\ x.op \in {"create", "edit", "submit", "publish"}
  /\ \A row \in Market : /\ row # None /\ row.terms \in Terms /\ row.version \in Nat
                         /\ row.creator \in Accounts /\ row.source \in Proposals \union {None}
                         /\ row.state \in {"draft", "rejected", "review", "scheduled"}
  /\ \A row \in Proposal : row # None /\ row.proposer \in Accounts /\ row.terms \in Terms
  /\ \A r \in Review : /\ r.market \in Markets /\ r.version \in Nat /\ r.type \in ReviewTypes
                       /\ r.reviewer \in Accounts /\ r.decision \in {"approved", "rejected"}
BY NoneAssumption DEF Transaction, Market, Proposal, Review

(***************************************************************************)
(* The invariant holds at the start, and every step keeps it.              *)
(***************************************************************************)
LEMMA InitInv == Init => GovernanceInv
<1> SUFFICES ASSUME Init PROVE GovernanceInv
  OBVIOUS
<1>1. TypeOK
  BY DEF Init, TypeOK
<1>2. Fresh /\ Reviewed /\ Locked /\ Approvals /\ ImagesKept
  BY DEF Init, Fresh, Reviewed, Locked, Approvals, ImagesKept
<1>3. QED  BY <1>1, <1>2 DEF GovernanceInv

\* A transaction begins: only its own session changes.
LEMMA BeginInv ==
  ASSUME GovernanceInv, NEW c \in Connections, NEW a \in Accounts, NEW m \in Markets,
         NEW t \in Terms, NEW p \in Proposals \union {None}, NEW op,
         op \in {"create", "edit", "submit", "publish"}, Begin(c, op, a, m, t, p),
         Held([op |-> op, by |-> a, market |-> m, terms |-> t, proposal |-> p])
  PROVE  GovernanceInv'
<1> DEFINE x == [op |-> op, by |-> a, market |-> m, terms |-> t, proposal |-> p]
<1>1. x \in Transaction /\ x # None /\ session' = [session EXCEPT ![c] = x]
      /\ UNCHANGED <<markets, proposals, reviews, media, registry, clock>>
  BY NoneAssumption DEF Begin, Transaction
<1>2. TypeOK'
  BY <1>1 DEF GovernanceInv, TypeOK
<1>3. Fresh' /\ Reviewed' /\ Approvals' /\ ImagesKept'
  BY <1>1 DEF GovernanceInv, Fresh, Reviewed, Approvals, ImagesKept, Current, ApprovedTypes,
              independent, assertOutcomeMedia
<1>4. \A y : Held(y) => Held(y)'
  BY <1>1 DEF Held, ApprovedTypes, assertOutcomeMedia
<1>5. \A d \in Connections : session'[d] = IF d = c THEN x ELSE session[d]
  BY <1>1 DEF GovernanceInv, TypeOK
<1>6. \A d \in Connections : session[d] # None => session[d].market # m
  BY Covered DEF Begin
<1>7. Locked'
  <2> SUFFICES ASSUME NEW d \in Connections, session'[d] # None
               PROVE  /\ Held(session[d])'
                      /\ \A e \in Connections :
                           session'[e] # None /\ session'[e].market = session'[d].market => e = d
    BY DEF Locked
  <2>1. PICK y : y = session'[d] /\ Held(y)
    BY <1>5 DEF GovernanceInv, Locked
  <2>2. Held(session[d])'
    BY <1>4, <2>1
  <2>3. ASSUME NEW e \in Connections, session'[e] # None, session'[e].market = session'[d].market
        PROVE  e = d
    BY <1>5, <1>6, <2>3 DEF GovernanceInv, Locked
  <2>4. QED  BY <2>2, <2>3
<1>8. QED  BY <1>2, <1>3, <1>7 DEF GovernanceInv

\* A transaction ends: its own row is written, or none, and every other
\* transaction, being about another market, still holds what it checked.
LEMMA EndLocked ==
  ASSUME GovernanceInv, NEW c \in Connections, session[c] # None,
         session' = [session EXCEPT ![c] = None],
         UNCHANGED <<reviews, media, registry>>,
         \A m \in Markets : m # session[c].market => markets'[m] = markets[m]
  PROVE  Locked'
<1>1. \A d \in Connections : session'[d] = IF d = c THEN None ELSE session[d]
  BY DEF GovernanceInv, TypeOK
<1>2. \A d \in Connections : session[d] # None => session[d] \in Transaction
  BY DEF GovernanceInv, TypeOK
<1> SUFFICES ASSUME NEW d \in Connections, session'[d] # None
             PROVE  /\ Held(session[d])'
                    /\ \A e \in Connections :
                         session'[e] # None /\ session'[e].market = session'[d].market => e = d
  BY DEF Locked
<1>3. PICK y : y = session[d]
  OBVIOUS
<1>4. y = session'[d] /\ d # c /\ y \in Transaction /\ Held(y) /\ y.market # session[c].market
  BY <1>1, <1>2, <1>3 DEF GovernanceInv, Locked
<1>5. markets'[y.market] = markets[y.market]
  BY <1>4, Records
<1>6. Held(y)'
  BY <1>4, <1>5 DEF Held, ApprovedTypes, assertOutcomeMedia
<1>7. \A e \in Connections : session'[e] # None /\ session'[e].market = session'[d].market => e = d
  BY <1>1, <1>4 DEF GovernanceInv, Locked
<1>8. QED  BY <1>4, <1>6, <1>7

\* What independence says of a row whose proposal is known is about the proposer,
\* who never changes.
LEMMA IndependenceStays ==
  ASSUME NEW a, NEW row, row.source # None => proposals[row.source] # None,
         row.source # None => row.source \in Proposals,
         \A p \in Proposals : proposals[p] # None =>
           proposals'[p] # None /\ proposals'[p].proposer = proposals[p].proposer,
         independent(a, row)
  PROVE  independent(a, row)'
BY DEF independent

\* createDraft: a new market, which no review is about yet.
LEMMA CreateInv ==
  ASSUME GovernanceInv, NEW c \in Connections, session[c] # None, finishCreate(session[c]),
         session' = [session EXCEPT ![c] = None],
         UNCHANGED <<reviews, media, registry, clock, scope>>
  PROVE  GovernanceInv'
<1> DEFINE x == session[c]
           row == [creator |-> x.by, source |-> x.proposal, state |-> "draft",
                   version |-> 1, terms |-> x.terms]
<1>1. x \in Transaction
  BY DEF GovernanceInv, TypeOK
<1>2. row \in Market /\ row # None
  BY <1>1, Records DEF Market
<1>3. Held(x) /\ markets[x.market] = None /\ assertOutcomeMedia(x.by, x.terms)
  BY DEF GovernanceInv, Locked, Held, finishCreate
<1>4. /\ \A m \in Markets : markets'[m] = IF m = x.market THEN row ELSE markets[m]
      /\ markets' \in [Markets -> Market \union {None}]
  BY <1>1, <1>2, Records DEF GovernanceInv, TypeOK, finishCreate
<1>5. /\ x.proposal # None => x.proposal \in Proposals /\ proposals[x.proposal] # None
      /\ proposals' \in [Proposals -> Proposal \union {None}]
      /\ \A p \in Proposals : proposals[p] # None =>
           proposals'[p] # None /\ proposals'[p].proposer = proposals[p].proposer
  BY <1>1, Records DEF GovernanceInv, TypeOK, finishCreate, Adoptable, Proposal
<1>6. TypeOK'
  BY <1>4, <1>5 DEF GovernanceInv, TypeOK
<1>7. \A r \in reviews : r.market \in Markets /\ r.market # x.market
  BY <1>3, Records DEF GovernanceInv, TypeOK, Fresh
<1>8. Fresh'
  BY <1>4, <1>7 DEF GovernanceInv, Fresh
<1>9. Reviewed'
  <2> SUFFICES ASSUME NEW m \in Markets, markets'[m] # None
               PROVE  /\ markets'[m].source # None => proposals'[markets'[m].source] # None
                      /\ markets'[m].state = "draft" => Current(m)' = {}
                      /\ \A r \in Current(m)' :
                           /\ r.terms = markets'[m].terms /\ independent(r.reviewer, markets[m])'
                           /\ r.decision = "approved" \/ markets'[m].state = "rejected"
                           /\ \A s \in Current(m)' : r # s => r.type # s.type /\ r.reviewer # s.reviewer
    BY DEF Reviewed
  <2>1. CASE m = x.market
    BY <1>4, <1>5, <1>7, <2>1 DEF Current
  <2>2. CASE m # x.market
    <3>1. PICK old : old = markets[m] /\ old = markets'[m] /\ old \in Market
      BY <1>4, <2>2 DEF GovernanceInv, TypeOK
    <3>2. Current(m)' = Current(m)
      BY <3>1 DEF Current
    <3>3. old.source # None => old.source \in Proposals /\ proposals[old.source] # None
      BY <3>1, Records DEF GovernanceInv, Reviewed
    <3>4. ASSUME NEW r \in Current(m) PROVE independent(r.reviewer, old)'
      <4>1. independent(r.reviewer, old)
        BY <3>1, Records DEF GovernanceInv, Reviewed
      <4>2. QED  BY <1>5, <3>3, <4>1, IndependenceStays
    <3>5. \A r \in Current(m) : independent(r.reviewer, markets[m])'
      BY <3>1, <3>4 DEF independent
    <3>6. /\ old.state = "draft" => Current(m) = {}
          /\ \A r \in Current(m) :
               /\ r.terms = old.terms
               /\ r.decision = "approved" \/ old.state = "rejected"
               /\ \A s \in Current(m) : r # s => r.type # s.type /\ r.reviewer # s.reviewer
      BY <3>1, Records DEF GovernanceInv, Reviewed
    <3>7. old.source # None => proposals'[old.source] # None
      BY <1>5, <3>3
    <3>8. QED  BY <3>1, <3>2, <3>5, <3>6, <3>7
  <2>3. QED  BY <2>1, <2>2
<1>10. Locked'
  BY <1>4, EndLocked DEF GovernanceInv
<1>11. Approvals'
  BY <1>2, <1>4 DEF GovernanceInv, Approvals, ApprovedTypes
<1>12. ImagesKept'
  BY <1>3, <1>4 DEF GovernanceInv, ImagesKept, assertOutcomeMedia
<1>13. QED  BY <1>6, <1>8, <1>9, <1>10, <1>11, <1>12 DEF GovernanceInv

\* The fields of a row after a change of state.
LEMMA AdvancedRow ==
  ASSUME NEW old \in Market, NEW state \in {"draft", "rejected", "review", "scheduled"},
         NEW row, row = [old EXCEPT !.state = state]
  PROVE  /\ row \in Market /\ row # None /\ row.state = state /\ row.version = old.version
         /\ row.terms = old.terms /\ row.creator = old.creator /\ row.source = old.source
<1>1. row \in Market
  BY DEF Market
<1>2. row.state = state /\ row.version = old.version /\ row.terms = old.terms
  BY DEF Market
<1>3. row.creator = old.creator /\ row.source = old.source
  BY DEF Market
<1>4. QED  BY <1>1, <1>2, <1>3, Records

\* editDraft: a new version, which no review is about yet, with images of its creator.
LEMMA EditInv ==
  ASSUME GovernanceInv, NEW c \in Connections, session[c] # None, finishEdit(session[c]),
         session' = [session EXCEPT ![c] = None],
         UNCHANGED <<reviews, media, registry, clock, scope>>
  PROVE  GovernanceInv'
<1> PICK x, old : x = session[c] /\ old = markets[x.market]
  OBVIOUS
<1>1. /\ x \in Transaction /\ x.market \in Markets /\ x.terms \in Terms
      /\ Held(x) /\ old # None /\ old.creator = x.by /\ assertOutcomeMedia(x.by, x.terms)
  BY Records DEF GovernanceInv, TypeOK, Locked, Held, finishEdit
<1>2. old \in Market
  BY <1>1 DEF GovernanceInv, TypeOK
<1> PICK row : row = markets'[x.market]
  OBVIOUS
<1>3. /\ markets' = [markets EXCEPT ![x.market] = row]
      /\ row \in Market /\ row # None /\ row.state = "draft" /\ row.version = old.version + 1
      /\ row.terms = x.terms /\ row.creator = old.creator /\ row.source = old.source
  <2>1. markets' = [markets EXCEPT ![x.market] =
          [@ EXCEPT !.terms = x.terms, !.version = markets[x.market].version + 1, !.state = "draft"]]
    BY DEF finishEdit
  <2>2. row = [old EXCEPT !.terms = x.terms, !.version = old.version + 1, !.state = "draft"]
    BY <1>1, <2>1 DEF GovernanceInv, TypeOK
  <2>3. markets' = [markets EXCEPT ![x.market] = row]
    BY <1>1, <2>1 DEF GovernanceInv, TypeOK
  <2>4. x.terms \in Terms /\ old.version + 1 \in Nat
    BY <1>1, <1>2, Records
  <2>5. /\ row \in Market /\ row # None /\ row.state = "draft" /\ row.version = old.version + 1
        /\ row.terms = x.terms /\ row.creator = old.creator /\ row.source = old.source
    <3>1. row \in Market
      BY <1>2, <2>2, <2>4, Zenon DEF Market
    <3>2. row.state = "draft" /\ row.version = old.version + 1 /\ row.terms = x.terms
      BY <1>2, <2>2 DEF Market
    <3>3. row.creator = old.creator /\ row.source = old.source
      BY <1>2, <2>2 DEF Market
    <3>4. QED  BY <3>1, <3>2, <3>3, Records
  <2>6. QED  BY <2>3, <2>5
<1>4. /\ \A m \in Markets : markets'[m] = IF m = x.market THEN row ELSE markets[m]
      /\ markets' \in [Markets -> Market \union {None}] /\ proposals' = proposals
  BY <1>1, <1>3, Records DEF GovernanceInv, TypeOK, finishEdit
<1>5. TypeOK'
  BY <1>4 DEF GovernanceInv, TypeOK
<1>6. old.version \in Nat /\ \A r \in reviews :
        r.market \in Markets /\ r.version \in Nat /\ (r.market = x.market => r.version <= old.version)
  BY <1>2, Records DEF GovernanceInv, TypeOK, Fresh
<1>7. Fresh'
  BY <1>3, <1>4, <1>6 DEF GovernanceInv, Fresh
<1>8. Current(x.market)' = {}
  <2>1. markets'[x.market].version = old.version + 1 /\ reviews' = reviews
    BY <1>1, <1>3, <1>4
  <2>2. \A r \in reviews : ~ (r.market = x.market /\ r.version = old.version + 1)
    BY <1>6
  <2>3. QED  BY <2>1, <2>2 DEF Current
<1>9. \A m \in Markets : m # x.market => Current(m)' = Current(m)
  BY <1>4 DEF Current
<1>10. Reviewed'
  <2> SUFFICES ASSUME NEW m \in Markets, markets'[m] # None
               PROVE  /\ markets'[m].source # None => proposals'[markets'[m].source] # None
                      /\ markets'[m].state = "draft" => Current(m)' = {}
                      /\ \A r \in Current(m)' :
                           /\ r.terms = markets'[m].terms /\ independent(r.reviewer, markets[m])'
                           /\ r.decision = "approved" \/ markets'[m].state = "rejected"
                           /\ \A s \in Current(m)' : r # s => r.type # s.type /\ r.reviewer # s.reviewer
    BY DEF Reviewed
  <2>1. CASE m = x.market
    BY <1>1, <1>3, <1>4, <1>8, <2>1 DEF GovernanceInv, Reviewed
  <2>2. CASE m # x.market
    BY <1>4, <1>9, <2>2 DEF GovernanceInv, Reviewed, independent
  <2>3. QED  BY <2>1, <2>2
<1>11. Locked'
  BY <1>4, EndLocked DEF GovernanceInv, finishEdit
<1>12. Approvals'
  BY <1>3, <1>4 DEF GovernanceInv, Approvals, ApprovedTypes
<1>13. ImagesKept'
  BY <1>1, <1>3, <1>4 DEF GovernanceInv, ImagesKept, assertOutcomeMedia
<1>14. QED  BY <1>5, <1>7, <1>10, <1>11, <1>12, <1>13 DEF GovernanceInv

\* A market moves on to review, or to publication once its four parts are approved.
LEMMA AdvanceInv ==
  ASSUME GovernanceInv, NEW c \in Connections, session[c] # None,
         finishSubmit(session[c]) \/ finishPublish(session[c]),
         session' = [session EXCEPT ![c] = None],
         UNCHANGED <<reviews, media, registry, clock, scope>>
  PROVE  GovernanceInv'
<1> PICK x, old : x = session[c] /\ old = markets[x.market]
  OBVIOUS
<1>1. PICK state \in {"review", "scheduled"} :
        markets' = [markets EXCEPT ![x.market].state = state] /\ proposals' = proposals
  BY DEF finishSubmit, finishPublish
<1>2. /\ x \in Transaction /\ old # None
      /\ old.state \in {"draft", "review"}
      /\ markets' = [markets EXCEPT ![x.market].state = "scheduled"] => ApprovedTypes(x.market) = ReviewTypes
  <2>1. x \in Transaction /\ Held(x)
    BY DEF GovernanceInv, TypeOK, Locked
  <2>2. old # None /\ old.state \in {"draft", "review"}
    BY <2>1 DEF Held, finishSubmit, finishPublish
  <2>3. CASE finishPublish(x)
    BY <2>1, <2>2, <2>3 DEF Held, finishPublish
  <2>4. CASE finishSubmit(x)
    <3>1. old \in Market /\ x.market \in Markets
      BY <2>1, <2>2, Records DEF GovernanceInv, TypeOK
    <3>2. markets'[x.market].state = "review"
      BY <2>4, <3>1 DEF finishSubmit, GovernanceInv, TypeOK, Market
    <3>3. markets' # [markets EXCEPT ![x.market].state = "scheduled"]
      BY <3>1, <3>2 DEF GovernanceInv, TypeOK, Market
    <3>4. QED  BY <2>1, <2>2, <3>3
  <2>5. QED  BY <2>3, <2>4
<1>3. old \in Market
  BY <1>2, Records DEF GovernanceInv, TypeOK
<1> PICK row : row = [old EXCEPT !.state = state]
  OBVIOUS
<1>4. /\ markets' = [markets EXCEPT ![x.market] = row]
      /\ row \in Market /\ row # None /\ row.state = state /\ row.version = old.version
      /\ row.terms = old.terms /\ row.creator = old.creator /\ row.source = old.source
  <2>1. markets' = [markets EXCEPT ![x.market] = row]
    BY <1>1
  <2>2. QED  BY <1>3, <2>1, AdvancedRow
<1>5. /\ \A m \in Markets : markets'[m] = IF m = x.market THEN row ELSE markets[m]
      /\ markets' \in [Markets -> Market \union {None}]
  BY <1>1, <1>2, <1>4, Records DEF GovernanceInv, TypeOK
<1>6. TypeOK'
  BY <1>1, <1>5 DEF GovernanceInv, TypeOK
<1>7. Fresh'
  BY <1>4, <1>5, Records DEF GovernanceInv, Fresh, TypeOK
<1>8. \A m \in Markets : Current(m)' = Current(m) /\ ApprovedTypes(m)' = ApprovedTypes(m)
  BY <1>4, <1>5 DEF Current, ApprovedTypes
<1>9. Reviewed'
  <2> SUFFICES ASSUME NEW m \in Markets, markets'[m] # None
               PROVE  /\ markets'[m].source # None => proposals'[markets'[m].source] # None
                      /\ markets'[m].state = "draft" => Current(m)' = {}
                      /\ \A r \in Current(m)' :
                           /\ r.terms = markets'[m].terms /\ independent(r.reviewer, markets[m])'
                           /\ r.decision = "approved" \/ markets'[m].state = "rejected"
                           /\ \A s \in Current(m)' : r # s => r.type # s.type /\ r.reviewer # s.reviewer
    BY DEF Reviewed
  <2>1. /\ markets[m] # None
        /\ markets'[m].source = markets[m].source /\ markets'[m].terms = markets[m].terms
        /\ markets'[m].creator = markets[m].creator
        /\ markets'[m].state = IF m = x.market THEN state ELSE markets[m].state
    BY <1>2, <1>4, <1>5
  <2>2. \A r \in Current(m) : independent(r.reviewer, markets[m])'
    BY <1>1, <2>1 DEF GovernanceInv, Reviewed, independent
  <2>3. \A r \in Current(m) : r.decision = "approved" \/ markets'[m].state = "rejected"
    BY <1>2, <2>1 DEF GovernanceInv, Reviewed
  <2>4. /\ markets[m].source # None => proposals'[markets[m].source] # None
        /\ markets'[m].state = "draft" => Current(m) = {}
        /\ \A r \in Current(m) :
             /\ r.terms = markets[m].terms
             /\ \A s \in Current(m) : r # s => r.type # s.type /\ r.reviewer # s.reviewer
    BY <1>1, <2>1 DEF GovernanceInv, Reviewed
  <2>5. QED  BY <1>8, <2>1, <2>2, <2>3, <2>4
<1>10. Locked'
  BY <1>5, EndLocked DEF GovernanceInv
<1>11. Approvals'
  <2> SUFFICES ASSUME NEW m \in Markets, markets'[m] # None, markets'[m].state = "scheduled"
               PROVE  ApprovedTypes(m) = ReviewTypes
    BY <1>8 DEF Approvals
  <2>1. CASE m = x.market
    BY <1>1, <1>2, <1>4, <1>5, <2>1
  <2>2. CASE m # x.market
    BY <1>5, <2>2 DEF GovernanceInv, Approvals
  <2>3. QED  BY <2>1, <2>2
<1>12. ImagesKept'
  BY <1>2, <1>4, <1>5 DEF GovernanceInv, ImagesKept, assertOutcomeMedia
<1>13. QED  BY <1>6, <1>7, <1>9, <1>10, <1>11, <1>12 DEF GovernanceInv

\* The transaction gives up.
LEMMA RollbackInv ==
  ASSUME GovernanceInv, NEW c \in Connections, Rollback(c)
  PROVE  GovernanceInv'
<1>1. TypeOK'
  BY DEF GovernanceInv, TypeOK, Rollback
<1>2. Fresh' /\ Reviewed' /\ Approvals' /\ ImagesKept'
  BY DEF GovernanceInv, Fresh, Reviewed, Approvals, ImagesKept, Current, ApprovedTypes,
         independent, assertOutcomeMedia, Rollback
<1>3. Locked'
  BY EndLocked DEF Rollback
<1>4. QED  BY <1>1, <1>2, <1>3 DEF GovernanceInv

\* reviewMarket: one more review of the current version, by an outsider who has
\* not reviewed it, on a part that has no review; a rejection ends the review.
LEMMA ReviewInv ==
  ASSUME GovernanceInv, NEW a \in Accounts, NEW m \in Markets, NEW type \in ReviewTypes,
         NEW decision \in {"approved", "rejected"}, reviewMarket(a, m, type, decision)
  PROVE  GovernanceInv'
<1> PICK old, new : /\ old = markets[m]
                    /\ new = [market |-> m, version |-> old.version, terms |-> old.terms,
                              type |-> type, reviewer |-> a, decision |-> decision]
  OBVIOUS
<1>1. /\ old \in Market /\ old # None /\ old.state = "review" /\ independent(a, old)
      /\ reviews' = reviews \union {new}
      /\ \A r \in Current(m) : r.reviewer # a /\ r.type # type
      /\ UNCHANGED <<proposals, media, registry, clock, session, scope>>
  BY DEF reviewMarket, GovernanceInv, TypeOK, Current
<1>2. new \in Review /\ new.market = m /\ new.version = old.version /\ new.terms = old.terms
      /\ new.type = type /\ new.reviewer = a /\ new.decision = decision
  BY <1>1, Records DEF Review
<1> PICK row : row = markets'[m]
  OBVIOUS
<1>3. /\ row \in Market /\ row # None /\ row.version = old.version /\ row.terms = old.terms
      /\ row.creator = old.creator /\ row.source = old.source
      /\ row.state = IF decision = "rejected" THEN "rejected" ELSE "review"
      /\ markets' = [markets EXCEPT ![m] = row]
  <2>1. CASE decision = "rejected"
    <3>1. row = [old EXCEPT !.state = "rejected"] /\ markets' = [markets EXCEPT ![m] = row]
      BY <2>1 DEF reviewMarket, GovernanceInv, TypeOK
    <3>2. QED  BY <1>1, <2>1, <3>1, AdvancedRow
  <2>2. CASE decision # "rejected"
    BY <1>1, <2>2 DEF reviewMarket, GovernanceInv, TypeOK
  <2>3. QED  BY <2>1, <2>2
<1>4. /\ \A n \in Markets : markets'[n] = IF n = m THEN row ELSE markets[n]
      /\ markets' \in [Markets -> Market \union {None}]
  BY <1>3 DEF GovernanceInv, TypeOK
<1>5. TypeOK'
  BY <1>1, <1>2, <1>4 DEF GovernanceInv, TypeOK
<1>6. \A r \in reviews : r.market \in Markets
  BY Records DEF GovernanceInv, TypeOK
<1>7. Fresh'
  <2> SUFFICES ASSUME NEW r \in reviews'
               PROVE  markets'[r.market] # None /\ r.version <= markets'[r.market].version
    BY DEF Fresh
  <2>1. CASE r = new
    BY <1>1, <1>2, <1>3, <1>4, <2>1, Records
  <2>2. CASE r # new
    BY <1>1, <1>3, <1>4, <1>6, <2>2 DEF GovernanceInv, Fresh
  <2>3. QED  BY <2>1, <2>2
<1>8. /\ Current(m)' = Current(m) \union {new}
      /\ \A n \in Markets : n # m => Current(n)' = Current(n)
  BY <1>1, <1>2, <1>3, <1>4 DEF Current
<1>9. Reviewed'
  <2> SUFFICES ASSUME NEW n \in Markets, markets'[n] # None
               PROVE  /\ markets'[n].source # None => proposals'[markets'[n].source] # None
                      /\ markets'[n].state = "draft" => Current(n)' = {}
                      /\ \A r \in Current(n)' :
                           /\ r.terms = markets'[n].terms /\ independent(r.reviewer, markets[n])'
                           /\ r.decision = "approved" \/ markets'[n].state = "rejected"
                           /\ \A s \in Current(n)' : r # s => r.type # s.type /\ r.reviewer # s.reviewer
    BY DEF Reviewed
  <2>1. CASE n # m
    BY <1>1, <1>4, <1>8, <2>1 DEF GovernanceInv, Reviewed, independent
  <2>2. CASE n = m
    <3>1. /\ old.source # None => proposals'[old.source] # None
          /\ \A r \in Current(m) :
               /\ r.terms = old.terms /\ independent(r.reviewer, old) /\ r.decision = "approved"
               /\ \A s \in Current(m) : r # s => r.type # s.type /\ r.reviewer # s.reviewer
      BY <1>1 DEF GovernanceInv, Reviewed
    <3>2. \A b : independent(b, old) => independent(b, markets[m])'
      BY <1>1, <1>3 DEF independent
    <3>3. ASSUME NEW r \in Current(m) \union {new}
          PROVE  /\ r.terms = row.terms /\ independent(r.reviewer, markets[m])'
                 /\ r.decision = "approved" \/ row.state = "rejected"
                 /\ \A s \in Current(m) \union {new} : r # s => r.type # s.type /\ r.reviewer # s.reviewer
      <4>1. CASE r = new
        BY <1>1, <1>2, <1>3, <3>2, <4>1
      <4>2. CASE r # new
        BY <1>1, <1>2, <1>3, <3>1, <3>2, <4>2
      <4>3. QED  BY <4>1, <4>2
    <3>4. QED  BY <1>3, <1>4, <1>8, <2>2, <3>1, <3>3
  <2>3. QED  BY <2>1, <2>2
<1>10. \A n \in Markets : n # m => markets'[n] = markets[n] /\ ApprovedTypes(n)' = ApprovedTypes(n)
  BY <1>1, <1>2, <1>4 DEF ApprovedTypes
<1>11. Locked'
  <2>1. \A c \in Connections : session[c] # None =>
          session[c] \in Transaction /\ session[c].market \in Markets /\ session[c].market # m
    BY Covered, Records DEF reviewMarket, GovernanceInv, TypeOK
  <2>2. ASSUME NEW x \in Transaction, x.market \in Markets, x.market # m, Held(x) PROVE Held(x)'
    BY <1>1, <1>10, <2>2 DEF Held, assertOutcomeMedia
  <2>3. QED  BY <1>1, <2>1, <2>2 DEF GovernanceInv, Locked
<1>12. Approvals'
  BY <1>3, <1>4, <1>10 DEF GovernanceInv, Approvals
<1>13. ImagesKept'
  BY <1>1, <1>3, <1>4 DEF GovernanceInv, ImagesKept, assertOutcomeMedia
<1>14. QED  BY <1>5, <1>7, <1>9, <1>11, <1>12, <1>13 DEF GovernanceInv

\* A proposal is new, or is decided upon: nobody else becomes its proposer.
LEMMA ProposalInv ==
  ASSUME GovernanceInv, NEW a \in Accounts, NEW p \in Proposals,
         \/ rejectMarketProposal(a, p)
         \/ \E t \in Terms : submitMarketProposal(a, p, t)
  PROVE  GovernanceInv'
<1>1. /\ proposals' \in [Proposals -> Proposal \union {None}]
      /\ \A q \in Proposals : proposals[q] # None =>
           proposals'[q] # None /\ proposals'[q].proposer = proposals[q].proposer
      /\ UNCHANGED <<markets, reviews, media, registry, clock, session, scope>>
  <2>1. CASE rejectMarketProposal(a, p)
    BY <2>1, Records DEF rejectMarketProposal, GovernanceInv, TypeOK, Proposal
  <2>2. CASE \E t \in Terms : submitMarketProposal(a, p, t)
    BY <2>2, Records DEF submitMarketProposal, GovernanceInv, TypeOK, Proposal
  <2>3. QED  BY <2>1, <2>2
<1>2. TypeOK'
  BY <1>1 DEF GovernanceInv, TypeOK
<1>3. Fresh' /\ Locked' /\ Approvals' /\ ImagesKept'
  BY <1>1 DEF GovernanceInv, Fresh, Locked, Held, Approvals, ImagesKept, ApprovedTypes,
              assertOutcomeMedia
<1>4. \A m \in Markets : markets[m] # None =>
        (markets[m].source # None => markets[m].source \in Proposals /\ proposals[markets[m].source] # None)
  BY Records DEF GovernanceInv, TypeOK, Reviewed
<1>5. \A m \in Markets : Current(m)' = Current(m)
  BY <1>1 DEF Current
<1>6. \A m \in Markets : \A r \in Current(m) : markets[m] # None => independent(r.reviewer, markets[m])'
  BY <1>1, <1>4 DEF GovernanceInv, Reviewed, independent
<1>7. Reviewed'
  BY <1>1, <1>4, <1>5, <1>6 DEF GovernanceInv, Reviewed
<1>8. QED  BY <1>2, <1>3, <1>7 DEF GovernanceInv

\* An image is asked for, arrives, or is deleted when nothing refers to it and no
\* transaction is about to.
LEMMA MediaInv ==
  ASSUME GovernanceInv, NEW i \in Images,
         \/ createMarketMediaUpload(i) \/ completeMarketMediaUpload(i)
         \/ deleteMarketMediaUpload(i)
  PROVE  GovernanceInv'
<1>1. /\ media' \in [Images -> MediaStatus \union {None}]
      /\ UNCHANGED <<markets, proposals, reviews, registry, clock, session, scope>>
      /\ \A j \in Images : media[j] = "complete" /\ media'[j] # "complete" => j = i /\ ~ InUse(i)
  BY NoneAssumption DEF createMarketMediaUpload, completeMarketMediaUpload, deleteMarketMediaUpload,
         GovernanceInv, TypeOK, MediaStatus
<1>2. TypeOK'
  BY <1>1 DEF GovernanceInv, TypeOK
<1>3. Fresh' /\ Reviewed' /\ Approvals'
  BY <1>1 DEF GovernanceInv, Fresh, Reviewed, Approvals, Current, ApprovedTypes, independent
<1>4. \A t \in Terms : t.images \subseteq Images
  BY GovernanceAssumption
<1>5. Locked'
  <2> SUFFICES ASSUME NEW c \in Connections, session[c] # None PROVE Held(session[c])'
    BY <1>1 DEF GovernanceInv, Locked
  <2> PICK x : x = session[c]
    OBVIOUS
  <2>1. x \in Transaction /\ Held(x) /\ x.terms \in Terms
    BY Records DEF GovernanceInv, TypeOK, Locked
  <2>2. x.op \in {"create", "edit"} => \A j \in x.terms.images : InUse(j)
    BY Covered DEF InUse
  <2>3. x.op \in {"create", "edit"} => assertOutcomeMedia(x.by, x.terms)'
    BY <1>1, <1>4, <2>1, <2>2 DEF Held, assertOutcomeMedia
  <2>4. Held(x)'
    BY <1>1, <2>1, <2>3 DEF Held, ApprovedTypes
  <2>5. QED  BY <1>1, <2>4
<1>6. ImagesKept'
  <2> SUFFICES ASSUME NEW m \in Markets, markets[m] # None
               PROVE  assertOutcomeMedia(markets[m].creator, markets[m].terms)'
    BY <1>1 DEF ImagesKept
  <2>1. markets[m].terms \in Terms /\ assertOutcomeMedia(markets[m].creator, markets[m].terms)
    BY Records DEF GovernanceInv, TypeOK, ImagesKept
  <2>2. \A j \in markets[m].terms.images : InUse(j)
    BY DEF InUse, UsedOnly
  <2>3. QED  BY <1>1, <1>4, <2>1, <2>2 DEF assertOutcomeMedia
<1>7. QED  BY <1>2, <1>3, <1>5, <1>6 DEF GovernanceInv

\* Operators change an entry that no transaction holds; the clock ticks.
LEMMA OperatorInv ==
  ASSUME GovernanceInv, Tick \/ \E e \in Entries : SetEntry(e)
  PROVE  GovernanceInv'
<1>1. /\ registry' \subseteq Entries /\ clock' \in Nat /\ \A e \in LockedEntries : e \in registry => e \in registry'
      /\ UNCHANGED <<markets, proposals, reviews, media, session, scope>>
  BY DEF Tick, SetEntry, GovernanceInv, TypeOK
<1>2. TypeOK'
  BY <1>1 DEF GovernanceInv, TypeOK
<1>3. Fresh' /\ Reviewed' /\ Approvals' /\ ImagesKept'
  BY <1>1 DEF GovernanceInv, Fresh, Reviewed, Approvals, ImagesKept, Current, ApprovedTypes,
              independent, assertOutcomeMedia
<1>4. Locked'
  <2> SUFFICES ASSUME NEW c \in Connections, session[c] # None PROVE Held(session[c])'
    BY <1>1 DEF GovernanceInv, Locked
  <2> PICK x : x = session[c]
    OBVIOUS
  <2>1. Held(x)
    BY DEF GovernanceInv, Locked
  <2>2. /\ x.terms.needs \subseteq LockedEntries
        /\ x.op = "publish" => x.terms.countries \subseteq LockedEntries
    BY Covered
  <2>3. Held(x)'
    BY <1>1, <2>1, <2>2 DEF Held, ApprovedTypes, assertOutcomeMedia
  <2>4. QED  BY <1>1, <2>3
<1>5. QED  BY <1>2, <1>3, <1>4 DEF GovernanceInv

\* The second step of a transaction keeps the invariant.
LEMMA FinishInv ==
  ASSUME GovernanceInv, NEW c \in Connections, Finish(c)
  PROVE  GovernanceInv'
BY CreateInv, EditInv, AdvanceInv DEF Finish

\* Each handler that begins has checked what its transaction holds.
LEMMA BeginsInv ==
  ASSUME GovernanceInv, NEW c \in Connections, NEW a \in Accounts, NEW m \in Markets,
         \/ \E t \in Terms : \/ beginEdit(c, a, m, t)
                             \/ \E p \in Proposals \union {None} : beginCreate(c, a, m, t, p)
         \/ beginSubmit(c, a, m) \/ beginPublish(c, a, m)
  PROVE  GovernanceInv'
<1> DEFINE tx(op, t, p) == [op |-> op, by |-> a, market |-> m, terms |-> t, proposal |-> p]
<1>1. ASSUME NEW t \in Terms, NEW p \in Proposals \union {None}, beginCreate(c, a, m, t, p)
      PROVE  GovernanceInv'
  <2>1. Held(tx("create", t, p))
    BY <1>1 DEF beginCreate, Begin, Held, Approved
  <2>2. QED  BY <1>1, <2>1, BeginInv DEF beginCreate
<1>2. ASSUME NEW t \in Terms, beginEdit(c, a, m, t)
      PROVE  GovernanceInv'
  <2>1. Held(tx("edit", t, None))
    BY <1>2 DEF beginEdit, Begin, Held, Approved
  <2>2. QED  BY <1>2, <2>1, BeginInv DEF beginEdit
<1>3. CASE beginSubmit(c, a, m)
  <2>1. Held(tx("submit", markets[m].terms, None))
    BY <1>3 DEF beginSubmit, Begin, Held, Approved
  <2>2. markets[m].terms \in Terms
    BY <1>3, Records DEF beginSubmit, GovernanceInv, TypeOK
  <2>3. QED  BY <1>3, <2>1, <2>2, BeginInv DEF beginSubmit
<1>4. CASE beginPublish(c, a, m)
  <2>1. Held(tx("publish", markets[m].terms, None))
    BY <1>4 DEF beginPublish, Begin, Held, Approved
  <2>2. markets[m].terms \in Terms
    BY <1>4, Records DEF beginPublish, GovernanceInv, TypeOK
  <2>3. QED  BY <1>4, <2>1, <2>2, BeginInv DEF beginPublish
<1>5. QED  BY <1>1, <1>2, <1>3, <1>4

\* The invariant is inductive.
LEMMA StepInv == GovernanceInv /\ [Next]_vars => GovernanceInv'
<1> SUFFICES ASSUME GovernanceInv, [Next]_vars PROVE GovernanceInv'
  OBVIOUS
<1>1. ASSUME NEW c \in Connections, Finish(c) \/ Rollback(c) PROVE GovernanceInv'
  BY <1>1, FinishInv, RollbackInv
<1>2. ASSUME NEW c \in Connections, NEW a \in Accounts, NEW m \in Markets,
             \/ \E t \in Terms : \/ beginEdit(c, a, m, t)
                                 \/ \E p \in Proposals \union {None} : beginCreate(c, a, m, t, p)
             \/ beginSubmit(c, a, m) \/ beginPublish(c, a, m)
      PROVE  GovernanceInv'
  BY <1>2, BeginsInv
<1>3. ASSUME NEW a \in Accounts, NEW m \in Markets, NEW type \in ReviewTypes,
             NEW decision \in {"approved", "rejected"}, reviewMarket(a, m, type, decision)
      PROVE  GovernanceInv'
  BY <1>3, ReviewInv
<1>4. ASSUME NEW a \in Accounts, NEW p \in Proposals,
             rejectMarketProposal(a, p) \/ \E t \in Terms : submitMarketProposal(a, p, t)
      PROVE  GovernanceInv'
  BY <1>4, ProposalInv
<1>5. ASSUME NEW i \in Images, \/ createMarketMediaUpload(i) \/ completeMarketMediaUpload(i)
                               \/ deleteMarketMediaUpload(i)
      PROVE  GovernanceInv'
  BY <1>5, MediaInv
<1>6. CASE Tick \/ \E e \in Entries : SetEntry(e)
  BY <1>6, OperatorInv
<1>7. CASE UNCHANGED vars
  BY <1>7 DEF vars, GovernanceInv, TypeOK, Fresh, Reviewed, Locked, Approvals, ImagesKept, Held,
              Current, ApprovedTypes, independent, assertOutcomeMedia
<1>8. QED  BY <1>1, <1>2, <1>3, <1>4, <1>5, <1>6, <1>7 DEF Next

\* The invariant holds.
LEMMA InvHolds == Spec => []GovernanceInv
BY InitInv, StepInv, PTL DEF Spec

(***************************************************************************)
(* The theorems.                                                           *)
(***************************************************************************)
\* What is published was reviewed as it is: under the invariant a scheduled market
\* has four approvals of its current version, of its current terms, by four outsiders.
LEMMA InvReviewed == GovernanceInv => PublishedAsReviewed
<1> SUFFICES ASSUME GovernanceInv, NEW m \in Markets, markets[m] # None,
                    markets[m].state = "scheduled"
             PROVE  /\ {r.type : r \in Current(m)} = ReviewTypes
                    /\ \A r \in Current(m) : /\ r.decision = "approved" /\ r.terms = markets[m].terms
                                             /\ independent(r.reviewer, markets[m])
                    /\ Cardinality({r.reviewer : r \in Current(m)}) = Cardinality(ReviewTypes)
  BY DEF PublishedAsReviewed, Current
<1>1. \A r \in Current(m) :
        /\ r.decision = "approved" /\ r.terms = markets[m].terms /\ r.type \in ReviewTypes
        /\ independent(r.reviewer, markets[m])
        /\ \A s \in Current(m) : r # s => r.type # s.type /\ r.reviewer # s.reviewer
  BY Records DEF GovernanceInv, Reviewed, TypeOK, Current
<1>2. {r.type : r \in Current(m)} = ReviewTypes
  <2>1. ApprovedTypes(m) = ReviewTypes
    BY DEF GovernanceInv, Approvals
  <2>2. ApprovedTypes(m) \subseteq {r.type : r \in Current(m)}
    BY DEF ApprovedTypes, Current
  <2>3. QED  BY <1>1, <2>1, <2>2
<1>3. Cardinality({r.reviewer : r \in Current(m)}) = Cardinality(ReviewTypes)
  <2> DEFINE by(type) == CHOOSE r \in Current(m) : r.type = type
             f == [type \in ReviewTypes |-> by(type).reviewer]
             R == {r.reviewer : r \in Current(m)}
  <2>1. \A type \in ReviewTypes : by(type) \in Current(m) /\ by(type).type = type
    BY <1>2
  <2>2. f \in [ReviewTypes -> R]
    BY <2>1
  <2>3. \A s, t \in ReviewTypes : f[s] = f[t] => s = t
    BY <1>1, <2>1
  <2>4. \A u \in R : \E t \in ReviewTypes : f[t] = u
    BY <1>1, <1>2, <2>1
  <2>5. f \in Bijection(ReviewTypes, R)
    BY <2>2, <2>3, <2>4 DEF Bijection, Injection, Surjection, IsInjective
  <2>6. IsFiniteSet(ReviewTypes)
    <3>1. ReviewTypes = {"product"} \union {"legal"} \union {"integrity"} \union {"resolution"}
      BY DEF ReviewTypes, ReviewRole
    <3>2. \A x : IsFiniteSet({x})
      BY FS_Singleton
    <3>3. QED  BY <3>1, <3>2, FS_Union
  <2>7. QED  BY <2>5, <2>6, FS_Bijection DEF ExistsBijection
<1>4. QED  BY <1>1, <1>2, <1>3

\* A published market was approved as published, by four different outsiders, and
\* nobody rejected that version (reviewMarket, publish, editDraft).
THEOREM AsReviewed == Spec => []PublishedAsReviewed
BY InvHolds, InvReviewed, PTL

\* The images of every market are complete and its creator's, whatever deletes
\* race its drafts (assertOutcomeMedia, deleteMarketMediaUpload).
THEOREM ImagesStay == Spec => []ImagesKept
<1>1. GovernanceInv => ImagesKept
  BY DEF GovernanceInv
<1>2. QED  BY <1>1, InvHolds, PTL

\* A market is published only while its template, sources, policies and countries
\* are approved, although each was read before the last statement (publish).
THEOREM UnderPolicy == Spec => PublishedUnderPolicy
<1> DEFINE Published ==
      \A m \in Markets :
        (markets[m] # None /\ markets[m].state # "scheduled" /\ markets'[m].state = "scheduled")
          => markets[m].terms.needs \union markets[m].terms.countries \subseteq registry
<1>1. GovernanceInv /\ [Next]_vars => Published
  <2> SUFFICES ASSUME GovernanceInv, [Next]_vars, NEW m \in Markets, markets[m] # None,
                      markets[m].state # "scheduled", markets'[m].state = "scheduled"
               PROVE  markets[m].terms.needs \union markets[m].terms.countries \subseteq registry
    OBVIOUS
  <2> PICK old : old = markets[m] /\ old \in Market
    BY DEF GovernanceInv, TypeOK
  <2>1. PICK c \in Connections : Finish(c)
    <3>1. CASE UNCHANGED markets
      BY <3>1
    <3>2. ASSUME NEW a \in Accounts, NEW n \in Markets, NEW type \in ReviewTypes,
                 NEW decision \in {"approved", "rejected"}, reviewMarket(a, n, type, decision)
          PROVE  markets'[m].state # "scheduled"
      <4>1. markets' = markets \/ markets' = [markets EXCEPT ![n].state = "rejected"]
        BY <3>2 DEF reviewMarket
      <4>2. QED  BY <4>1 DEF GovernanceInv, TypeOK, Market
    <3>3. QED  BY <3>1, <3>2 DEF Next, vars, Rollback, beginEdit, beginCreate, beginSubmit,
                 beginPublish, Begin, rejectMarketProposal, submitMarketProposal,
                 createMarketMediaUpload, completeMarketMediaUpload, deleteMarketMediaUpload,
                 SetEntry, Tick
  <2> PICK x : x = session[c]
    OBVIOUS
  <2>2. x \in Transaction /\ x.market \in Markets /\ Held(x)
    BY <2>1, Records DEF Finish, GovernanceInv, TypeOK, Locked
  <2>3. x.op = "publish" /\ x.market = m
    <3>1. CASE finishCreate(x)
      BY <2>2, <3>1 DEF finishCreate, GovernanceInv, TypeOK
    <3>2. CASE finishEdit(x)
      BY <2>2, <3>2 DEF finishEdit, GovernanceInv, TypeOK, Market
    <3>3. CASE finishSubmit(x)
      BY <2>2, <3>3 DEF finishSubmit, GovernanceInv, TypeOK, Market
    <3>4. CASE finishPublish(x)
      BY <2>2, <3>4 DEF finishPublish, GovernanceInv, TypeOK, Market
    <3>5. QED  BY <2>1, <3>1, <3>2, <3>3, <3>4 DEF Finish
  <2>4. QED  BY <2>2, <2>3 DEF Held
<1>2. QED  BY <1>1, InvHolds, PTL DEF Spec, PublishedUnderPolicy
=============================================================================
