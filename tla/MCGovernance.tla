---------------------------- MODULE MCGovernance ----------------------------
EXTENDS Governance

MCRoles ==
  [cy |-> {"market_creator", "market_proposer", "legal_reviewer"},
   ada |-> {"market_approver", "legal_reviewer"},
   ben |-> {"legal_reviewer"},
   chi |-> {"integrity_reviewer"},
   dan |-> {"resolution_reviewer"}]
MCOwner == [i1 |-> "cy"]
MCTerms == {[needs |-> {"tpl"}, countries |-> {"NG"}, images |-> {"i1"}, opens |-> 1],
            [needs |-> {"tpl"}, countries |-> {}, images |-> {}, opens |-> 1]}
\* The reviews of one market; two drafts at a time, of which none is submitted.
MCScopes == {[markets |-> {"m1"}, connections |-> {"k1"}, submits |-> {"m1"}],
             [markets |-> {"m1", "m2"}, connections |-> {"k1", "k2"}, submits |-> {}]}
=============================================================================
