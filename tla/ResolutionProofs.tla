--------------------------- MODULE ResolutionProofs ---------------------------
(***************************************************************************)
(* Proofs about Resolution and about Settlement, which carries its         *)
(* redeemed payouts to the chain.                                          *)
(*                                                                         *)
(* Resolution, for every set of accounts, assets and fills, every panel,   *)
(* window and bond, and every market type and result.                      *)
(*                                                                         *)
(* CaseInv is what the handlers of one case rely on: the panel votes on an *)
(* unchallenged proposal only when nobody may challenge it any more, and   *)
(* never for a challenge that was not made, so that a challenger is never  *)
(* a voter and the result that becomes final was validated.  MoneyInv says *)
(* where the money of the case and of the fills is.                        *)
(*                                                                         *)
(* Settlement, for every set of payouts, batches, recipients and requests, *)
(* every depth of the confirmations above that of the reorganisations, and *)
(* any observers of which fewer than the quorum answer anything.  First,   *)
(* what the manifests promise: a proof built from the items of a batch     *)
(* verifies, and nothing else does.  SettlementInv then says of every      *)
(* block, canonical or not, what its contract holds and has paid, and of   *)
(* what is final that no chain the observers may still meet is without it. *)
(***************************************************************************)
EXTENDS Resolution, Settlement, CommonTheorems

CaseState == {"none", "proposed", "challenged", "finalized"}
Case == [state : CaseState, proposer : Accounts \cup {Null}, proposal : Results \cup {Null},
         challengeDeadline : Nat, timelockUntil : Nat,
         challenger : Accounts \cup {Null}, challenge : Results \cup {Null},
         finalizer : Accounts \cup {Null}, final : Results \cup {Null}]

Valid(r) == r \in Results /\ ValidResult(r)

\* Who has acted in the case.
Actors ==
  /\ resolution.state = "none" => resolution = NoCase /\ Voters = {}
  /\ resolution.state # "none" => resolution.proposer \in Accounts \ {Creator}
  /\ resolution.state \in {"none", "proposed"} => resolution.challenger = Null
  /\ resolution.state = "challenged" => resolution.challenger \in Accounts
  /\ resolution.challenger \notin {Creator, resolution.proposer} \/ resolution.state = "none"
  /\ resolution.state # "finalized" => resolution.finalizer = Null
  /\ resolution.state = "finalized" =>
       resolution.finalizer \in Accounts \ (Parties \cup Voters)
  /\ Voters \subseteq Reviewers /\ Voters \cap Parties = {}

\* What they may have decided.
Decisions ==
  /\ resolution.state # "none" => Valid(resolution.proposal)
  /\ resolution.challenger # Null => Valid(resolution.challenge)
  /\ resolution.state = "finalized" => Valid(resolution.final)
  /\ resolution.state = "proposed" /\ Voters # {} => resolution.challengeDeadline <= now
  /\ resolution.state = "proposed" => \A u \in Voters : ballots[u] # "challenge"

CaseInv ==
  /\ marketType \in MarketTypes /\ now \in Nat
  /\ resolution \in Case
  /\ Actors /\ Decisions

\* The record of a case with one of its fields set.
LEMMA CaseFields ==
  ASSUME resolution \in Case
  PROVE  /\ resolution.state \in CaseState
         /\ resolution.proposer \in Accounts \cup {Null}
         /\ resolution.challenger \in Accounts \cup {Null}
         /\ resolution.finalizer \in Accounts \cup {Null}
         /\ resolution.challengeDeadline \in Nat
BY DEF Case

\* The invariant of the case holds at the start.
LEMMA CaseInit == Init => CaseInv
<1> SUFFICES ASSUME Init PROVE CaseInv
  OBVIOUS
<1>1. marketType \in MarketTypes /\ now = 0 /\ resolution = NoCase /\ ballots = <<>>
  BY DEF Init
<1>2. Voters = {}
  BY <1>1 DEF Voters
<1>3. NoCase \in Case
  BY DEF NoCase, Case, CaseState
<1>4. Actors
  BY <1>1, <1>2 DEF Actors, NoCase
<1>5. Decisions
  BY <1>1, <1>2 DEF Decisions, NoCase
<1>6. QED  BY <1>1, <1>3, <1>4, <1>5 DEF CaseInv

\* The steps that leave the case alone.
LEMMA CaseKept ==
  ASSUME CaseInv, marketType' = marketType, now' \in Nat, now <= now',
         UNCHANGED <<resolution, ballots>>
  PROVE  CaseInv'
<1>1. Voters' = Voters /\ Parties' = Parties
  BY DEF Voters, Parties
<1>2. \A r : Valid(r)' = Valid(r)
  BY DEF Valid, ValidResult
<1>3. Actors'
  BY <1>1 DEF CaseInv, Actors
<1>4. resolution.challengeDeadline \in Nat /\ now \in Nat
  BY CaseFields DEF CaseInv
<1>5. Decisions'
  BY <1>1, <1>2, <1>4 DEF CaseInv, Decisions
<1>6. QED  BY <1>3, <1>5 DEF CaseInv

\* A proposal keeps it.
LEMMA CaseProposed ==
  ASSUME CaseInv, NEW u \in Accounts, NEW r \in Results, ProposeResolution(u, r)
  PROVE  CaseInv'
<1>1. /\ u # Creator /\ ValidResult(r) /\ resolution = NoCase
      /\ marketType' = marketType /\ now' = now /\ ballots' = ballots
      /\ resolution' = [NoCase EXCEPT !.state = "proposed", !.proposer = u, !.proposal = r,
           !.challengeDeadline = now + ChallengeWindow,
           !.timelockUntil = now + ChallengeWindow + Timelock]
  BY DEF ProposeResolution, trading
<1>2. resolution.state = "none"
  BY <1>1 DEF NoCase
<1>3. Voters = {} /\ now \in Nat /\ ChallengeWindow \in Nat /\ Timelock \in Nat
  BY <1>2, TermsAssumption DEF CaseInv, Actors
<1>4. /\ resolution'.state = "proposed" /\ resolution'.proposer = u /\ resolution'.proposal = r
      /\ resolution'.challenger = Null /\ resolution'.finalizer = Null
  BY <1>1 DEF NoCase
<1>5. resolution' \in Case
  <2>1. now + ChallengeWindow \in Nat /\ now + ChallengeWindow + Timelock \in Nat
    BY <1>3
  <2>2. "proposed" \in CaseState /\ r \in Results \cup {Null} /\ u \in Accounts \cup {Null}
    BY DEF CaseState
  <2>3. NoCase \in Case
    BY DEF NoCase, Case, CaseState
  <2>4. QED  BY <1>1, <2>1, <2>2, <2>3 DEF Case
<1>6. Voters' = {} /\ Parties' = {Creator, u, Null}
  BY <1>1, <1>3, <1>4 DEF Voters, Parties
<1>7. Valid(r)'
  BY <1>1 DEF Valid, ValidResult
<1>8. Null \notin Accounts /\ Creator \in Accounts
  BY AccountsAssumption
<1>9. Actors'
  BY <1>1, <1>4, <1>6, <1>8 DEF Actors
<1>10. Decisions'
  BY <1>4, <1>6, <1>7 DEF Decisions
<1>11. QED  BY <1>1, <1>3, <1>5, <1>9, <1>10 DEF CaseInv

\* A challenge keeps it.
LEMMA CaseChallenged ==
  ASSUME CaseInv, NEW u \in Accounts, NEW r \in Results, ChallengeResolution(u, r)
  PROVE  CaseInv'
<1>1. /\ u \notin {resolution.proposer, Creator} /\ ValidResult(r)
      /\ resolution.state = "proposed" /\ now < resolution.challengeDeadline
      /\ marketType' = marketType /\ now' = now /\ ballots' = ballots
      /\ resolution' = [resolution EXCEPT !.state = "challenged", !.challenger = u, !.challenge = r]
  BY DEF ChallengeResolution, trading
<1>2. /\ resolution'.state = "challenged" /\ resolution'.challenger = u /\ resolution'.challenge = r
      /\ resolution'.proposer = resolution.proposer /\ resolution'.proposal = resolution.proposal
      /\ resolution'.finalizer = resolution.finalizer
  BY <1>1 DEF CaseInv, Case
<1>3. resolution' \in Case
  BY <1>1 DEF CaseInv, Case, CaseState
\* Nobody has voted: the window in which one may challenge is still open.
<1>4. Voters = {}
  <2>1. resolution.challengeDeadline \in Nat /\ now \in Nat
    BY CaseFields DEF CaseInv
  <2>2. QED  BY <1>1, <2>1 DEF CaseInv, Decisions
<1>5. Voters' = {} /\ Parties' = {Creator, resolution.proposer, u}
  BY <1>1, <1>2, <1>4 DEF Voters, Parties
<1>6. Valid(r)' /\ Valid(resolution.proposal)'
  <2>1. Valid(r) /\ Valid(resolution.proposal)
    BY <1>1 DEF CaseInv, Decisions, Valid
  <2>2. QED  BY <1>1, <1>2, <2>1 DEF Valid, ValidResult
<1>7. Actors'
  BY <1>1, <1>2, <1>5 DEF CaseInv, Actors
<1>8. Decisions'
  BY <1>2, <1>5, <1>6 DEF Decisions
<1>9. QED  BY <1>1, <1>3, <1>7, <1>8 DEF CaseInv

\* A ballot keeps it.
LEMMA CaseVoted ==
  ASSUME CaseInv, NEW u \in Accounts, NEW d, BallotResolution(u, d)
  PROVE  CaseInv'
<1>1. /\ u \in Reviewers /\ u \notin Parties
      /\ resolution.state \in {"proposed", "challenged"}
      /\ d \in {"proposal", "recuse"} \/ (d = "challenge" /\ resolution.state = "challenged")
      /\ resolution.state = "challenged" \/ now >= resolution.challengeDeadline
      /\ ballots' = [v \in Voters \cup {u} |-> IF v = u THEN d ELSE ballots[v]]
      /\ marketType' = marketType /\ now' = now /\ resolution' = resolution
  BY DEF BallotResolution, trading
<1>2. Voters' = Voters \cup {u} /\ Parties' = Parties
  BY <1>1 DEF Voters, Parties
<1>3. \A r : Valid(r)' = Valid(r)
  BY <1>1 DEF Valid, ValidResult
<1>4. Actors'
  BY <1>1, <1>2 DEF CaseInv, Actors
<1>5. resolution.challengeDeadline \in Nat /\ now \in Nat
  BY CaseFields DEF CaseInv
<1>6. resolution.state = "proposed" => \A v \in Voters' : ballots'[v] # "challenge"
  BY <1>1, <1>2 DEF CaseInv, Decisions
<1>7. Decisions'
  BY <1>1, <1>3, <1>5, <1>6 DEF CaseInv, Decisions
<1>8. QED  BY <1>1, <1>4, <1>7 DEF CaseInv

\* The candidate that reaches the threshold was made, and was validated.
LEMMA CaseFinalized ==
  ASSUME CaseInv, NEW u \in Accounts, FinalizeResolution(u)
  PROVE  CaseInv'
<1> DEFINE winner == IF Votes("proposal") >= Threshold THEN resolution.proposal
                     ELSE resolution.challenge
<1>1. /\ u \notin Parties /\ u \notin Voters
      /\ resolution.state \in {"proposed", "challenged"}
      /\ (Votes("proposal") >= Threshold) # (Votes("challenge") >= Threshold)
      /\ resolution' = [resolution EXCEPT !.state = "finalized", !.finalizer = u, !.final = winner]
      /\ marketType' = marketType /\ now' = now /\ ballots' = ballots
  BY DEF FinalizeResolution, trading
<1>2. Valid(winner)
  <2>1. CASE Votes("proposal") >= Threshold
    BY <1>1, <2>1 DEF CaseInv, Decisions
  <2>2. CASE ~ Votes("proposal") >= Threshold
    <3>1. Votes("challenge") >= Threshold
      BY <1>1, <2>2
    <3>2. resolution.state # "proposed"
      <4>1. SUFFICES ASSUME resolution.state = "proposed" PROVE FALSE
        OBVIOUS
      <4>2. {v \in Voters : ballots[v] = "challenge"} = {}
        BY <4>1 DEF CaseInv, Decisions
      <4>3. Votes("challenge") = 0
        BY <4>2, FS_EmptySet DEF Votes
      <4>4. QED  BY <3>1, <4>3, TermsAssumption
    <3>3. resolution.challenger # Null
      BY <1>1, <3>2, AccountsAssumption DEF CaseInv, Actors
    <3>4. QED  BY <2>2, <3>3 DEF CaseInv, Decisions
  <2>3. QED  BY <2>1, <2>2
<1> HIDE DEF winner
<1>3. /\ resolution'.state = "finalized" /\ resolution'.final = winner /\ resolution'.finalizer = u
      /\ resolution'.proposer = resolution.proposer /\ resolution'.proposal = resolution.proposal
      /\ resolution'.challenger = resolution.challenger
      /\ resolution'.challenge = resolution.challenge
  BY <1>1 DEF CaseInv, Case
<1>4. winner \in Results
  BY <1>2 DEF Valid
<1>5. resolution' \in Case
  BY <1>1, <1>4 DEF CaseInv, Case, CaseState
<1>6. Voters' = Voters /\ Parties' = Parties
  BY <1>1, <1>3 DEF Voters, Parties
<1>7. \A r : Valid(r)' = Valid(r)
  BY <1>1 DEF Valid, ValidResult
<1>8. Actors'
  BY <1>1, <1>3, <1>6 DEF CaseInv, Actors
<1>9. Decisions'
  BY <1>1, <1>2, <1>3, <1>7 DEF CaseInv, Decisions
<1>10. QED  BY <1>1, <1>5, <1>8, <1>9 DEF CaseInv

\* Every step is one of these, or leaves the case alone.
LEMMA CaseStep ==
  ASSUME CaseInv, [Next]_vars
  PROVE  CaseInv'
<1>1. CASE Tick
  <2>1. now' = now + 1 /\ now \in Nat /\ marketType' = marketType /\ UNCHANGED <<resolution, ballots>>
    BY <1>1 DEF Tick, panel, CaseInv
  <2>2. now' \in Nat /\ now <= now'
    BY <2>1
  <2>3. QED  BY <2>1, <2>2, CaseKept
<1>2. CASE \/ \E a \in Assets : SubmitOrder(a) \/ HaltBook(a)
           \/ \E f \in FillIds : MatchOrder(f)
           \/ \E u \in Accounts : ArchiveEvidence(u)
           \/ CloseBook \/ RedeemFills \/ UNCHANGED vars
  <2>1. UNCHANGED <<marketType, now, resolution, ballots>>
    BY <1>2 DEF SubmitOrder, HaltBook, MatchOrder, ArchiveEvidence, CloseBook, RedeemFills,
                vars, panel
  <2>2. now \in Nat /\ now <= now
    BY DEF CaseInv
  <2>3. QED  BY <2>1, <2>2, CaseKept
<1>3. CASE \E u \in Accounts, r \in Results : ProposeResolution(u, r)
  BY <1>3, CaseProposed
<1>4. CASE \E u \in Accounts, r \in Results : ChallengeResolution(u, r)
  BY <1>4, CaseChallenged
<1>5. CASE \E u \in Accounts, d \in {"proposal", "challenge", "recuse"} : BallotResolution(u, d)
  BY <1>5, CaseVoted
<1>6. CASE \E u \in Accounts : FinalizeResolution(u)
  BY <1>6, CaseFinalized
<1>7. QED  BY <1>1, <1>2, <1>3, <1>4, <1>5, <1>6 DEF Next

\* The invariant of the case holds.
LEMMA CaseHolds == Spec => []CaseInv
<1>1. CaseInv /\ [Next]_vars => CaseInv'
  BY CaseStep
<1>2. QED  BY <1>1, CaseInit, PTL DEF Spec

\* Nobody acts twice in one case, in whatever order challenges, ballots and the
\* clock come: once somebody has voted on a proposal, nobody can challenge it.
THEOREM DutiesSeparated == Spec => []SeparationOfDuties
<1>1. ASSUME CaseInv PROVE SeparationOfDuties
  <2> SUFFICES ASSUME resolution # NoCase
      PROVE  LET others == {resolution.challenger, resolution.finalizer} \ {Null}
             IN /\ resolution.proposer # Creator /\ resolution.proposer \notin others
                /\ Creator \notin others
                /\ resolution.challenger # resolution.finalizer \/ others = {}
                /\ Voters \cap (others \cup {Creator, resolution.proposer}) = {}
    BY DEF SeparationOfDuties
  <2>1. /\ Actors /\ resolution.state \in CaseState /\ resolution.state # "none"
        /\ Creator \in Accounts /\ Null \notin Accounts /\ resolution.proposer \in Accounts
    BY <1>1, CaseFields, AccountsAssumption DEF CaseInv, Actors
  <2>2. CASE resolution.state # "finalized"
    <3>1. resolution.finalizer = Null
      BY <2>1, <2>2 DEF Actors
    <3>2. QED  BY <2>1, <3>1 DEF Actors, Parties
  <2>3. CASE resolution.state = "finalized"
    <3>1. resolution.finalizer \in Accounts \ (Parties \cup Voters)
      BY <2>1, <2>3 DEF Actors
    <3>2. QED  BY <2>1, <3>1 DEF Actors, Parties
  <2>4. QED  BY <2>2, <2>3
<1>2. QED  BY <1>1, CaseHolds, PTL

-------------------------------------------------------------------------------
(* The bonds.                                                                *)

Undecided == resolution.state \in {"proposed", "challenged"}
BondOf(u) == IF Undecided /\ u \in {resolution.proposer, resolution.challenger} THEN Bond ELSE 0

\* BondsFollowCase, written as a function.
BondInv == bonded = [u \in Accounts |-> BondOf(u)]

\* No bond is held at the start.
LEMMA BondInit == Init => BondInv
BY DEF Init, BondInv, BondOf, Undecided, NoCase

\* A bond is taken from an account that had none, when it becomes a party.
LEMMA BondReserved ==
  ASSUME CaseInv, BondInv, NEW u \in Accounts, NEW r \in Results,
         ProposeResolution(u, r) \/ ChallengeResolution(u, r)
  PROVE  BondInv'
<1>1. /\ bonded' = [bonded EXCEPT ![u] = @ + Bond]
      /\ Bond \in Nat /\ u # Null
  BY AmountsAssumption, AccountsAssumption DEF ProposeResolution, ChallengeResolution, ReserveBond
<1>2. CASE ProposeResolution(u, r)
  <2>1. resolution.state = "none" /\ ~ Undecided
    BY <1>2 DEF ProposeResolution, NoCase, Undecided
  <2>2. resolution'.state = "proposed" /\ resolution'.proposer = u /\ resolution'.challenger = Null
    BY <1>2 DEF ProposeResolution, NoCase
  <2>3. \A v \in Accounts : BondOf(v)' = IF v = u THEN BondOf(v) + Bond ELSE BondOf(v)
    BY <1>1, <2>1, <2>2, AccountsAssumption DEF BondOf, Undecided
  <2>4. QED  BY <1>1, <2>3 DEF BondInv
<1>3. CASE ChallengeResolution(u, r)
  <2>1. /\ resolution.state = "proposed" /\ u # resolution.proposer
        /\ resolution' = [resolution EXCEPT !.state = "challenged", !.challenger = u, !.challenge = r]
    BY <1>3 DEF ChallengeResolution
  <2>2. /\ resolution'.state = "challenged" /\ resolution'.challenger = u
        /\ resolution'.proposer = resolution.proposer /\ resolution.challenger = Null
    BY <2>1 DEF CaseInv, Case, Actors
  <2>3. \A v \in Accounts : BondOf(v)' = IF v = u THEN BondOf(v) + Bond ELSE BondOf(v)
    BY <1>1, <2>1, <2>2, AccountsAssumption DEF BondOf, Undecided
  <2>4. QED  BY <1>1, <2>3 DEF BondInv
<1>4. QED  BY <1>2, <1>3

\* Every step keeps the bonds with the case.
LEMMA BondStep ==
  ASSUME CaseInv, BondInv, [Next]_vars
  PROVE  BondInv'
<1>1. CASE \/ Tick
           \/ \E a \in Assets : SubmitOrder(a) \/ HaltBook(a)
           \/ \E f \in FillIds : MatchOrder(f)
           \/ \E u \in Accounts : ArchiveEvidence(u)
           \/ \E u \in Accounts, d \in {"proposal", "challenge", "recuse"} : BallotResolution(u, d)
           \/ CloseBook \/ RedeemFills \/ UNCHANGED vars
  <2>1. resolution' = resolution /\ bonded' = bonded
    BY <1>1 DEF Tick, SubmitOrder, HaltBook, MatchOrder, ArchiveEvidence, BallotResolution,
                CloseBook, RedeemFills, vars, panel, ledger
  <2>2. QED  BY <2>1 DEF BondInv, BondOf, Undecided
<1>2. CASE \E u \in Accounts, r \in Results : ProposeResolution(u, r) \/ ChallengeResolution(u, r)
  BY <1>2, BondReserved
<1>3. CASE \E u \in Accounts : FinalizeResolution(u)
  <2>1. bonded' = [v \in Accounts |-> 0] /\ resolution'.state = "finalized"
    BY <1>3 DEF FinalizeResolution, CaseInv, Case
  <2>2. QED  BY <2>1 DEF BondInv, BondOf, Undecided
<1>4. QED  BY <1>1, <1>2, <1>3 DEF Next

\* The invariant of the bonds holds.
LEMMA BondHolds == Spec => []BondInv
<1>1. CaseInv /\ BondInv /\ [Next]_vars => BondInv'
  BY BondStep
<1>2. QED  BY <1>1, BondInit, CaseHolds, PTL DEF Spec

\* A bond is held exactly while its case is undecided, from the proposer and the
\* challenger alone: neither is charged twice, and both get theirs back.
THEOREM BondsHeld == Spec => []BondsFollowCase
<1>1. BondInv => BondsFollowCase
  BY DEF BondInv, BondOf, Undecided, BondsFollowCase
<1>2. QED  BY <1>1, BondHolds, PTL

-------------------------------------------------------------------------------
(* The money of the fills.                                                   *)

InAsset(S, a) == {f \in S : FillOf[f].asset = a}
TotalOf == [f \in FillIds |-> FillOf[f].total]

\* What payment p of fill f gives account u.
SideOf(f, u, p) == (IF FillOf[f].buyer = u THEN p.buyer ELSE 0)
                   + (IF FillOf[f].seller = u THEN p.seller ELSE 0)
EarnedOf(u) == [f \in DOMAIN redeemed |-> SideOf(f, u, redeemed[f])]
DueOf(u, S) == [f \in S |-> SideOf(f, u, Payout(resolution.final, FillOf[f]))]

Exhausts(p, total) ==
  p.buyer \in 0..total /\ p.seller \in 0..total /\ p.buyer + p.seller = total

\* What an account holds is what it began with and what its fills paid.
Balanced(u, a) ==
  available[u][a] + (IF a = BondAsset THEN bonded[u] ELSE 0)
    = (IF a = BondAsset THEN Funds[u] ELSE 0)
      + SumFunctionOnSet(EarnedOf(u), InAsset(DOMAIN redeemed, a))

\* EscrowBacksClaims with its sums over functions, and the types they need.
MoneyInv ==
  /\ matched \subseteq FillIds /\ DOMAIN redeemed \subseteq matched
  /\ available \in [Accounts -> [Assets -> Nat]]
  /\ escrow = [a \in Assets |-> SumFunctionOnSet(TotalOf, InAsset(Unredeemed, a))]
  /\ \A f \in DOMAIN redeemed : Exhausts(redeemed[f], FillOf[f].total)
  /\ \A u \in Accounts, a \in Assets : Balanced(u, a)

\* The sums of the model, written out.
LEMMA TotalsSum ==
  ASSUME NEW S \in SUBSET FillIds, NEW a
  PROVE  Totals(S, a) = SumFunctionOnSet(TotalOf, InAsset(S, a))
<1> DEFINE R == {f \in S : FillOf[f].asset = a}
           D(s) == s = [T \in SUBSET R |-> IF T = {} THEN 0
                          ELSE FillOf[Pick(T)].total + s[T \ {Pick(T)}]]
           E(s) == Defines(s, TotalOf, R)
<1>1. Totals(S, a) = (CHOOSE s : D(s))[R]
  BY DEF Totals, MapThenSumSet, MapThenFoldSet, Pick
<1>2. SumFunctionOnSet(TotalOf, InAsset(S, a)) = (CHOOSE s : E(s))[R]
  BY SumDef DEF InAsset
<1>3. \A T \in SUBSET R : T # {} => TotalOf[Pick(T)] = FillOf[Pick(T)].total
  BY PickIn DEF TotalOf
<1>4. ASSUME NEW s PROVE D(s) <=> E(s)
  BY <1>3 DEF Defines
<1> HIDE DEF D, E
<1>5. (CHOOSE s : D(s)) = (CHOOSE s : E(s))
  BY <1>4
<1>6. QED  BY <1>1, <1>2, <1>5

\* What an account was paid, as the sum of one function.
LEMMA PaidSum ==
  ASSUME NEW u, NEW a
  PROVE  PaidTo(u, a) = SumFunctionOnSet(EarnedOf(u), InAsset(DOMAIN redeemed, a))
<1> DEFINE R == {f \in DOMAIN redeemed : FillOf[f].asset = a}
           F == EarnedOf(u)
           V(f) == (IF FillOf[f].buyer = u THEN redeemed[f].buyer ELSE 0)
                   + (IF FillOf[f].seller = u THEN redeemed[f].seller ELSE 0)
           D(s) == s = [T \in SUBSET R |-> IF T = {} THEN 0
                          ELSE V(Pick(T)) + s[T \ {Pick(T)}]]
           E(s) == Defines(s, F, R)
<1>1. PaidTo(u, a) = (CHOOSE s : D(s))[R]
  BY DEF PaidTo, MapThenSumSet, MapThenFoldSet, Pick
<1>2. SumFunctionOnSet(F, InAsset(DOMAIN redeemed, a)) = (CHOOSE s : E(s))[R]
  BY SumDef DEF InAsset
<1>3. \A T \in SUBSET R : T # {} => F[Pick(T)] = V(Pick(T))
  BY PickIn DEF EarnedOf, SideOf
<1> HIDE DEF F, V
<1>4. ASSUME NEW s PROVE D(s) <=> E(s)
  BY <1>3 DEF Defines
<1> HIDE DEF D, E
<1>5. (CHOOSE s : D(s)) = (CHOOSE s : E(s))
  BY <1>4
<1>6. QED  BY <1>1, <1>2, <1>5 DEF F

\* What a page of redemptions credits, as the sum of one function.
LEMMA CreditSum ==
  ASSUME NEW S, NEW u, NEW a
  PROVE  Credit(S, u, a) = SumFunctionOnSet(DueOf(u, S), InAsset(S, a))
<1> DEFINE R == {f \in S : FillOf[f].asset = a}
           F == DueOf(u, S)
           V(f) == LET p == Payout(resolution.final, FillOf[f])
                   IN (IF FillOf[f].buyer = u THEN p.buyer ELSE 0)
                      + (IF FillOf[f].seller = u THEN p.seller ELSE 0)
           D(s) == s = [T \in SUBSET R |-> IF T = {} THEN 0
                          ELSE V(Pick(T)) + s[T \ {Pick(T)}]]
           E(s) == Defines(s, F, R)
<1>1. Credit(S, u, a) = (CHOOSE s : D(s))[R]
  BY DEF Credit, MapThenSumSet, MapThenFoldSet, Pick
<1>2. SumFunctionOnSet(F, InAsset(S, a)) = (CHOOSE s : E(s))[R]
  BY SumDef DEF InAsset
<1>3. \A T \in SUBSET R : T # {} => F[Pick(T)] = V(Pick(T))
  BY PickIn DEF DueOf, SideOf
<1> HIDE DEF F, V
<1>4. ASSUME NEW s PROVE D(s) <=> E(s)
  BY <1>3 DEF Defines
<1> HIDE DEF D, E
<1>5. (CHOOSE s : D(s)) = (CHOOSE s : E(s))
  BY <1>4
<1>6. QED  BY <1>1, <1>2, <1>5 DEF F

\* A fill and its total.
LEMMA FillTerms ==
  ASSUME NEW f \in FillIds
  PROVE  /\ FillOf[f] \in Fill /\ FillOf[f].asset \in Assets
         /\ FillOf[f].total \in Nat /\ FillOf[f].total > 0
         /\ FillOf[f].buyerCollateral \in Nat /\ FillOf[f].sellerCollateral \in Nat
         /\ FillOf[f].buyerCollateral + FillOf[f].sellerCollateral = FillOf[f].total
         /\ TotalOf[f] = FillOf[f].total
BY FillsAssumption DEF Fill, TotalOf

\* Whatever a validated result is, and wherever the observed value lies, the two
\* sides of a fill are paid its whole collateral and nothing below zero.
LEMMA PayoutExhausts ==
  ASSUME marketType \in MarketTypes, NEW r, Valid(r), NEW f \in FillIds
  PROVE  Exhausts(Payout(r, FillOf[f]), FillOf[f].total)
<1> DEFINE t == FillOf[f].total
           b == BuyerPayout(r, FillOf[f])
<1>1. t \in Nat
  BY FillTerms
<1>2. b \in Nat /\ b <= t
  <2>1. CASE r.kind \in {"invalid", "cancelled"}
    BY <2>1, FillTerms DEF BuyerPayout
  <2>2. CASE r.kind = "outcome"
    BY <1>1, <2>2 DEF BuyerPayout
  <2>3. CASE r.kind = "scalar"
    <3> DEFINE w == Weight(r.value, FillOf[f].outcome)
               d == Upper - Lower
    <3>1. marketType = "scalar" /\ r.value \in Int
      BY <2>3, ResultsAssumption DEF Valid, ValidResult
    <3>2. Lower \in Int /\ Upper \in Int /\ Lower < Upper
      BY <3>1, TermsAssumption
    <3>3. d \in Nat /\ d > 0 /\ w \in Nat /\ w <= d
      BY <3>1, <3>2 DEF Weight, Bounded
    <3>4. b = (t * w) \div d
      BY <2>3 DEF BuyerPayout
    <3> HIDE DEF w, d, b, t
    <3>5. t * w \in Nat /\ t * d \in Int /\ t * w <= t * d /\ d * t = t * d
      BY <1>1, <3>3, ProductMonotone
    <3>6. b \in Nat
      BY <3>3, <3>4, <3>5, DivNat
    <3>7. (t * w) \div d <= (d * t) \div d
      BY <3>3, <3>5, DivMonotone
    <3>8. (d * t) \div d = t
      BY <1>1, <3>3, DivProduct
    <3>9. QED  BY <3>4, <3>6, <3>7, <3>8
  <2>4. QED  BY <2>1, <2>2, <2>3 DEF Valid, ValidResult
<1>3. Payout(r, FillOf[f]).buyer = b /\ Payout(r, FillOf[f]).seller = t - b
  BY DEF Payout
<1> HIDE DEF b, t
<1>4. QED  BY <1>1, <1>2, <1>3 DEF Exhausts, t

\* What is paid to one account is a natural number.
LEMMA SideNat ==
  ASSUME NEW f, NEW u, NEW p, NEW t \in Nat, Exhausts(p, t)
  PROVE  SideOf(f, u, p) \in Nat
BY DEF Exhausts, SideOf

\* Fills of one asset are finitely many.
LEMMA AssetSets ==
  ASSUME NEW S \in SUBSET FillIds, NEW a
  PROVE  IsFiniteSet(S) /\ InAsset(S, a) \in SUBSET S /\ IsFiniteSet(InAsset(S, a))
<1>1. IsFiniteSet(S) /\ InAsset(S, a) \in SUBSET S
  BY FillsAssumption, FS_Subset DEF InAsset
<1>2. QED  BY <1>1, FS_Subset

\* What redeemed fills paid are natural numbers.
LEMMA EarnedNat ==
  ASSUME MoneyInv, NEW u, NEW a
  PROVE  /\ IsFiniteSet(InAsset(DOMAIN redeemed, a))
         /\ \A f \in DOMAIN redeemed : EarnedOf(u)[f] \in Nat
         /\ SumFunctionOnSet(EarnedOf(u), InAsset(DOMAIN redeemed, a)) \in Nat
<1>1. DOMAIN redeemed \in SUBSET FillIds
  BY DEF MoneyInv
<1>2. \A f \in DOMAIN redeemed : EarnedOf(u)[f] \in Nat
  <2> TAKE f \in DOMAIN redeemed
  <2>1. FillOf[f].total \in Nat /\ Exhausts(redeemed[f], FillOf[f].total)
    BY <1>1, FillTerms DEF MoneyInv
  <2>2. SideOf(f, u, redeemed[f]) \in Nat
    BY <2>1, SideNat
  <2>3. QED  BY <2>2 DEF EarnedOf
<1>3. IsFiniteSet(InAsset(DOMAIN redeemed, a)) /\ InAsset(DOMAIN redeemed, a) \in SUBSET DOMAIN redeemed
  BY <1>1, AssetSets
<1>4. \A f \in InAsset(DOMAIN redeemed, a) : EarnedOf(u)[f] \in Nat
  BY <1>2, <1>3
<1>5. QED  BY <1>2, <1>3, <1>4, SumNat

\* The invariant of the money holds at the start.
LEMMA MoneyInit == Init => MoneyInv
<1> SUFFICES ASSUME Init PROVE MoneyInv
  OBVIOUS
<1>1. /\ matched = {} /\ redeemed = <<>> /\ DOMAIN redeemed = {} /\ Unredeemed = {}
      /\ bonded = [u \in Accounts |-> 0] /\ escrow = [a \in Assets |-> 0]
      /\ available = [u \in Accounts |-> [a \in Assets |-> IF a = BondAsset THEN Funds[u] ELSE 0]]
  BY DEF Init, Unredeemed
<1>2. \A a : InAsset({}, a) = {}
  BY DEF InAsset
<1>3. escrow = [a \in Assets |-> SumFunctionOnSet(TotalOf, InAsset(Unredeemed, a))]
  BY <1>1, <1>2, SumEmpty
<1>4. available \in [Accounts -> [Assets -> Nat]]
  <2>1. \A u \in Accounts : Funds[u] \in Nat
    BY AmountsAssumption
  <2>2. QED  BY <1>1, <2>1
<1>5. ASSUME NEW u \in Accounts, NEW a \in Assets PROVE Balanced(u, a)
  <2>1. SumFunctionOnSet(EarnedOf(u), InAsset(DOMAIN redeemed, a)) = 0
    BY <1>1, <1>2, SumEmpty
  <2>2. Funds[u] \in Nat /\ bonded[u] = 0 /\ available[u][a] = IF a = BondAsset THEN Funds[u] ELSE 0
    BY <1>1, AmountsAssumption
  <2>3. QED  BY <2>1, <2>2 DEF Balanced
<1>6. QED  BY <1>1, <1>3, <1>4, <1>5 DEF MoneyInv

\* The steps that neither trade, nor move a bond, nor redeem.
LEMMA MoneyKept ==
  ASSUME MoneyInv, UNCHANGED <<matched, redeemed, ledger>>
  PROVE  MoneyInv'
<1>1. Unredeemed' = Unredeemed
  BY DEF Unredeemed
<1>2. \A u, a : Balanced(u, a)' = Balanced(u, a)
  BY DEF Balanced, EarnedOf, ledger
<1>3. QED  BY <1>1, <1>2 DEF MoneyInv, ledger

\* A match brings the whole collateral of one more fill into escrow.
LEMMA MoneyMatched ==
  ASSUME MoneyInv, NEW f \in FillIds, MatchOrder(f)
  PROVE  MoneyInv'
<1> DEFINE b == FillOf[f].asset
<1>1. /\ f \notin matched /\ matched' = matched \cup {f}
      /\ escrow' = [escrow EXCEPT ![b] = @ + FillOf[f].total]
      /\ UNCHANGED <<redeemed, available, bonded>>
  BY DEF MatchOrder
<1>2. Unredeemed' = Unredeemed \cup {f} /\ f \notin Unredeemed /\ Unredeemed \in SUBSET FillIds
  BY <1>1 DEF Unredeemed, MoneyInv
<1>3. ASSUME NEW a \in Assets
      PROVE  escrow'[a] = SumFunctionOnSet(TotalOf, InAsset(Unredeemed', a))
  <2> DEFINE R == InAsset(Unredeemed, a)
  <2>1. /\ R \in SUBSET FillIds /\ IsFiniteSet(R) /\ f \notin R
        /\ escrow[a] = SumFunctionOnSet(TotalOf, R)
    BY <1>2, AssetSets DEF MoneyInv
  <2>2. CASE a = b
    <3>1. InAsset(Unredeemed', a) = R \cup {f}
      BY <1>2, <2>2 DEF InAsset
    <3>2. \A x \in R \cup {f} : TotalOf[x] \in Int
      BY <2>1, FillTerms
    <3>3. SumFunctionOnSet(TotalOf, R \cup {f}) = TotalOf[f] + SumFunctionOnSet(TotalOf, R)
      <4> HIDE DEF R
      <4>1. QED  BY <2>1, <3>2, SumAdd
    <3>4. SumFunctionOnSet(TotalOf, R) \in Int
      <4> HIDE DEF R
      <4>1. QED  BY <2>1, <3>2, SumType
    <3>5. escrow'[a] = escrow[a] + FillOf[f].total
      BY <1>1, <2>2 DEF MoneyInv
    <3>6. FillOf[f].total \in Nat /\ TotalOf[f] = FillOf[f].total
      BY FillTerms
    <3> HIDE DEF R
    <3>7. QED  BY <2>1, <3>1, <3>3, <3>4, <3>5, <3>6
  <2>3. CASE a # b
    <3>1. InAsset(Unredeemed', a) = R /\ escrow'[a] = escrow[a]
      BY <1>1, <1>2, <2>3 DEF InAsset, MoneyInv
    <3>2. QED  BY <2>1, <3>1
  <2>4. QED  BY <2>2, <2>3
<1>4. escrow' = [a \in Assets |-> SumFunctionOnSet(TotalOf, InAsset(Unredeemed, a))]'
  BY <1>1, <1>3 DEF MoneyInv
<1>5. \A u, a : Balanced(u, a)' = Balanced(u, a)
  BY <1>1 DEF Balanced, EarnedOf
<1>6. QED  BY <1>1, <1>4, <1>5 DEF MoneyInv

\* A bond moves within what its account holds.
LEMMA MoneyReserved ==
  ASSUME MoneyInv, BondInv, NEW u \in Accounts, ReserveBond(u),
         UNCHANGED <<matched, redeemed, escrow>>
  PROVE  MoneyInv'
<1>1. /\ available[u][BondAsset] >= Bond /\ Bond \in Nat /\ BondAsset \in Assets
      /\ available' = [available EXCEPT ![u][BondAsset] = @ - Bond]
      /\ bonded' = [bonded EXCEPT ![u] = @ + Bond]
      /\ available \in [Accounts -> [Assets -> Nat]]
  BY AmountsAssumption, AssetsAssumption DEF ReserveBond, MoneyInv
<1>2. DOMAIN bonded = Accounts /\ \A v \in Accounts : bonded[v] \in Nat
  BY <1>1 DEF BondInv, BondOf
<1>3. available' \in [Accounts -> [Assets -> Nat]]
  <2>1. available[u][BondAsset] \in Nat /\ available[u][BondAsset] - Bond \in Nat
    BY <1>1
  <2>2. QED  BY <1>1, <2>1
<1>4. Unredeemed' = Unredeemed
  BY DEF Unredeemed
<1>5. ASSUME NEW v \in Accounts, NEW a \in Assets PROVE Balanced(v, a)'
  <2> DEFINE paid == SumFunctionOnSet(EarnedOf(v), InAsset(DOMAIN redeemed, a))
  <2>1. paid' = paid
    BY DEF EarnedOf
  <2>2. Balanced(v, a)
    BY DEF MoneyInv
  <2>3. CASE v = u /\ a = BondAsset
    <3>1. /\ available'[v][a] = available[v][a] - Bond /\ bonded'[v] = bonded[v] + Bond
          /\ available[v][a] \in Nat /\ bonded[v] \in Nat
      BY <1>1, <1>2, <2>3
    <3> HIDE DEF paid
    <3>2. QED  BY <1>1, <2>1, <2>2, <2>3, <3>1 DEF Balanced, paid
  <2>4. CASE ~(v = u /\ a = BondAsset)
    <3>1. available'[v][a] = available[v][a] /\ (a = BondAsset => bonded'[v] = bonded[v])
      BY <1>1, <1>2, <2>4
    <3>2. QED  BY <2>1, <2>2, <3>1 DEF Balanced
  <2>5. QED  BY <2>3, <2>4
<1>6. QED  BY <1>3, <1>4, <1>5 DEF MoneyInv

\* Every bond goes back to the account it was taken from.
LEMMA MoneyReturned ==
  ASSUME MoneyInv, BondInv, NEW w \in Accounts, FinalizeResolution(w)
  PROVE  MoneyInv'
<1>1. /\ available' = [v \in Accounts |-> [available[v] EXCEPT ![BondAsset] = @ + bonded[v]]]
      /\ bonded' = [v \in Accounts |-> 0]
      /\ UNCHANGED <<matched, redeemed, escrow>>
      /\ BondAsset \in Assets
  BY AssetsAssumption DEF FinalizeResolution, trading
<1>2. \A v \in Accounts : bonded[v] \in Nat
  BY AmountsAssumption DEF BondInv, BondOf
<1>3. available \in [Accounts -> [Assets -> Nat]]
  BY DEF MoneyInv
<1>4. available' \in [Accounts -> [Assets -> Nat]]
  BY <1>1, <1>2, <1>3
<1>5. Unredeemed' = Unredeemed
  BY <1>1 DEF Unredeemed
<1>6. ASSUME NEW v \in Accounts, NEW a \in Assets PROVE Balanced(v, a)'
  <2> DEFINE paid == SumFunctionOnSet(EarnedOf(v), InAsset(DOMAIN redeemed, a))
  <2>1. paid' = paid
    BY <1>1 DEF EarnedOf
  <2>2. /\ Balanced(v, a) /\ bonded'[v] = 0
        /\ available'[v][a] = available[v][a] + (IF a = BondAsset THEN bonded[v] ELSE 0)
        /\ available[v][a] \in Nat /\ bonded[v] \in Nat
    BY <1>1, <1>2, <1>3 DEF MoneyInv
  <2> HIDE DEF paid
  <2>3. QED  BY <2>1, <2>2 DEF Balanced, paid
<1>7. QED  BY <1>1, <1>4, <1>5, <1>6 DEF MoneyInv

\* An account is credited with what its fills newly paid.
LEMMA BalanceCredited ==
  ASSUME BondInv, NEW u \in Accounts, NEW a \in Assets, Balanced(u, a), bonded' = bonded,
         available[u][a] \in Nat, NEW credit \in Nat,
         SumFunctionOnSet(EarnedOf(u), InAsset(DOMAIN redeemed, a)) \in Nat,
         available'[u][a] = available[u][a] + credit,
         SumFunctionOnSet(EarnedOf(u)', InAsset(DOMAIN redeemed', a))
           = SumFunctionOnSet(EarnedOf(u), InAsset(DOMAIN redeemed, a)) + credit
  PROVE  Balanced(u, a)'
<1> DEFINE old == SumFunctionOnSet(EarnedOf(u), InAsset(DOMAIN redeemed, a))
           new == SumFunctionOnSet(EarnedOf(u)', InAsset(DOMAIN redeemed', a))
           held == IF a = BondAsset THEN bonded[u] ELSE 0
           began == IF a = BondAsset THEN Funds[u] ELSE 0
<1>1. bonded[u] \in Nat /\ Funds[u] \in Nat
  BY AmountsAssumption DEF BondInv, BondOf
<1>2. held \in Nat /\ began \in Nat
  BY <1>1
<1>3. available[u][a] + held = began + old
  BY DEF Balanced
<1>4. available'[u][a] + held = began + new
  <2>1. new = old + credit /\ old \in Nat
    OBVIOUS
  <2> HIDE DEF old, new, held, began
  <2>2. QED  BY <1>2, <1>3, <2>1
<1>5. QED  BY <1>4 DEF Balanced

\* The escrow pays the fills of S, each of them once, and no others.
LEMMA Redemption ==
  ASSUME CaseInv, BondInv, MoneyInv, resolution.state = "finalized", resolution' = resolution,
         UNCHANGED <<matched, bonded>>, NEW S \in SUBSET Unredeemed,
         redeemed' = [f \in DOMAIN redeemed \cup S |->
            IF f \in S THEN Payout(resolution.final, FillOf[f]) ELSE redeemed[f]],
         escrow' = [a \in Assets |-> escrow[a] - Totals(S, a)],
         available' = [u \in Accounts |-> [a \in Assets |-> available[u][a] + Credit(S, u, a)]]
  PROVE  MoneyInv'
<1> DEFINE final == resolution.final
<1>1. /\ matched \subseteq FillIds /\ S \in SUBSET FillIds /\ S \cap DOMAIN redeemed = {}
      /\ Unredeemed \in SUBSET FillIds /\ S \subseteq matched
      /\ available \in [Accounts -> [Assets -> Nat]]
  BY DEF MoneyInv, Unredeemed
<1>2. DOMAIN redeemed' = DOMAIN redeemed \cup S /\ Unredeemed' = Unredeemed \ S
  BY DEF Unredeemed
<1>3. \A f \in S : Exhausts(Payout(final, FillOf[f]), FillOf[f].total)
  <2>1. marketType \in MarketTypes /\ Valid(final)
    BY DEF CaseInv, Decisions
  <2> HIDE DEF final
  <2>2. QED  BY <1>1, <2>1, PayoutExhausts
<1>4. \A f \in DOMAIN redeemed' : Exhausts(redeemed'[f], FillOf[f].total)
  <2> TAKE f \in DOMAIN redeemed'
  <2>1. CASE f \in S
    BY <1>2, <1>3, <2>1
  <2>2. CASE f \notin S
    BY <1>2, <2>2 DEF MoneyInv
  <2>3. QED  BY <2>1, <2>2
<1>5. ASSUME NEW a \in Assets
      PROVE  escrow'[a] = SumFunctionOnSet(TotalOf, InAsset(Unredeemed', a))
  <2> DEFINE R == InAsset(Unredeemed, a)
             T == InAsset(S, a)
  <2>1. /\ R \in SUBSET FillIds /\ IsFiniteSet(R) /\ T \in SUBSET R
        /\ InAsset(Unredeemed', a) = R \ T
    BY <1>1, <1>2, AssetSets DEF InAsset
  <2>2. \A x \in R : TotalOf[x] \in Int
    BY <2>1, FillTerms
  <2>3. escrow'[a] = SumFunctionOnSet(TotalOf, R) - SumFunctionOnSet(TotalOf, T)
    BY <1>1, TotalsSum DEF MoneyInv
  <2> HIDE DEF R, T
  <2>4. SumFunctionOnSet(TotalOf, R) = SumFunctionOnSet(TotalOf, T) + SumFunctionOnSet(TotalOf, R \ T)
    BY <2>1, <2>2, SumSplit
  <2>5. SumFunctionOnSet(TotalOf, T) \in Int /\ SumFunctionOnSet(TotalOf, R \ T) \in Int
    BY <2>1, <2>2, SumType, FS_Subset
  <2>6. QED  BY <2>1, <2>3, <2>4, <2>5
<1>6. ASSUME NEW u \in Accounts, NEW a \in Assets
      PROVE  /\ Credit(S, u, a) \in Nat
             /\ SumFunctionOnSet(EarnedOf(u)', InAsset(DOMAIN redeemed', a))
                  = SumFunctionOnSet(EarnedOf(u), InAsset(DOMAIN redeemed, a)) + Credit(S, u, a)
  <2> DEFINE Old == InAsset(DOMAIN redeemed, a)
             New == InAsset(S, a)
             e == EarnedOf(u)
             d == DueOf(u, S)
             g == EarnedOf(u)'
  <2>1. /\ InAsset(DOMAIN redeemed', a) = Old \cup New
        /\ Old \subseteq DOMAIN redeemed /\ New \subseteq S /\ (Old \cup New) \ Old = New
    BY <1>1, <1>2 DEF InAsset
  <2>2. IsFiniteSet(Old) /\ IsFiniteSet(New)
    BY <1>1, EarnedNat, AssetSets
  <2>3. \A f \in Old : e[f] \in Nat /\ g[f] = e[f]
    <3> TAKE f \in Old
    <3>1. f \in DOMAIN redeemed /\ f \notin S /\ f \in DOMAIN redeemed'
      BY <1>1, <1>2, <2>1
    <3>2. e[f] = SideOf(f, u, redeemed[f]) /\ g[f] = SideOf(f, u, redeemed'[f])
      BY <3>1 DEF EarnedOf, SideOf
    <3>3. redeemed'[f] = redeemed[f] /\ e[f] \in Nat
      BY <3>1, EarnedNat
    <3>4. QED  BY <3>2, <3>3
  <2>4. \A f \in New : d[f] \in Nat /\ g[f] = d[f]
    <3> TAKE f \in New
    <3>1. f \in S /\ f \in DOMAIN redeemed' /\ f \in FillIds
      BY <1>1, <1>2, <2>1
    <3>2. d[f] = SideOf(f, u, Payout(final, FillOf[f])) /\ g[f] = SideOf(f, u, redeemed'[f])
      BY <3>1 DEF EarnedOf, DueOf, SideOf
    <3>3. redeemed'[f] = Payout(final, FillOf[f])
      BY <3>1
    <3>4. SideOf(f, u, Payout(final, FillOf[f])) \in Nat
      <4>1. FillOf[f].total \in Nat /\ Exhausts(Payout(final, FillOf[f]), FillOf[f].total)
        BY <1>3, <3>1, FillTerms
      <4> HIDE DEF final
      <4>2. QED  BY <4>1, SideNat
    <3>5. QED  BY <3>2, <3>3, <3>4
  <2>5. Credit(S, u, a) = SumFunctionOnSet(d, New)
    BY CreditSum
  <2> HIDE DEF Old, New, e, d, g
  <2>6. IsFiniteSet(Old \cup New) /\ \A f \in Old \cup New : g[f] \in Int
    <3>1. IsFiniteSet(Old \cup New)
      BY <2>2, FS_Union
    <3>2. \A f \in Old \cup New : g[f] \in Nat
      BY <2>3, <2>4
    <3>3. QED  BY <3>1, <3>2
  <2>7. SumFunctionOnSet(g, Old \cup New)
          = SumFunctionOnSet(g, Old) + SumFunctionOnSet(g, (Old \cup New) \ Old)
    <3> DEFINE both == Old \cup New
    <3>1. Old \in SUBSET both /\ IsFiniteSet(both) /\ \A f \in both : g[f] \in Int
      BY <2>6
    <3> HIDE DEF both
    <3>2. SumFunctionOnSet(g, both) = SumFunctionOnSet(g, Old) + SumFunctionOnSet(g, both \ Old)
      BY <3>1, SumSplit
    <3>3. QED  BY <3>2 DEF both
  <2>8. SumFunctionOnSet(g, Old) = SumFunctionOnSet(e, Old)
    <3>1. \A f \in Old : e[f] \in Int /\ g[f] = e[f]
      BY <2>3
    <3>2. QED  BY <2>2, <3>1, SumEqual
  <2>9. SumFunctionOnSet(g, New) = SumFunctionOnSet(d, New)
    <3>1. \A f \in New : d[f] \in Int /\ g[f] = d[f]
      BY <2>4
    <3>2. QED  BY <2>2, <3>1, SumEqual
  <2>10. SumFunctionOnSet(d, New) \in Nat
    BY <2>2, <2>4, SumNat
  <2>11. SumFunctionOnSet(g, InAsset(DOMAIN redeemed', a))
           = SumFunctionOnSet(e, Old) + SumFunctionOnSet(d, New)
    BY <2>1, <2>7, <2>8, <2>9
  <2>12. QED  BY <2>5, <2>10, <2>11 DEF g, e, Old
<1>7. ASSUME NEW u \in Accounts, NEW a \in Assets
      PROVE  available'[u][a] \in Nat /\ Balanced(u, a)'
  <2> DEFINE old == SumFunctionOnSet(EarnedOf(u), InAsset(DOMAIN redeemed, a))
             new == SumFunctionOnSet(EarnedOf(u)', InAsset(DOMAIN redeemed', a))
             credit == Credit(S, u, a)
  <2>1. /\ available'[u][a] = available[u][a] + credit /\ credit \in Nat
        /\ available[u][a] \in Nat /\ new = old + credit
    BY <1>1, <1>6
  <2>2. Balanced(u, a) /\ bonded' = bonded /\ old \in Nat
    BY EarnedNat DEF MoneyInv
  <2>3. available'[u][a] \in Nat
    <3> HIDE DEF old, new, credit
    <3>1. QED  BY <2>1
  <2>4. Balanced(u, a)'
    BY <2>1, <2>2, BalanceCredited
  <2>5. QED  BY <2>3, <2>4
<1>8. available' \in [Accounts -> [Assets -> Nat]]
  <2>1. \A u \in Accounts, a \in Assets : available[u][a] + Credit(S, u, a) \in Nat
    BY <1>7
  <2>2. QED  BY <2>1
<1>9. escrow' = [a \in Assets |-> SumFunctionOnSet(TotalOf, InAsset(Unredeemed, a))]'
  BY <1>5
<1>10. DOMAIN redeemed' \subseteq matched' /\ matched' \subseteq FillIds
  BY <1>1, <1>2 DEF MoneyInv
<1>11. QED  BY <1>4, <1>7, <1>8, <1>9, <1>10 DEF MoneyInv

\* Every step that trades, moves a bond or redeems is one of these.
LEMMA MoneyStep ==
  ASSUME CaseInv, BondInv, MoneyInv, [Next]_vars
  PROVE  MoneyInv'
<1>1. CASE \/ Tick
           \/ \E a \in Assets : SubmitOrder(a) \/ HaltBook(a)
           \/ \E u \in Accounts : ArchiveEvidence(u)
           \/ \E u \in Accounts, d \in {"proposal", "challenge", "recuse"} : BallotResolution(u, d)
           \/ CloseBook \/ UNCHANGED vars
  <2>1. UNCHANGED <<matched, redeemed, ledger>>
    BY <1>1 DEF Tick, SubmitOrder, HaltBook, ArchiveEvidence, BallotResolution, CloseBook,
                vars, trading
  <2>2. QED  BY <2>1, MoneyKept
<1>2. CASE \E f \in FillIds : MatchOrder(f)
  BY <1>2, MoneyMatched
<1>3. CASE \E u \in Accounts, r \in Results : ProposeResolution(u, r) \/ ChallengeResolution(u, r)
  <2>1. PICK u \in Accounts, r \in Results : ProposeResolution(u, r) \/ ChallengeResolution(u, r)
    BY <1>3
  <2>2. ReserveBond(u) /\ UNCHANGED <<matched, redeemed, escrow>>
    BY <2>1 DEF ProposeResolution, ChallengeResolution, trading
  <2>3. QED  BY <2>2, MoneyReserved
<1>4. CASE \E u \in Accounts : FinalizeResolution(u)
  BY <1>4, MoneyReturned
<1>5. CASE RedeemFills
  <2>1. /\ resolution.state = "finalized" /\ resolution' = resolution
        /\ UNCHANGED <<matched, bonded>>
    BY <1>5 DEF RedeemFills, trading, panel
  <2>2. \A S : \A k : S \in kSubset(k, Unredeemed) => S \in SUBSET Unredeemed
    BY DEF kSubset
  <2>3. PICK S \in SUBSET Unredeemed :
          /\ redeemed' = [f \in DOMAIN redeemed \cup S |->
               IF f \in S THEN Payout(resolution.final, FillOf[f]) ELSE redeemed[f]]
          /\ escrow' = [a \in Assets |-> escrow[a] - Totals(S, a)]
          /\ available' = [u \in Accounts |-> [a \in Assets |-> available[u][a] + Credit(S, u, a)]]
    BY <1>5, <2>2 DEF RedeemFills
  <2>4. QED  BY <2>1, <2>3, Redemption
<1>6. QED  BY <1>1, <1>2, <1>3, <1>4, <1>5 DEF Next

\* The invariant of the money holds.
LEMMA MoneyHolds == Spec => []MoneyInv
<1>1. CaseInv /\ BondInv /\ MoneyInv /\ [Next]_vars => MoneyInv'
  BY MoneyStep
<1>2. QED  BY <1>1, MoneyInit, CaseHolds, BondHolds, PTL DEF Spec

\* The escrow of each asset holds exactly the collateral of the fills not redeemed,
\* every redeemed fill paid all of its own, and nobody holds more or less than what
\* he began with and what his fills paid.
THEOREM EscrowIsOwed == Spec => []EscrowBacksClaims
<1>1. ASSUME MoneyInv PROVE EscrowBacksClaims
  <2>1. ASSUME NEW a \in Assets PROVE escrow[a] = Totals(Unredeemed, a)
    <3>1. Unredeemed \in SUBSET FillIds
      BY <1>1 DEF MoneyInv, Unredeemed
    <3>2. QED  BY <1>1, <3>1, TotalsSum DEF MoneyInv
  <2>2. ASSUME NEW f \in DOMAIN redeemed
        PROVE  /\ {redeemed[f].buyer, redeemed[f].seller} \subseteq 0..FillOf[f].total
               /\ redeemed[f].buyer + redeemed[f].seller = FillOf[f].total
    BY <1>1 DEF MoneyInv, Exhausts
  <2>3. ASSUME NEW u \in Accounts, NEW a \in Assets
        PROVE  available[u][a] + (IF a = BondAsset THEN bonded[u] ELSE 0)
                 = (IF a = BondAsset THEN Funds[u] ELSE 0) + PaidTo(u, a)
    BY <1>1, PaidSum DEF MoneyInv, Balanced
  <2>4. QED  BY <2>1, <2>2, <2>3 DEF EscrowBacksClaims
<1>2. QED  BY <1>1, MoneyHolds, PTL

-------------------------------------------------------------------------------
(* The types of the rest.                                                    *)

BookInv ==
  /\ status \in [Assets -> {"open", "halted"}] /\ orders \in [Assets -> Nat]
  /\ evidence \subseteq Proposers

\* The invariant of the books holds at the start.
LEMMA BookInit == Init => BookInv
BY DEF Init, BookInv

\* Every step keeps it.
LEMMA BookStep ==
  ASSUME BookInv, [Next]_vars
  PROVE  BookInv'
<1>1. CASE \/ \E f \in FillIds : MatchOrder(f)
           \/ \E a \in Assets : SubmitOrder(a) \/ HaltBook(a)
  <2>1. CASE \E f \in FillIds : MatchOrder(f)
    <3>1. PICK f \in FillIds : MatchOrder(f)
      BY <2>1
    <3> DEFINE a == FillOf[f].asset
    <3>2. /\ orders[a] > 0 /\ orders' = [orders EXCEPT ![a] = @ - 1]
          /\ UNCHANGED <<status, evidence>> /\ a \in Assets
      BY <3>1, FillTerms DEF MatchOrder, panel
    <3>3. orders[a] - 1 \in Nat
      BY <3>2 DEF BookInv
    <3> HIDE DEF a
    <3>4. QED  BY <3>2, <3>3 DEF BookInv
  <2>2. CASE \E a \in Assets : SubmitOrder(a)
    BY <2>2 DEF SubmitOrder, panel, BookInv
  <2>3. CASE \E a \in Assets : HaltBook(a)
    BY <2>3 DEF HaltBook, panel, BookInv
  <2>4. QED  BY <1>1, <2>1, <2>2, <2>3
<1>2. CASE CloseBook
  <2>1. PICK left \in [Assets -> 0..MaxOrders] : orders' = left
    BY <1>2 DEF CloseBook
  <2>2. left \in [Assets -> Nat]
    BY AmountsAssumption
  <2>3. QED  BY <1>2, <2>1, <2>2 DEF CloseBook, panel, BookInv
<1>3. CASE \E u \in Accounts : ArchiveEvidence(u)
  BY <1>3 DEF ArchiveEvidence, trading, BookInv
<1>4. CASE \/ Tick \/ RedeemFills \/ UNCHANGED vars
           \/ \E u \in Accounts, r \in Results : ProposeResolution(u, r) \/ ChallengeResolution(u, r)
           \/ \E u \in Accounts, d \in {"proposal", "challenge", "recuse"} : BallotResolution(u, d)
           \/ \E u \in Accounts : FinalizeResolution(u)
  <2>1. UNCHANGED <<status, orders, evidence>>
    BY <1>4 DEF Tick, RedeemFills, ProposeResolution, ChallengeResolution, BallotResolution,
                FinalizeResolution, vars, trading, panel
  <2>2. QED  BY <2>1 DEF BookInv
<1>5. QED  BY <1>1, <1>2, <1>3, <1>4 DEF Next

\* The invariant of the books holds.
LEMMA BookHolds == Spec => []BookInv
<1>1. BookInv /\ [Next]_vars => BookInv'
  BY BookStep
<1>2. QED  BY <1>1, BookInit, PTL DEF Spec

\* The type invariant of the module.
THEOREM TypeCorrect == Spec => []TypeOK
<1>1. ASSUME CaseInv, BondInv, MoneyInv, BookInv PROVE TypeOK
  <2>1. bonded \in [Accounts -> Nat]
    <3>1. \A u \in Accounts : BondOf(u) \in Nat
      BY AmountsAssumption DEF BondOf
    <3>2. QED  BY <1>1, <3>1 DEF BondInv
  <2>2. escrow \in [Assets -> Nat]
    <3>1. ASSUME NEW a \in Assets PROVE SumFunctionOnSet(TotalOf, InAsset(Unredeemed, a)) \in Nat
      <4>1. Unredeemed \in SUBSET FillIds
        BY <1>1 DEF MoneyInv, Unredeemed
      <4>2. IsFiniteSet(InAsset(Unredeemed, a)) /\ \A f \in InAsset(Unredeemed, a) : TotalOf[f] \in Nat
        BY <4>1, AssetSets, FillTerms
      <4>3. QED  BY <4>2, SumNat
    <3>2. QED  BY <1>1, <3>1 DEF MoneyInv
  <2>3. DOMAIN ballots \subseteq Reviewers
    BY <1>1 DEF CaseInv, Actors, Voters
  <2>4. /\ resolution.state \in {"none", "proposed", "challenged", "finalized"}
        /\ {resolution.proposer, resolution.challenger, resolution.finalizer} \subseteq Accounts \cup {Null}
    BY <1>1, CaseFields DEF CaseInv, CaseState
  <2>5. QED  BY <1>1, <2>1, <2>2, <2>3, <2>4 DEF TypeOK, CaseInv, MoneyInv, BookInv
<1>2. QED  BY <1>1, CaseHolds, BondHolds, MoneyHolds, BookHolds, PTL

(***************************************************************************)
(* The Merkle manifests.                                                   *)
(***************************************************************************)

\* What is above a level: half as many nodes, each the pair of two of its own.
LEMMA AboveLevel ==
  ASSUME NEW level, NEW n \in Nat \ {0}, Len(level) = n
  PROVE  /\ Len(Above(level)) = (n + 1) \div 2
         /\ (n + 1) \div 2 \in Nat \ {0}
         /\ \A i \in 1..((n + 1) \div 2) :
              /\ 2 * i - 1 \in 1..n
              /\ Above(level)[i] = Pair(level[2 * i - 1], Paired(level, 2 * i - 1))
<1> DEFINE m == (n + 1) \div 2
           T == {Above(level)[i] : i \in 1..m}
<1>1. m \in Nat \ {0}
  OBVIOUS
<1>2. Above(level) \in [1..m -> T]
  BY DEF Above
<1>3. Len(Above(level)) = m
  <2> DEFINE a == Above(level)
  <2>1. a \in [1..m -> T]
    BY <1>2
  <2> HIDE DEF a, T, m
  <2>2. a \in Seq(T)
    BY <1>1, <2>1
  <2>3. Len(a) = m
    BY <1>1, <2>1, <2>2
  <2>4. QED  BY <2>3 DEF a
<1>4. QED  BY <1>1, <1>3 DEF Above

\* The levels of a tree, by their recursion.
LEMMA LevelsRecursion ==
  ASSUME NEW leaves, Len(leaves) \in Nat
  PROVE  /\ Levels(leaves)[0] = leaves
         /\ \A k \in 1..Len(leaves) : Levels(leaves)[k] = Above(Levels(leaves)[k - 1])
<1> DEFINE n == Len(leaves)
           Solves(s, m) == s = [k \in 0..m |-> IF k = 0 THEN leaves ELSE Above(s[k - 1])]
           Solved == {m \in 0..n : \E s : Solves(s, m)}
<1>1. \E s : Solves(s, 0)
  <2>1. Solves([k \in 0..0 |-> leaves], 0)
    OBVIOUS
  <2>2. QED  BY <2>1
<1>2. ASSUME NEW m \in 0..n, m # 0, \E s : Solves(s, m - 1)
      PROVE  \E s : Solves(s, m)
  <2>1. PICK s : Solves(s, m - 1)
    BY <1>2
  <2> DEFINE t == [k \in 0..m |-> IF k = m THEN Above(s[m - 1]) ELSE s[k]]
  <2>2. ASSUME NEW k \in 0..m
        PROVE  t[k] = IF k = 0 THEN leaves ELSE Above(t[k - 1])
    <3>1. CASE k = m
      BY <1>2, <3>1
    <3>2. CASE k # m
      <4>1. k \in 0..(m - 1) /\ t[k] = s[k] /\ (k # 0 => t[k - 1] = s[k - 1])
        BY <1>2, <3>2
      <4>2. QED  BY <2>1, <4>1
    <3>3. QED  BY <3>1, <3>2
  <2>3. t = [k \in 0..m |-> t[k]]
    OBVIOUS
  <2> HIDE DEF t
  <2>4. Solves(t, m)
    BY <2>2, <2>3
  <2>5. QED  BY <2>4
<1>3. 0 \in Solved /\ \A m \in 1..n : m - 1 \in Solved => m \in Solved
  <2> HIDE DEF Solves
  <2>1. QED  BY <1>1, <1>2
<1>4. \E s : Solves(s, n)
  <2>1. n \in Solved
    <3> HIDE DEF Solved
    <3>1. n \in Nat
      OBVIOUS
    <3> HIDE DEF n
    <3>2. \A m \in 0..n : m \in Solved
      BY <1>3, <3>1, Climbing
    <3>3. QED  BY <3>1, <3>2
  <2> HIDE DEF Solves
  <2>2. QED  BY <2>1
<1> DEFINE L == Levels(leaves)
<1>5. L = CHOOSE s : Solves(s, n)
  BY DEF Levels
<1>6. Solves(L, n)
  <2> HIDE DEF Solves, L
  <2>1. QED  BY <1>4, <1>5
<1>7. QED  BY <1>6

\* The places on the way to the root, by their recursion.
LEMMA WayRecursion ==
  ASSUME NEW leaves, Len(leaves) \in Nat, NEW i
  PROVE  /\ Way(leaves, i)[0] = i
         /\ \A k \in 1..Len(leaves) : Way(leaves, i)[k] = (Way(leaves, i)[k - 1] + 1) \div 2
<1> DEFINE n == Len(leaves)
           Solves(s, m) == s = [k \in 0..m |-> IF k = 0 THEN i ELSE (s[k - 1] + 1) \div 2]
           Solved == {m \in 0..n : \E s : Solves(s, m)}
<1>1. \E s : Solves(s, 0)
  <2>1. Solves([k \in 0..0 |-> i], 0)
    OBVIOUS
  <2>2. QED  BY <2>1
<1>2. ASSUME NEW m \in 0..n, m # 0, \E s : Solves(s, m - 1)
      PROVE  \E s : Solves(s, m)
  <2>1. PICK s : Solves(s, m - 1)
    BY <1>2
  <2> DEFINE t == [k \in 0..m |-> IF k = m THEN (s[m - 1] + 1) \div 2 ELSE s[k]]
  <2>2. ASSUME NEW k \in 0..m
        PROVE  t[k] = IF k = 0 THEN i ELSE (t[k - 1] + 1) \div 2
    <3>1. CASE k = m
      BY <1>2, <3>1
    <3>2. CASE k # m
      <4>1. k \in 0..(m - 1) /\ t[k] = s[k] /\ (k # 0 => t[k - 1] = s[k - 1])
        BY <1>2, <3>2
      <4>2. QED  BY <2>1, <4>1
    <3>3. QED  BY <3>1, <3>2
  <2>3. t = [k \in 0..m |-> t[k]]
    OBVIOUS
  <2> HIDE DEF t
  <2>4. Solves(t, m)
    BY <2>2, <2>3
  <2>5. QED  BY <2>4
<1>3. 0 \in Solved /\ \A m \in 1..n : m - 1 \in Solved => m \in Solved
  <2> HIDE DEF Solves
  <2>1. QED  BY <1>1, <1>2
<1>4. \E s : Solves(s, n)
  <2>1. n \in Solved
    <3> HIDE DEF Solved
    <3>1. n \in Nat
      OBVIOUS
    <3> HIDE DEF n
    <3>2. \A m \in 0..n : m \in Solved
      BY <1>3, <3>1, Climbing
    <3>3. QED  BY <3>1, <3>2
  <2> HIDE DEF Solves
  <2>2. QED  BY <2>1
<1> DEFINE W == Way(leaves, i)
<1>5. W = CHOOSE s : Solves(s, n)
  BY DEF Way
<1>6. Solves(W, n)
  <2> HIDE DEF Solves, W
  <2>1. QED  BY <1>4, <1>5
<1>7. QED  BY <1>6

\* The nodes a proof leads to, by their recursion.
LEMMA NodesRecursion ==
  ASSUME NEW leaf, NEW proof, Len(proof) \in Nat
  PROVE  /\ Nodes(leaf, proof)[0] = leaf
         /\ \A k \in 1..Len(proof) : Nodes(leaf, proof)[k] = Pair(Nodes(leaf, proof)[k - 1], proof[k])
<1> DEFINE n == Len(proof)
           Solves(s, m) == s = [k \in 0..m |-> IF k = 0 THEN leaf ELSE Pair(s[k - 1], proof[k])]
           Solved == {m \in 0..n : \E s : Solves(s, m)}
<1>1. \E s : Solves(s, 0)
  <2>1. Solves([k \in 0..0 |-> leaf], 0)
    OBVIOUS
  <2>2. QED  BY <2>1
<1>2. ASSUME NEW m \in 0..n, m # 0, \E s : Solves(s, m - 1)
      PROVE  \E s : Solves(s, m)
  <2>1. PICK s : Solves(s, m - 1)
    BY <1>2
  <2> DEFINE t == [k \in 0..m |-> IF k = m THEN Pair(s[m - 1], proof[m]) ELSE s[k]]
  <2>2. ASSUME NEW k \in 0..m
        PROVE  t[k] = IF k = 0 THEN leaf ELSE Pair(t[k - 1], proof[k])
    <3>1. CASE k = m
      BY <1>2, <3>1
    <3>2. CASE k # m
      <4>1. k \in 0..(m - 1) /\ t[k] = s[k] /\ (k # 0 => t[k - 1] = s[k - 1])
        BY <1>2, <3>2
      <4>2. QED  BY <2>1, <4>1
    <3>3. QED  BY <3>1, <3>2
  <2>3. t = [k \in 0..m |-> t[k]]
    OBVIOUS
  <2> HIDE DEF t
  <2>4. Solves(t, m)
    BY <2>2, <2>3
  <2>5. QED  BY <2>4
<1>3. 0 \in Solved /\ \A m \in 1..n : m - 1 \in Solved => m \in Solved
  <2> HIDE DEF Solves
  <2>1. QED  BY <1>1, <1>2
<1>4. \E s : Solves(s, n)
  <2>1. n \in Solved
    <3> HIDE DEF Solved
    <3>1. n \in Nat
      OBVIOUS
    <3> HIDE DEF n
    <3>2. \A m \in 0..n : m \in Solved
      BY <1>3, <3>1, Climbing
    <3>3. QED  BY <3>1, <3>2
  <2> HIDE DEF Solves
  <2>2. QED  BY <2>1
<1> DEFINE N == Nodes(leaf, proof)
<1>5. N = CHOOSE s : Solves(s, n)
  BY DEF Nodes
<1>6. Solves(N, n)
  <2> HIDE DEF Solves, N
  <2>1. QED  BY <1>4, <1>5
<1>7. QED  BY <1>6

\* A pair tells its two nodes, and is no leaf.
LEMMA PairFacts ==
  ASSUME NEW x, NEW y, NEW s
  PROVE  /\ Pair(x, s) = Pair(y, s) => x = y
         /\ \A z : Pair(x, s) = Pair(y, z) => s = y \/ s = z
         /\ Pair(x, s) = Pair(s, x)
         /\ Pair(x, s) # NoRoot
<1>1. \A a, b, c, d : Pair(a, b) = Pair(c, d) <=> {a, b} = {c, d}
  BY DEF Pair
<1>2. Pair(x, s) = Pair(y, s) => x = y
  BY <1>1
<1>3. \A z : Pair(x, s) = Pair(y, z) => s = y \/ s = z
  BY <1>1
<1>4. Pair(x, s) = Pair(s, x)
  BY <1>1
<1>5. Pair(x, s) # NoRoot
  <2>1. {x, s} # {}
    OBVIOUS
  <2>2. Pair(x, s).pair = {x, s} /\ NoRoot.pair = {}
    BY DEF Pair, NoRoot
  <2>3. QED  BY <2>1, <2>2
<1>6. QED  BY <1>2, <1>3, <1>4, <1>5

\* A leaf is no inner node, and tells its batch, index, recipient and amount.
LEMMA LeafFacts ==
  ASSUME NEW b, NEW i, NEW o, NEW a
  PROVE  /\ \A l, r : Leaf(b, i, o, a) # Pair(l, r)
         /\ Leaf(b, i, o, a) # NoRoot
         /\ \A c, j, p, d : Leaf(b, i, o, a) = Leaf(c, j, p, d) => b = c /\ i = j /\ o = p /\ a = d
<1>1. DOMAIN Leaf(b, i, o, a) = {"batch", "index", "recipient", "amount"}
  BY DEF Leaf
<1>2. \A l, r : DOMAIN Pair(l, r) = {"pair"}
  BY DEF Pair
<1>3. DOMAIN NoRoot = {"pair"}
  BY DEF NoRoot
<1>4. {"batch", "index", "recipient", "amount"} # {"pair"}
  OBVIOUS
<1>5. ASSUME NEW c, NEW j, NEW p, NEW d, Leaf(b, i, o, a) = Leaf(c, j, p, d)
      PROVE  b = c /\ i = j /\ o = p /\ a = d
  <2>1. \A w, x, y, z : /\ Leaf(w, x, y, z).batch = w /\ Leaf(w, x, y, z).index = x
                        /\ Leaf(w, x, y, z).recipient = y /\ Leaf(w, x, y, z).amount = z
    BY DEF Leaf
  <2>2. QED  BY <1>5, <2>1
<1>6. \A l, r : Leaf(b, i, o, a) # Pair(l, r)
  BY <1>1, <1>2, <1>4
<1>7. Leaf(b, i, o, a) # NoRoot
  BY <1>1, <1>3, <1>4
<1>8. QED  BY <1>5, <1>6, <1>7

\* A node and its sibling make the node above them.
LEMMA SiblingPair ==
  ASSUME NEW level, NEW n \in Nat \ {0}, Len(level) = n, NEW p \in 1..n
  PROVE  /\ (p + 1) \div 2 \in 1..Len(Above(level))
         /\ Above(level)[(p + 1) \div 2] = Pair(level[p], Sibling(level, p))
         /\ \E q \in 1..n : Sibling(level, p) = level[q]
<1> DEFINE q == (p + 1) \div 2
<1>1. q \in 1..((n + 1) \div 2)
  OBVIOUS
<1>2. /\ Len(Above(level)) = (n + 1) \div 2
      /\ Above(level)[q] = Pair(level[2 * q - 1], Paired(level, 2 * q - 1))
  BY <1>1, AboveLevel
<1>3. CASE p % 2 = 1
  <2>1. 2 * q - 1 = p
    BY <1>3
  <2>2. Sibling(level, p) = Paired(level, p)
    BY <1>3 DEF Sibling
  <2>3. \E r \in 1..n : Paired(level, p) = level[r]
    <3>1. CASE p < n
      <4>1. Paired(level, p) = level[p + 1] /\ p + 1 \in 1..n
        BY <3>1 DEF Paired
      <4>2. QED  BY <4>1
    <3>2. CASE ~(p < n)
      <4>1. Paired(level, p) = level[p]
        BY <3>2 DEF Paired
      <4>2. QED  BY <4>1
    <3>3. QED  BY <3>1, <3>2
  <2>4. QED  BY <1>1, <1>2, <2>1, <2>2, <2>3
<1>4. CASE p % 2 # 1
  <2>1. 2 * q - 1 = p - 1 /\ p - 1 \in 1..n /\ p - 1 < n
    BY <1>4
  <2>2. Sibling(level, p) = level[p - 1]
    BY <1>4 DEF Sibling
  <2>3. Paired(level, p - 1) = level[p]
    <3>1. p - 1 + 1 = p
      OBVIOUS
    <3>2. QED  BY <2>1, <3>1 DEF Paired
  <2>4. Pair(level[p - 1], level[p]) = Pair(level[p], level[p - 1])
    BY PairFacts
  <2>5. Above(level)[q] = Pair(level[p - 1], level[p])
    BY <1>2, <2>1, <2>3
  <2>6. QED  BY <1>1, <1>2, <2>1, <2>2, <2>4, <2>5
<1>5. QED  BY <1>3, <1>4

\* The tree over some leaves: its levels halve down to one node, and every node
\* above the leaves is the pair of two nodes of the level below.
LEMMA TreeFacts ==
  ASSUME NEW leaves, NEW n \in Nat \ {0}, Len(leaves) = n
  PROVE  /\ Levels(leaves)[0] = leaves
         /\ \A k \in 0..n : Len(Levels(leaves)[k]) \in Nat \ {0}
         /\ \A k \in 1..n : Levels(leaves)[k] = Above(Levels(leaves)[k - 1])
         /\ \A k \in 1..n : Len(Levels(leaves)[k]) = (Len(Levels(leaves)[k - 1]) + 1) \div 2
<1> DEFINE L == Levels(leaves)
           G == {k \in 0..n : Len(L[k]) \in Nat \ {0}}
<1>1. L[0] = leaves /\ \A k \in 1..n : L[k] = Above(L[k - 1])
  BY LevelsRecursion
<1> HIDE DEF L
<1>2. 0 \in G
  BY <1>1
<1>3. ASSUME NEW m \in 1..n, Len(L[m - 1]) \in Nat \ {0}
      PROVE  Len(L[m]) \in Nat \ {0} /\ Len(L[m]) = (Len(L[m - 1]) + 1) \div 2
  <2>1. \A level : Len(level) \in Nat \ {0} =>
          Len(Above(level)) = (Len(level) + 1) \div 2 /\ (Len(level) + 1) \div 2 \in Nat \ {0}
    BY AboveLevel
  <2>2. L[m] = Above(L[m - 1])
    BY <1>1
  <2>3. QED  BY <1>3, <2>1, <2>2
<1>4. \A m \in 0..n : m \in G
  <2>1. ASSUME NEW m \in 1..n, m - 1 \in G PROVE m \in G
    <3>1. m \in 0..n /\ Len(L[m - 1]) \in Nat \ {0}
      BY <2>1
    <3>2. Len(L[m]) \in Nat \ {0}
      BY <1>3, <3>1
    <3>3. QED  BY <3>1, <3>2
  <2> HIDE DEF G
  <2>2. QED  BY <1>2, <2>1, Climbing
<1>5. ASSUME NEW m \in 1..n PROVE Len(L[m]) = (Len(L[m - 1]) + 1) \div 2
  <2>1. m - 1 \in 0..n
    OBVIOUS
  <2>2. Len(L[m - 1]) \in Nat \ {0}
    BY <1>4, <2>1
  <2>3. QED  BY <1>3, <2>2
<1>6. QED  BY <1>1, <1>4, <1>5 DEF L

\* A tree ends: some level has one node.
LEMMA HeightFacts ==
  ASSUME NEW leaves, NEW n \in Nat \ {0}, Len(leaves) = n
  PROVE  Height(leaves) \in 0..n /\ Len(Levels(leaves)[Height(leaves)]) = 1
<1> DEFINE L == Levels(leaves)
           l(k) == Len(L[k])
           G == {k \in 0..n : l(k) = 1 \/ l(k) <= n - k}
           One == {k \in 0..n : l(k) = 1}
<1>1. /\ L[0] = leaves
      /\ \A k \in 0..n : l(k) \in Nat \ {0}
      /\ \A k \in 1..n : l(k) = (l(k - 1) + 1) \div 2
  BY TreeFacts
<1>2. Height(leaves) = CHOOSE k \in 0..n : l(k) = 1 /\ \A j \in 0..(k - 1) : l(j) > 1
  BY DEF Height
<1> HIDE DEF L
<1>3. 0 \in G
  <2>1. l(0) = n
    BY <1>1
  <2>2. 0 \in 0..n /\ n <= n - 0
    OBVIOUS
  <2> HIDE DEF l
  <2>3. QED  BY <2>1, <2>2
<1>4. ASSUME NEW m \in 1..n, m - 1 \in G PROVE m \in G
  <2>1. l(m) = (l(m - 1) + 1) \div 2 /\ l(m - 1) \in Nat \ {0}
    <3>1. m - 1 \in 0..n
      OBVIOUS
    <3> HIDE DEF l, G
    <3>2. QED  BY <1>1, <3>1
  <2>2. l(m - 1) = 1 \/ l(m - 1) <= n - (m - 1)
    BY <1>4
  <2> DEFINE x == l(m - 1)
             y == l(m)
  <2>3. y = (x + 1) \div 2 /\ x \in Nat \ {0} /\ (x = 1 \/ x <= n - (m - 1))
    BY <2>1, <2>2
  <2> HIDE DEF x, y
  <2>4. y = 1 \/ y <= n - m
    BY <2>3
  <2>5. QED  BY <2>4 DEF y
<1>5. n \in G
  <2>1. \A m \in 0..n : m \in G
    <3> HIDE DEF G
    <3>1. QED  BY <1>3, <1>4, Climbing
  <2>2. QED  BY <2>1
<1>6. n \in One
  <2>1. l(n) \in Nat \ {0} /\ (l(n) = 1 \/ l(n) <= n - n)
    BY <1>1, <1>5
  <2>2. l(n) = 1
    <3> HIDE DEF l
    <3>1. QED  BY <2>1
  <2>3. QED  BY <2>2
<1>7. PICK k \in One : \A j \in One : k <= j
  <2>1. One \subseteq Nat /\ One # {}
    BY <1>6
  <2> HIDE DEF One
  <2>2. QED  BY <2>1, LeastNat
<1>8. ASSUME NEW j \in 0..(k - 1) PROVE l(j) > 1
  <2>1. j \in 0..n /\ j \notin One
    BY <1>7
  <2>2. l(j) \in Nat \ {0} /\ l(j) # 1
    BY <1>1, <2>1
  <2> HIDE DEF l
  <2>3. QED  BY <2>2
<1>9. \E m \in 0..n : l(m) = 1 /\ \A j \in 0..(m - 1) : l(j) > 1
  BY <1>7, <1>8
<1>10. QED
  <2> HIDE DEF l
  <2>1. Height(leaves) \in 0..n /\ l(Height(leaves)) = 1
    BY <1>2, <1>9
  <2>2. QED  BY <2>1 DEF l, L

\* A node above the leaves is the pair of two nodes of the level below.
LEMMA UpperNode ==
  ASSUME NEW leaves, NEW n \in Nat \ {0}, Len(leaves) = n,
         NEW k \in 1..n, NEW q \in 1..Len(Levels(leaves)[k])
  PROVE  \E l, r \in 1..Len(Levels(leaves)[k - 1]) :
           Levels(leaves)[k][q] = Pair(Levels(leaves)[k - 1][l], Levels(leaves)[k - 1][r])
<1> DEFINE level == Levels(leaves)[k - 1]
           m == Len(level)
<1>1. k - 1 \in 0..n
  OBVIOUS
<1>2. m \in Nat \ {0} /\ Levels(leaves)[k] = Above(level)
      /\ Len(Levels(leaves)[k]) = (m + 1) \div 2
  BY <1>1, TreeFacts
<1>3. 2 * q - 1 \in 1..m /\ Above(level)[q] = Pair(level[2 * q - 1], Paired(level, 2 * q - 1))
  <2> HIDE DEF level
  <2>1. q \in 1..((m + 1) \div 2)
    BY <1>2
  <2> DEFINE mm == m
  <2>2. mm \in Nat \ {0} /\ Len(level) = mm /\ q \in 1..((mm + 1) \div 2)
    BY <1>2, <2>1
  <2> HIDE DEF mm
  <2>3. 2 * q - 1 \in 1..mm /\ Above(level)[q] = Pair(level[2 * q - 1], Paired(level, 2 * q - 1))
    BY <2>2, AboveLevel
  <2>4. QED  BY <2>2, <2>3
<1>4. \E r \in 1..m : Paired(level, 2 * q - 1) = level[r]
  <2>1. CASE 2 * q - 1 < m
    <3>1. Paired(level, 2 * q - 1) = level[2 * q - 1 + 1]
      BY <2>1 DEF Paired
    <3>2. 2 * q - 1 + 1 \in 1..m
      <4> HIDE DEF m
      <4>1. QED  BY <1>2, <1>3, <2>1
    <3>3. QED  BY <3>1, <3>2
  <2>2. CASE ~(2 * q - 1 < m)
    <3>1. Paired(level, 2 * q - 1) = level[2 * q - 1]
      BY <2>2 DEF Paired
    <3>2. QED  BY <1>3, <3>1
  <2>3. QED  BY <2>1, <2>2
<1>5. QED
  <2> HIDE DEF level
  <2>1. PICK r \in 1..m : Paired(level, 2 * q - 1) = level[r]
    BY <1>4
  <2>2. Levels(leaves)[k][q] = Pair(level[2 * q - 1], level[r])
    BY <1>2, <1>3, <2>1
  <2>3. QED  BY <1>3, <2>2 DEF level

\* The way from a leaf stays inside the tree.
LEMMA WayInside ==
  ASSUME NEW leaves, NEW n \in Nat \ {0}, Len(leaves) = n, NEW i \in 1..n
  PROVE  \A k \in 0..n : Way(leaves, i)[k] \in 1..Len(Levels(leaves)[k])
<1> DEFINE L == Levels(leaves)
           W == Way(leaves, i)
           G == {k \in 0..n : W[k] \in 1..Len(L[k])}
<1>1. /\ L[0] = leaves
      /\ \A k \in 0..n : Len(L[k]) \in Nat \ {0}
      /\ \A k \in 1..n : Len(L[k]) = (Len(L[k - 1]) + 1) \div 2
  BY TreeFacts
<1>2. W[0] = i /\ \A k \in 1..n : W[k] = (W[k - 1] + 1) \div 2
  BY WayRecursion
<1> HIDE DEF L, W
<1>3. 0 \in G
  BY <1>1, <1>2
<1>4. ASSUME NEW m \in 1..n, m - 1 \in G PROVE m \in G
  <2>1. W[m - 1] \in 1..Len(L[m - 1])
    BY <1>4
  <2>2. m - 1 \in 0..n
    OBVIOUS
  <2>3. Len(L[m - 1]) \in Nat \ {0}
    BY <1>1, <2>2
  <2>4. Len(L[m]) = (Len(L[m - 1]) + 1) \div 2 /\ W[m] = (W[m - 1] + 1) \div 2
    BY <1>1, <1>2
  <2>5. W[m] \in 1..Len(L[m])
    <3>1. \A w, l \in Nat : w \in 1..l => (w + 1) \div 2 \in 1..((l + 1) \div 2)
      OBVIOUS
    <3>2. W[m - 1] \in Nat /\ Len(L[m - 1]) \in Nat
      BY <2>1, <2>3
    <3>3. (W[m - 1] + 1) \div 2 \in 1..((Len(L[m - 1]) + 1) \div 2)
      BY <2>1, <3>1, <3>2, Zenon
    <3>4. QED  BY <2>4, <3>3
  <2>6. QED  BY <2>5
<1>5. QED
  <2>1. \A m \in 0..n : m \in G
    <3> HIDE DEF G
    <3>1. QED  BY <1>3, <1>4, Climbing
  <2>2. QED  BY <2>1 DEF L, W

\* Every step of the proof of leaf i leads to the node above on its way.
LEMMA ProofSteps ==
  ASSUME NEW leaves, NEW n \in Nat \ {0}, Len(leaves) = n, NEW i \in 1..n
  PROVE  /\ Len(MerkleProof(leaves, i)) = Height(leaves)
         /\ \A k \in 1..Height(leaves) :
              /\ MerkleProof(leaves, i)[k] = Sibling(Levels(leaves)[k - 1], Way(leaves, i)[k - 1])
              /\ Levels(leaves)[k][Way(leaves, i)[k]] =
                   Pair(Levels(leaves)[k - 1][Way(leaves, i)[k - 1]], MerkleProof(leaves, i)[k])
              /\ \E q \in 1..Len(Levels(leaves)[k - 1]) :
                   MerkleProof(leaves, i)[k] = Levels(leaves)[k - 1][q]
<1> DEFINE L == Levels(leaves)
           W == Way(leaves, i)
           H == Height(leaves)
           P == MerkleProof(leaves, i)
           T == {P[k] : k \in 1..H}
<1>1. H \in 0..n
  BY HeightFacts
<1>2. P = [k \in 1..H |-> Sibling(L[k - 1], W[k - 1])]
  BY DEF MerkleProof
<1>3. Len(P) = H
  <2>1. P \in [1..H -> T] /\ H \in Nat
    BY <1>1, <1>2
  <2> HIDE DEF P, T, H
  <2>2. P \in Seq(T)
    BY <2>1
  <2>3. QED  BY <2>1, <2>2
<1>4. ASSUME NEW k \in 1..H
      PROVE  /\ P[k] = Sibling(L[k - 1], W[k - 1])
             /\ L[k][W[k]] = Pair(L[k - 1][W[k - 1]], P[k])
             /\ \E q \in 1..Len(L[k - 1]) : P[k] = L[k - 1][q]
  <2>1. P[k] = Sibling(L[k - 1], W[k - 1])
    BY <1>2
  <2>2. k - 1 \in 0..n /\ k \in 1..n
    BY <1>1
  <2> DEFINE level == L[k - 1]
             m == Len(level)
             p == W[k - 1]
  <2>3. L[k] = Above(level) /\ m \in Nat \ {0}
    BY <2>2, TreeFacts
  <2>4. p \in 1..m
    BY <2>2, WayInside
  <2>5. W[k] = (p + 1) \div 2
    BY <2>2, WayRecursion
  <2>6. /\ Above(level)[(p + 1) \div 2] = Pair(level[p], Sibling(level, p))
        /\ \E q \in 1..m : Sibling(level, p) = level[q]
    <3>1. PICK s : s = level
      OBVIOUS
    <3>2. PICK x : x = p
      OBVIOUS
    <3> HIDE DEF level, p, L, W
    <3>3. Len(s) \in Nat \ {0} /\ x \in 1..Len(s)
      BY <2>3, <2>4, <3>1, <3>2
    <3>4. /\ Above(s)[(x + 1) \div 2] = Pair(s[x], Sibling(s, x))
          /\ \E q \in 1..Len(s) : Sibling(s, x) = s[q]
      BY <3>3, SiblingPair
    <3>5. QED  BY <3>1, <3>2, <3>4
  <2> HIDE DEF P, L, W, H
  <2>7. QED  BY <2>1, <2>3, <2>5, <2>6
<1>5. QED  BY <1>3, <1>4

\* Completeness: the proof that is published with an item proves it.
LEMMA ProofsProve ==
  ASSUME NEW leaves, NEW n \in Nat \ {0}, Len(leaves) = n, NEW i \in 1..n
  PROVE  /\ Proves(leaves[i], MerkleProof(leaves, i), MerkleRoot(leaves))
         /\ Nodes(leaves[i], MerkleProof(leaves, i))[Height(leaves)] = MerkleRoot(leaves)
<1> DEFINE L == Levels(leaves)
           W == Way(leaves, i)
           H == Height(leaves)
           P == MerkleProof(leaves, i)
           N == Nodes(leaves[i], P)
           G == {k \in 0..H : N[k] = L[k][W[k]]}
<1>1. H \in 0..n /\ H \in Nat /\ Len(L[H]) = 1
  BY HeightFacts
<1>2. Len(P) = H /\ \A k \in 1..H : L[k][W[k]] = Pair(L[k - 1][W[k - 1]], P[k])
  BY ProofSteps
<1>3. N[0] = leaves[i] /\ \A k \in 1..H : N[k] = Pair(N[k - 1], P[k])
  BY <1>1, <1>2, NodesRecursion
<1>4. L[0] = leaves /\ W[0] = i
  BY TreeFacts, WayRecursion
<1>5. W[H] \in 1..Len(L[H])
  BY <1>1, WayInside
<1>6. W[H] = 1
  BY <1>1, <1>5
<1>7. MerkleRoot(leaves) = L[H][1] /\ (Proves(leaves[i], P, MerkleRoot(leaves)) <=> N[Len(P)] = MerkleRoot(leaves))
  BY DEF MerkleRoot, Proves
<1> HIDE DEF L, W, H, P, N
<1>8. 0 \in G
  BY <1>1, <1>3, <1>4
<1>9. ASSUME NEW m \in 1..H, m - 1 \in G PROVE m \in G
  <2>1. N[m - 1] = L[m - 1][W[m - 1]]
    BY <1>9
  <2>2. N[m] = Pair(N[m - 1], P[m]) /\ L[m][W[m]] = Pair(L[m - 1][W[m - 1]], P[m])
    BY <1>2, <1>3
  <2>3. m \in 0..H
    BY <1>1
  <2>4. QED  BY <2>1, <2>2, <2>3
<1>10. \A m \in 0..H : m \in G
  <2> HIDE DEF G
  <2>1. QED  BY <1>1, <1>8, <1>9, Climbing
<1>11. N[H] = L[H][W[H]]
  BY <1>1, <1>10
<1>12. QED  BY <1>2, <1>6, <1>7, <1>11 DEF P, N, H

\* Two leaves that one proof leads to one node are the same.
LEMMA SameProof ==
  ASSUME NEW x, NEW y, NEW proof, NEW n \in Nat, Len(proof) = n,
         Nodes(x, proof)[n] = Nodes(y, proof)[n]
  PROVE  x = y
<1> DEFINE X == Nodes(x, proof)
           Y == Nodes(y, proof)
           G == {k \in 0..n : X[n - k] = Y[n - k]}
<1>1. /\ X[0] = x /\ \A k \in 1..n : X[k] = Pair(X[k - 1], proof[k])
      /\ Y[0] = y /\ \A k \in 1..n : Y[k] = Pair(Y[k - 1], proof[k])
  BY NodesRecursion
<1>2. X[n] = Y[n]
  OBVIOUS
<1> HIDE DEF X, Y
<1>3. 0 \in G
  BY <1>2
<1>4. ASSUME NEW m \in 1..n, m - 1 \in G PROVE m \in G
  <2>1. PICK k : k = n - (m - 1)
    OBVIOUS
  <2>2. k \in 1..n /\ k - 1 = n - m /\ m \in 0..n
    BY <2>1
  <2>3. X[k] = Y[k]
    BY <1>4, <2>1
  <2>4. X[k] = Pair(X[k - 1], proof[k]) /\ Y[k] = Pair(Y[k - 1], proof[k])
    BY <1>1, <2>2
  <2>5. X[k - 1] = Y[k - 1]
    <3>1. \A a, b, s : Pair(a, s) = Pair(b, s) => a = b
      BY PairFacts
    <3>2. QED  BY <2>3, <2>4, <3>1
  <2>6. QED  BY <2>2, <2>5
<1>5. \A m \in 0..n : m \in G
  <2> HIDE DEF G
  <2>1. QED  BY <1>3, <1>4, Climbing
<1>6. X[n - n] = Y[n - n]
  BY <1>5
<1>7. QED  BY <1>1, <1>6

\* What is not a pair; leaves are not.
PairFree(x) == \A l, r : x # Pair(l, r)
AllFree(s) == \A i \in 1..Len(s) : PairFree(s[i])
Apart(as, bs) == \A i \in 1..Len(as), j \in 1..Len(bs) : as[i] # bs[j]

\* A node tells the pair it was made of, up to order.
LEMMA PairTells == \A x, s, y, z : Pair(x, s) = Pair(y, z) => s = y \/ s = z
<1>1. ASSUME NEW x, NEW s, NEW y, NEW z, Pair(x, s) = Pair(y, z) PROVE s = y \/ s = z
  BY <1>1, PairFacts
<1>2. QED  BY <1>1

\* Trees over different leaves have no node in common.
LEMMA TreesApart ==
  ASSUME NEW as, NEW na \in Nat \ {0}, Len(as) = na,
         NEW bs, NEW nb \in Nat \ {0}, Len(bs) = nb,
         Apart(as, bs),
         AllFree(as),
         AllFree(bs)
  PROVE  \A j \in 0..na, k \in 0..nb :
           \A p \in 1..Len(Levels(as)[j]), q \in 1..Len(Levels(bs)[k]) :
             Levels(as)[j][p] # Levels(bs)[k][q]
<1> DEFINE A == Levels(as)
           B == Levels(bs)
           G == {j \in 0..na : \A k \in 0..nb :
                   \A p \in 1..Len(A[j]), q \in 1..Len(B[k]) : A[j][p] # B[k][q]}
<1>1. A[0] = as /\ B[0] = bs
  BY TreeFacts
<1>2. \A k \in 1..na : \A q \in 1..Len(A[k]) :
        \E l, r \in 1..Len(A[k - 1]) : A[k][q] = Pair(A[k - 1][l], A[k - 1][r])
  BY UpperNode
<1>3. \A k \in 1..nb : \A q \in 1..Len(B[k]) :
        \E l, r \in 1..Len(B[k - 1]) : B[k][q] = Pair(B[k - 1][l], B[k - 1][r])
  BY UpperNode
<1>0. /\ \A i \in 1..na, j \in 1..nb : as[i] # bs[j]
      /\ \A i \in 1..na : PairFree(as[i])
      /\ \A j \in 1..nb : PairFree(bs[j])
  BY DEF Apart, AllFree
<1> HIDE DEF A, B
<1>4. 0 \in G
  <2> SUFFICES ASSUME NEW k \in 0..nb, NEW p \in 1..Len(A[0]), NEW q \in 1..Len(B[k])
               PROVE  A[0][p] # B[k][q]
    OBVIOUS
  <2>1. CASE k = 0
    BY <1>0, <1>1, <2>1
  <2>2. CASE k # 0
    <3>1. k \in 1..nb
      BY <2>2
    <3>2. PICK l, r \in 1..Len(B[k - 1]) : B[k][q] = Pair(B[k - 1][l], B[k - 1][r])
      BY <1>3, <3>1
    <3>3. QED  BY <1>0, <1>1, <3>2 DEF PairFree
  <2>3. QED  BY <2>1, <2>2
<1>5. ASSUME NEW m \in 1..na, m - 1 \in G PROVE m \in G
  <2> SUFFICES ASSUME NEW k \in 0..nb, NEW p \in 1..Len(A[m]), NEW q \in 1..Len(B[k]),
                      A[m][p] = B[k][q]
               PROVE  FALSE
    OBVIOUS
  <2>1. PICK l, r \in 1..Len(A[m - 1]) : A[m][p] = Pair(A[m - 1][l], A[m - 1][r])
    BY <1>2
  <2>2. CASE k = 0
    BY <1>0, <1>1, <2>1, <2>2 DEF PairFree
  <2>3. CASE k # 0
    <3>1. k \in 1..nb /\ k - 1 \in 0..nb
      BY <2>3
    <3>2. PICK c, d \in 1..Len(B[k - 1]) : B[k][q] = Pair(B[k - 1][c], B[k - 1][d])
      BY <1>3, <3>1
    <3>3. Pair(A[m - 1][l], A[m - 1][r]) = Pair(B[k - 1][c], B[k - 1][d])
      BY <2>1, <3>2
    <3>4. A[m - 1][r] = B[k - 1][c] \/ A[m - 1][r] = B[k - 1][d]
      BY <3>3, PairTells, Zenon
    <3>5. \A x \in 1..Len(A[m - 1]), y \in 1..Len(B[k - 1]) : A[m - 1][x] # B[k - 1][y]
      BY <1>5, <3>1
    <3>6. QED  BY <2>1, <3>2, <3>4, <3>5
  <2>4. QED  BY <2>2, <2>3
<1>6. \A m \in 0..na : m \in G
  <2> HIDE DEF G
  <2>1. QED  BY <1>4, <1>5, Climbing
<1>7. QED  BY <1>6 DEF A, B

\* The root is a leaf, or the pair of two nodes below it.
LEMMA RootNode ==
  ASSUME NEW leaves, NEW n \in Nat \ {0}, Len(leaves) = n
  PROVE  \/ Height(leaves) = 0 /\ MerkleRoot(leaves) = leaves[1]
         \/ /\ Height(leaves) \in 1..n
            /\ \E l, r \in 1..Len(Levels(leaves)[Height(leaves) - 1]) :
                 MerkleRoot(leaves) = Pair(Levels(leaves)[Height(leaves) - 1][l],
                                           Levels(leaves)[Height(leaves) - 1][r])
<1> DEFINE H == Height(leaves)
<1>1. H \in 0..n /\ Len(Levels(leaves)[H]) = 1
  BY HeightFacts
<1>2. MerkleRoot(leaves) = Levels(leaves)[H][1]
  BY DEF MerkleRoot
<1>3. CASE H = 0
  <2>1. Levels(leaves)[0] = leaves
    BY TreeFacts
  <2> HIDE DEF H
  <2>2. QED  BY <1>2, <1>3, <2>1 DEF H
<1>4. CASE H # 0
  <2>1. PICK h : h = H
    OBVIOUS
  <2> HIDE DEF H
  <2>2. h \in 1..n /\ 1 \in 1..Len(Levels(leaves)[h])
    BY <1>1, <1>4, <2>1
  <2>3. \E l, r \in 1..Len(Levels(leaves)[h - 1]) :
          Levels(leaves)[h][1] = Pair(Levels(leaves)[h - 1][l], Levels(leaves)[h - 1][r])
    <3>1. \A k \in 1..n : \A q \in 1..Len(Levels(leaves)[k]) :
            \E l, r \in 1..Len(Levels(leaves)[k - 1]) :
              Levels(leaves)[k][q] = Pair(Levels(leaves)[k - 1][l], Levels(leaves)[k - 1][r])
      BY UpperNode
    <3>2. QED  BY <2>2, <3>1, Zenon
  <2>4. QED  BY <1>2, <2>1, <2>2, <2>3 DEF H
<1>5. QED  BY <1>3, <1>4

\* A root is never the empty root of the contract.
LEMMA RootIsSome ==
  ASSUME NEW leaves, NEW n \in Nat \ {0}, Len(leaves) = n, leaves[1] # NoRoot
  PROVE  MerkleRoot(leaves) # NoRoot
<1>1. \A x, s : Pair(x, s) # NoRoot
  BY PairFacts
<1>2. MerkleRoot(leaves) = leaves[1] \/ \E x, s : MerkleRoot(leaves) = Pair(x, s)
  BY RootNode
<1>3. QED  BY <1>1, <1>2

\* A proof consists of nodes of the tree, one of each level below the root.
LEMMA ProofNodes ==
  ASSUME NEW leaves, Len(leaves) \in Nat \ {0}, NEW i \in 1..Len(leaves)
  PROVE  /\ Len(MerkleProof(leaves, i)) = Height(leaves)
         /\ \A k \in 1..Height(leaves) : \E q \in 1..Len(Levels(leaves)[k - 1]) :
              MerkleProof(leaves, i)[k] = Levels(leaves)[k - 1][q]
<1>1. PICK n \in Nat \ {0} : n = Len(leaves)
  OBVIOUS
<1>2. i \in 1..n /\ Len(leaves) = n
  BY <1>1
<1>3. Len(MerkleProof(leaves, i)) = Height(leaves)
  BY <1>2, ProofSteps, Zenon
<1>4. ASSUME NEW k \in 1..Height(leaves)
      PROVE  \E q \in 1..Len(Levels(leaves)[k - 1]) : MerkleProof(leaves, i)[k] = Levels(leaves)[k - 1][q]
  <2>1. \A j \in 1..Height(leaves) :
          /\ MerkleProof(leaves, i)[j] = Sibling(Levels(leaves)[j - 1], Way(leaves, i)[j - 1])
          /\ Levels(leaves)[j][Way(leaves, i)[j]] =
               Pair(Levels(leaves)[j - 1][Way(leaves, i)[j - 1]], MerkleProof(leaves, i)[j])
          /\ \E q \in 1..Len(Levels(leaves)[j - 1]) :
               MerkleProof(leaves, i)[j] = Levels(leaves)[j - 1][q]
    BY <1>2, ProofSteps
  <2>2. QED  BY <2>1, Zenon
<1>5. QED  BY <1>3, <1>4, Zenon

\* One of the two nodes that make the root is a node of the tree.
PairsNode(leaves, root) ==
  \E h \in 0..Len(leaves) : \E q \in 1..Len(Levels(leaves)[h]) : \E y :
    root = Pair(y, Levels(leaves)[h][q])

\* A leaf that a proof proves is the root, or the root pairs a node of the proof.
LEMMA ProofEnd ==
  ASSUME NEW leaves, Len(leaves) \in Nat \ {0}, NEW i \in 1..Len(leaves),
         NEW x, NEW root, Proves(x, MerkleProof(leaves, i), root)
  PROVE  root = x \/ PairsNode(leaves, root)
<1> DEFINE H == Height(leaves)
           P == MerkleProof(leaves, i)
           N == Nodes(x, P)
<1>1. H \in 0..Len(leaves)
  BY HeightFacts, Zenon
<1>2. Len(P) = H /\ \A k \in 1..H : \E q \in 1..Len(Levels(leaves)[k - 1]) : P[k] = Levels(leaves)[k - 1][q]
  BY ProofNodes, SMTT(20)
<1>3. N[0] = x /\ (\A k \in 1..H : N[k] = Pair(N[k - 1], P[k])) /\ N[H] = root
  <2>1. H \in Nat /\ Len(P) = H
    BY <1>1, <1>2
  <2>2. N[Len(P)] = root
    BY DEF Proves
  <2> HIDE DEF P, H
  <2>3. N[0] = x /\ \A k \in 1..H : N[k] = Pair(N[k - 1], P[k])
    BY <2>1, NodesRecursion
  <2>4. QED  BY <2>1, <2>2, <2>3
<1> HIDE DEF N, P
<1>4. CASE H = 0
  BY <1>3, <1>4
<1>5. CASE H # 0
  <2>1. PICK h : h = H
    OBVIOUS
  <2> HIDE DEF H
  <2>2. h \in 1..H /\ h - 1 \in 0..Len(leaves)
    BY <1>1, <1>5, <2>1
  <2>3. PICK q \in 1..Len(Levels(leaves)[h - 1]) : P[h] = Levels(leaves)[h - 1][q]
    BY <1>2, <2>2
  <2>4. root = Pair(N[h - 1], P[h])
    BY <1>3, <2>1, <2>2
  <2>5. root = Pair(N[h - 1], Levels(leaves)[h - 1][q])
    BY <2>3, <2>4
  <2>6. \E z \in 1..Len(Levels(leaves)[h - 1]) : \E y : root = Pair(y, Levels(leaves)[h - 1][z])
    BY <2>5
  <2>7. QED  BY <2>2, <2>6, Zenon DEF PairsNode
<1>6. QED  BY <1>4, <1>5

\* A root is the only leaf, or a pair of nodes of one level.
LEMMA RootEnd ==
  ASSUME NEW leaves, NEW n \in Nat \ {0}, Len(leaves) = n
  PROVE  \/ MerkleRoot(leaves) = leaves[1]
         \/ \E h \in 0..n : \E l, r \in 1..Len(Levels(leaves)[h]) :
              MerkleRoot(leaves) = Pair(Levels(leaves)[h][l], Levels(leaves)[h][r])
<1>1. PICK h : h = Height(leaves) - 1
  OBVIOUS
<1>2. Height(leaves) \in 1..n => h \in 0..n
  BY <1>1
<1>3. \/ MerkleRoot(leaves) = leaves[1]
      \/ /\ Height(leaves) \in 1..n
         /\ \E l, r \in 1..Len(Levels(leaves)[h]) :
              MerkleRoot(leaves) = Pair(Levels(leaves)[h][l], Levels(leaves)[h][r])
  BY <1>1, RootNode
<1>4. QED  BY <1>2, <1>3, Zenon

\* Trees of different batches share no node.
LEMMA NodesApart ==
  ASSUME NEW as, NEW bs, Len(as) \in Nat \ {0}, Len(bs) \in Nat \ {0}, Apart(as, bs),
         AllFree(as), AllFree(bs),
         NEW j \in 0..Len(as), NEW k \in 0..Len(bs),
         NEW p \in 1..Len(Levels(as)[j]), NEW q \in 1..Len(Levels(bs)[k])
  PROVE  Levels(as)[j][p] # Levels(bs)[k][q]
BY TreesApart, Zenon

\* Soundness: a proof made for one tree proves for another at most its first leaf.
LEMMA ForeignProof ==
  ASSUME NEW as, NEW bs, Len(as) \in Nat \ {0}, Len(bs) \in Nat \ {0}, Apart(as, bs),
         AllFree(as), AllFree(bs), NEW x, PairFree(x), NEW i \in 1..Len(bs),
         Proves(x, MerkleProof(bs, i), MerkleRoot(as))
  PROVE  x = as[1]
<1> DEFINE R == MerkleRoot(as)
<1>1. R = x \/ PairsNode(bs, R)
  BY ProofEnd, Zenon
<1>2. \/ R = as[1]
      \/ \E h \in 0..Len(as) : \E l, r \in 1..Len(Levels(as)[h]) :
           R = Pair(Levels(as)[h][l], Levels(as)[h][r])
  BY RootEnd, Zenon
<1>3. PairFree(as[1])
  <2>1. \A m \in Nat \ {0} : 1 \in 1..m
    OBVIOUS
  <2>2. QED  BY <2>1, Zenon DEF AllFree
<1>4. ASSUME NEW j \in 0..Len(as), NEW k \in 0..Len(bs),
             NEW p \in 1..Len(Levels(as)[j]), NEW q \in 1..Len(Levels(bs)[k])
      PROVE  Levels(as)[j][p] # Levels(bs)[k][q]
  BY <1>4, NodesApart, Zenon
<1> HIDE DEF R
<1>5. CASE R = x
  BY <1>2, <1>5, Zenon DEF PairFree
<1>6. ASSUME NEW h \in 0..Len(bs), NEW q \in 1..Len(Levels(bs)[h]), NEW y,
             R = Pair(y, Levels(bs)[h][q])
      PROVE  FALSE
  <2>1. R # as[1]
    BY <1>3, <1>6, Zenon DEF PairFree
  <2>2. PICK g \in 0..Len(as) : \E l, r \in 1..Len(Levels(as)[g]) :
          R = Pair(Levels(as)[g][l], Levels(as)[g][r])
    BY <1>2, <2>1, Zenon
  <2>3. PICK l, r \in 1..Len(Levels(as)[g]) : R = Pair(Levels(as)[g][l], Levels(as)[g][r])
    BY <2>2, Zenon
  <2>4. Levels(bs)[h][q] = Levels(as)[g][l] \/ Levels(bs)[h][q] = Levels(as)[g][r]
    BY <1>6, <2>3, PairTells, Zenon
  <2>5. QED  BY <1>4, <2>4, Zenon
<1>7. QED  BY <1>1, <1>5, <1>6, Zenon DEF PairsNode

\* Soundness within one tree: the proof of item i proves item i only.
LEMMA OwnProof ==
  ASSUME NEW as, Len(as) \in Nat \ {0}, NEW x, NEW i \in 1..Len(as),
         Proves(x, MerkleProof(as, i), MerkleRoot(as))
  PROVE  x = as[i]
<1> DEFINE H == Height(as)
           P == MerkleProof(as, i)
<1>1. H \in Nat /\ Len(P) = H
  <2>1. \A k \in 0..Len(as) : k \in Nat
    OBVIOUS
  <2>2. H \in 0..Len(as)
    BY HeightFacts, Zenon
  <2>3. Len(P) = H
    BY ProofSteps, Zenon
  <2>4. QED  BY <2>1, <2>2, <2>3, Zenon
<1>2. Nodes(as[i], P)[H] = MerkleRoot(as)
  BY ProofsProve, Zenon
<1>3. Nodes(x, P)[H] = MerkleRoot(as)
  BY <1>1, Zenon DEF Proves
<1>4. Nodes(x, P)[H] = Nodes(as[i], P)[H]
  BY <1>2, <1>3, Zenon
<1> HIDE DEF H, P
<1>5. PICK p, m, y : p = P /\ m = H /\ y = as[i]
  OBVIOUS
<1>6. m \in Nat /\ Len(p) = m /\ Nodes(x, p)[m] = Nodes(y, p)[m]
  BY <1>1, <1>4, <1>5, Zenon
<1>7. x = y
  BY <1>6, SameProof
<1>8. QED  BY <1>5, <1>7

(***************************************************************************)
(* The storage of the contract, for items f of the batches.                *)
(***************************************************************************)
LeavesOf(b, s) == [i \in DOMAIN s |-> Leaf(b, i - 1, Owner[s[i]], Amount[s[i]])]
RootOf(b, s)   == MerkleRoot(LeavesOf(b, s))
Worth(S)       == SumFunctionOnSet(Amount, S)

PaidOf(c, f, b) == {f[b][i + 1] : i \in c.bitmap[b]}
PaidAll(c, f)   == UNION {PaidOf(c, f, b) : b \in Batches}
UnpaidOf(c)     == [b \in Batches |-> c.batches[b].total - c.batches[b].claimed]

\* The items of the batches: no payout is in two places.
ItemsOK(f) ==
  /\ f \in [Batches -> Seq(Payouts)]
  /\ \A b \in Batches : Len(f[b]) <= MaxItems
  /\ \A b, d \in Batches : \A i \in 1..Len(f[b]), j \in 1..Len(f[d]) :
       f[b][i] = f[d][j] => b = d /\ i = j

Shape(c) ==
  /\ DOMAIN c = {"balance", "outstandingLiability", "paused", "batches", "bitmap", "received"}
  /\ c.balance \in Nat /\ c.outstandingLiability \in Nat
  /\ c.batches = [b \in Batches |-> c.batches[b]]
  /\ c.bitmap \in [Batches -> SUBSET Nat] /\ c.received \in [Recipients -> Nat]

BatchFits(c, f, b) ==
  \/ c.batches[b] = NoBatch /\ c.bitmap[b] = {}
  \/ /\ f[b] # <<>>
     /\ c.bitmap[b] \subseteq 0..(Len(f[b]) - 1)
     /\ c.batches[b] = [root |-> RootOf(b, f[b]), total |-> Worth(Range(f[b])),
                        count |-> Len(f[b]), claimed |-> Worth(PaidOf(c, f, b))]

Fits(c, f) ==
  /\ Shape(c)
  /\ \A b \in Batches : BatchFits(c, f, b)
  /\ c.outstandingLiability = SumFunctionOnSet(UnpaidOf(c), Batches)
  /\ c.balance >= c.outstandingLiability
  /\ \A o \in Recipients : c.received[o] = Worth({p \in PaidAll(c, f) : Owner[p] = o})

\* What each call writes to the storage: a claim,
LEMMA ClaimFields ==
  ASSUME NEW c, Shape(c), NEW b \in Batches, NEW index, NEW o \in Recipients, NEW a
  PROVE  LET d == Claim(c, b, index, o, a) IN
         /\ DOMAIN d = DOMAIN c
         /\ d.balance = c.balance - a
         /\ d.outstandingLiability = c.outstandingLiability - a
         /\ d.paused = c.paused
         /\ d.batches = [c.batches EXCEPT ![b] = [c.batches[b] EXCEPT !.claimed = c.batches[b].claimed + a]]
         /\ d.bitmap = [c.bitmap EXCEPT ![b] = @ \cup {index}]
         /\ d.received = [c.received EXCEPT ![o] = @ + a]
<1> DEFINE d == Claim(c, b, index, o, a)
<1>1. /\ DOMAIN d = DOMAIN c
      /\ d.balance = c.balance - a
      /\ d.outstandingLiability = c.outstandingLiability - a
      /\ d.paused = c.paused
  BY DEF Claim, Shape
<1>2. d.bitmap = [c.bitmap EXCEPT ![b] = @ \cup {index}]
  BY DEF Claim, Shape
<1>3. d.received = [c.received EXCEPT ![o] = @ + a]
  BY DEF Claim, Shape
<1>4. d.batches = [c.batches EXCEPT ![b] = [c.batches[b] EXCEPT !.claimed = c.batches[b].claimed + a]]
  BY DEF Claim, Shape
<1> HIDE DEF d
<1>5. QED  BY <1>1, <1>2, <1>3, <1>4 DEF d

\* a commitment,
LEMMA CommitFields ==
  ASSUME NEW c, Shape(c), NEW b \in Batches, NEW root, NEW total, NEW count
  PROVE  LET d == CommitBatch(c, b, root, total, count) IN
         /\ DOMAIN d = DOMAIN c
         /\ d.balance = c.balance
         /\ d.outstandingLiability = c.outstandingLiability + total
         /\ d.paused = c.paused
         /\ d.batches = [c.batches EXCEPT ![b] =
              [root |-> root, total |-> total, count |-> count, claimed |-> 0]]
         /\ d.bitmap = c.bitmap
         /\ d.received = c.received
BY DEF CommitBatch, Shape

\* a funding,
LEMMA FundFields ==
  ASSUME NEW c, Shape(c), NEW amount
  PROVE  LET d == Fund(c, amount) IN
         /\ DOMAIN d = DOMAIN c
         /\ d.balance = c.balance + amount
         /\ d.outstandingLiability = c.outstandingLiability
         /\ d.paused = c.paused /\ d.batches = c.batches
         /\ d.bitmap = c.bitmap /\ d.received = c.received
BY DEF Fund, Shape

\* and a pause.
LEMMA PauseFields ==
  ASSUME NEW c, Shape(c), NEW value
  PROVE  LET d == SetPaused(c, value) IN
         /\ DOMAIN d = DOMAIN c
         /\ d.balance = c.balance
         /\ d.outstandingLiability = c.outstandingLiability
         /\ d.paused = value /\ d.batches = c.batches
         /\ d.bitmap = c.bitmap /\ d.received = c.received
BY DEF SetPaused, Shape

\* A batch of the contract as a record.
LEMMA BatchFields ==
  ASSUME NEW c, NEW f, NEW b, BatchFits(c, f, b)
  PROVE  \/ c.batches[b].root = NoRoot /\ c.batches[b].total = 0 /\ c.batches[b].count = 0
            /\ c.batches[b].claimed = 0 /\ c.bitmap[b] = {}
         \/ /\ f[b] # <<>>
            /\ c.bitmap[b] \subseteq 0..(Len(f[b]) - 1)
            /\ c.batches[b].root = RootOf(b, f[b])
            /\ c.batches[b].total = Worth(Range(f[b]))
            /\ c.batches[b].count = Len(f[b])
            /\ c.batches[b].claimed = Worth(PaidOf(c, f, b))
BY DEF BatchFits, NoBatch

(***************************************************************************)
(* The items and their worth.                                              *)
(***************************************************************************)
LEMMA WorthNat ==
  ASSUME NEW S \in SUBSET Payouts
  PROVE  /\ IsFiniteSet(S) /\ Worth(S) \in Nat
         /\ \A p \in S : Amount[p] \in Nat \ {0} /\ Amount[p] <= Worth(S)
         /\ \A T \in SUBSET S : Worth(T) <= Worth(S)
         /\ \A p \in Payouts \ S : Worth(S \cup {p}) = Worth(S) + Amount[p]
<1>1. IsFiniteSet(S) /\ \A p \in Payouts : Amount[p] \in Nat \ {0}
  BY PayoutsAssumption, FS_Subset
<1>2. \A T \in SUBSET S : IsFiniteSet(T) /\ IsFiniteSet(S \ T) /\ S \ T \in SUBSET S
  BY <1>1, FS_Subset
<1>3. \A p \in S : Amount[p] \in Nat /\ Amount[p] \in Int
  BY <1>1
<1>4. \A T \in SUBSET S : SumFunctionOnSet(Amount, T) \in Nat
  BY <1>2, <1>3, SumNat
<1>5. \A p \in S : Amount[p] <= SumFunctionOnSet(Amount, S)
  BY <1>1, <1>3, SumBound
<1>6. \A T \in SUBSET S : SumFunctionOnSet(Amount, T) <= SumFunctionOnSet(Amount, S)
  <2> TAKE T \in SUBSET S
  <2>1. SumFunctionOnSet(Amount, S)
          = SumFunctionOnSet(Amount, T) + SumFunctionOnSet(Amount, S \ T)
    BY <1>1, <1>3, SumSplit
  <2>2. SumFunctionOnSet(Amount, T) \in Nat /\ SumFunctionOnSet(Amount, S \ T) \in Nat
    BY <1>2, <1>4
  <2>3. QED  BY <2>1, <2>2
<1>7. \A p \in Payouts \ S :
        SumFunctionOnSet(Amount, S \cup {p}) = SumFunctionOnSet(Amount, S) + Amount[p]
  <2> TAKE p \in Payouts \ S
  <2>1. \A q \in S \cup {p} : Amount[q] \in Int
    BY <1>1
  <2>2. SumFunctionOnSet(Amount, S \cup {p}) = Amount[p] + SumFunctionOnSet(Amount, S)
    BY <1>1, <2>1, SumAdd
  <2>3. SumFunctionOnSet(Amount, S) \in Nat /\ Amount[p] \in Nat
    BY <1>1, <1>4
  <2>4. QED  BY <2>2, <2>3
<1>8. QED  BY <1>1, <1>4, <1>5, <1>6, <1>7 DEF Worth

\* The leaves of a batch: one for each item, none of them a pair.
LEMMA LeavesFacts ==
  ASSUME NEW b, NEW s \in Seq(Payouts), s # <<>>
  PROVE  /\ Len(LeavesOf(b, s)) = Len(s) /\ Len(s) \in Nat \ {0}
         /\ \A i \in 1..Len(s) : LeavesOf(b, s)[i] = Leaf(b, i - 1, Owner[s[i]], Amount[s[i]])
         /\ AllFree(LeavesOf(b, s))
         /\ LeavesOf(b, s)[1] # NoRoot
<1> DEFINE n == Len(s)
           L == LeavesOf(b, s)
           T == {L[i] : i \in 1..n}
<1>1. n \in Nat \ {0} /\ DOMAIN s = 1..n
  OBVIOUS
<1>2. L = [i \in 1..n |-> Leaf(b, i - 1, Owner[s[i]], Amount[s[i]])]
  BY <1>1 DEF LeavesOf
<1> HIDE DEF L, n
<1>3. L \in [1..n -> T] /\ \A i \in 1..n : L[i] = Leaf(b, i - 1, Owner[s[i]], Amount[s[i]])
  BY <1>2
<1>4. Len(L) = n
  <2> HIDE DEF T
  <2>1. L \in Seq(T)
    BY <1>1, <1>3
  <2>2. QED  BY <1>1, <1>3, <2>1
<1>5. \A x, i, o, a : PairFree(Leaf(x, i, o, a)) /\ Leaf(x, i, o, a) # NoRoot
  BY LeafFacts DEF PairFree
<1>6. \A i \in 1..n : PairFree(L[i]) /\ L[i] # NoRoot
  BY <1>3, <1>5
<1>7. 1 \in 1..n
  BY <1>1
<1>8. QED  BY <1>1, <1>3, <1>4, <1>6, <1>7 DEF L, n, AllFree

\* Leaves of different batches differ.
LEMMA LeavesApart ==
  ASSUME NEW b, NEW d, b # d, NEW s \in Seq(Payouts), NEW t \in Seq(Payouts),
         s # <<>>, t # <<>>
  PROVE  Apart(LeavesOf(b, s), LeavesOf(d, t))
<1>1. /\ Len(LeavesOf(b, s)) = Len(s)
      /\ \A i \in 1..Len(s) : LeavesOf(b, s)[i] = Leaf(b, i - 1, Owner[s[i]], Amount[s[i]])
  BY LeavesFacts
<1>2. /\ Len(LeavesOf(d, t)) = Len(t)
      /\ \A i \in 1..Len(t) : LeavesOf(d, t)[i] = Leaf(d, i - 1, Owner[t[i]], Amount[t[i]])
  BY LeavesFacts
<1>3. \A i, o, a, j, p, e : Leaf(b, i, o, a) # Leaf(d, j, p, e)
  BY LeafFacts
<1>4. QED  BY <1>1, <1>2, <1>3 DEF Apart

\* A batch has a root.
LEMMA BatchRoot ==
  ASSUME NEW b, NEW s \in Seq(Payouts), s # <<>>
  PROVE  RootOf(b, s) # NoRoot
<1> DEFINE L == LeavesOf(b, s)
<1>1. Len(L) \in Nat \ {0} /\ L[1] # NoRoot
  BY LeavesFacts
<1> HIDE DEF L
<1>2. MerkleRoot(L) # NoRoot
  BY <1>1, RootIsSome
<1>3. QED  BY <1>2 DEF L, RootOf

\* Whatever proof is used, only an item of the batch, in its place, can be claimed.
LEMMA ClaimTells ==
  ASSUME NEW f, ItemsOK(f), NEW b \in Batches, NEW d \in Batches, f[b] # <<>>,
         NEW i \in DOMAIN f[d], NEW index \in Nat, NEW o, NEW a,
         Proves(Leaf(b, index, o, a), MerkleProof(LeavesOf(d, f[d]), i), RootOf(b, f[b]))
  PROVE  /\ index + 1 \in 1..Len(f[b])
         /\ o = Owner[f[b][index + 1]] /\ a = Amount[f[b][index + 1]]
<1> DEFINE L == LeavesOf(b, f[b])
           M == LeavesOf(d, f[d])
           x == Leaf(b, index, o, a)
<1>1. f[b] \in Seq(Payouts) /\ f[d] \in Seq(Payouts) /\ f[d] # <<>>
  BY DEF ItemsOK
<1>2. /\ Len(L) = Len(f[b]) /\ Len(L) \in Nat \ {0} /\ AllFree(L)
      /\ \A j \in 1..Len(L) : L[j] = Leaf(b, j - 1, Owner[f[b][j]], Amount[f[b][j]])
  BY <1>1, LeavesFacts
<1>3. Len(M) = Len(f[d]) /\ Len(M) \in Nat \ {0} /\ AllFree(M)
  BY <1>1, LeavesFacts
<1>4. i \in 1..Len(M) /\ 1 \in 1..Len(L)
  BY <1>1, <1>2, <1>3
<1>5. PairFree(x)
  BY LeafFacts DEF PairFree
<1>6. Proves(x, MerkleProof(M, i), MerkleRoot(L))
  BY DEF RootOf
<1>7. \E j \in 1..Len(L) : x = L[j]
  <2>1. CASE b = d
    <3>1. L = M
      BY <2>1
    <3> HIDE DEF L, M, x
    <3>2. x = L[i]
      BY <1>3, <1>4, <1>6, <3>1, OwnProof, Zenon
    <3>3. QED  BY <1>4, <3>1, <3>2
  <2>2. CASE b # d
    <3>1. Apart(L, M)
      BY <1>1, <2>2, LeavesApart
    <3> HIDE DEF L, M, x
    <3>2. x = L[1]
      BY <1>2, <1>3, <1>4, <1>5, <1>6, <3>1, ForeignProof, Zenon
    <3>3. QED  BY <1>4, <3>2
  <2>3. QED  BY <2>1, <2>2
<1>8. PICK j \in 1..Len(L) : x = Leaf(b, j - 1, Owner[f[b][j]], Amount[f[b][j]])
  BY <1>2, <1>7
<1>9. index = j - 1 /\ o = Owner[f[b][j]] /\ a = Amount[f[b][j]]
  BY <1>8, LeafFacts
<1>10. index + 1 = j
  BY <1>2, <1>9
<1>11. QED  BY <1>2, <1>9, <1>10
(***************************************************************************)
(* What the calls of the contract keep.                                    *)
(***************************************************************************)

\* The items that a batch of the contract has paid are distinct payouts of it.
LEMMA PaidFacts ==
  ASSUME NEW c, NEW f, ItemsOK(f), NEW b \in Batches, c.bitmap[b] \subseteq 0..(Len(f[b]) - 1)
  PROVE  /\ Range(f[b]) \in SUBSET Payouts
         /\ PaidOf(c, f, b) \in SUBSET Range(f[b])
         /\ \A i \in 0..(Len(f[b]) - 1) :
              /\ i + 1 \in 1..Len(f[b]) /\ f[b][i + 1] \in Range(f[b])
              /\ f[b][i + 1] \in PaidOf(c, f, b) => i \in c.bitmap[b]
<1>1. f[b] \in Seq(Payouts) /\ Len(f[b]) \in Nat /\ DOMAIN f[b] = 1..Len(f[b])
  BY DEF ItemsOK
<1>2. Range(f[b]) \in SUBSET Payouts
  BY <1>1 DEF Range
<1>3. \A i \in 0..(Len(f[b]) - 1) : i + 1 \in 1..Len(f[b]) /\ f[b][i + 1] \in Range(f[b])
  BY <1>1 DEF Range
<1>4. PaidOf(c, f, b) \in SUBSET Range(f[b])
  BY <1>3 DEF PaidOf
<1>5. ASSUME NEW i \in 0..(Len(f[b]) - 1), f[b][i + 1] \in PaidOf(c, f, b)
      PROVE  i \in c.bitmap[b]
  <2>1. PICK j \in c.bitmap[b] : f[b][i + 1] = f[b][j + 1]
    BY <1>5 DEF PaidOf
  <2>2. j \in 0..(Len(f[b]) - 1) /\ i + 1 \in 1..Len(f[b]) /\ j + 1 \in 1..Len(f[b])
    BY <1>3
  <2>3. i + 1 = j + 1
    BY <2>1, <2>2 DEF ItemsOK
  <2>4. i = j
    BY <2>2, <2>3
  <2>5. QED  BY <2>4
<1>6. QED  BY <1>2, <1>3, <1>4, <1>5

\* A payout is paid by the batch that it is an item of, and by no other.
LEMMA PaidApart ==
  ASSUME NEW c, NEW f, ItemsOK(f), \A b \in Batches : BatchFits(c, f, b)
  PROVE  /\ PaidAll(c, f) \in SUBSET Payouts
         /\ \A b \in Batches : \A i \in 0..(Len(f[b]) - 1) :
              f[b][i + 1] \in PaidAll(c, f) => i \in c.bitmap[b]
<1>1. \A b \in Batches : c.bitmap[b] \subseteq 0..(Len(f[b]) - 1)
  BY BatchFields
<1>2. \A b \in Batches : /\ Range(f[b]) \in SUBSET Payouts
                         /\ PaidOf(c, f, b) \in SUBSET Range(f[b])
  BY <1>1, PaidFacts
<1>3. ASSUME NEW b \in Batches, NEW i \in 0..(Len(f[b]) - 1), f[b][i + 1] \in PaidAll(c, f)
      PROVE  i \in c.bitmap[b]
  <2>1. PICK d \in Batches : f[b][i + 1] \in PaidOf(c, f, d)
    BY <1>3 DEF PaidAll
  <2>2. PICK j \in c.bitmap[d] : f[b][i + 1] = f[d][j + 1]
    BY <2>1 DEF PaidOf
  <2>3. Len(f[b]) \in Nat /\ Len(f[d]) \in Nat
    BY DEF ItemsOK
  <2>4. j \in 0..(Len(f[d]) - 1)
    BY <1>1
  <2>5. j + 1 \in 1..Len(f[d]) /\ i + 1 \in 1..Len(f[b])
    BY <2>3, <2>4
  <2>6. b = d /\ i + 1 = j + 1
    BY <2>2, <2>5 DEF ItemsOK
  <2>7. i = j
    BY <2>3, <2>4, <2>6
  <2>8. QED  BY <2>6, <2>7
<1>4. QED  BY <1>2, <1>3 DEF PaidAll

\* What a batch has not claimed is worth no less than the unpaid items.
LEMMA BatchNat ==
  ASSUME NEW c, NEW f, ItemsOK(f), NEW b \in Batches, BatchFits(c, f, b)
  PROVE  /\ c.batches[b].total \in Nat /\ c.batches[b].claimed \in Nat
         /\ c.batches[b].count \in Nat
         /\ c.batches[b].total - c.batches[b].claimed \in Nat
<1>1. CASE c.batches[b].root = NoRoot /\ c.batches[b].total = 0 /\ c.batches[b].count = 0
           /\ c.batches[b].claimed = 0 /\ c.bitmap[b] = {}
  BY <1>1
<1>2. CASE /\ c.bitmap[b] \subseteq 0..(Len(f[b]) - 1)
           /\ c.batches[b].total = Worth(Range(f[b]))
           /\ c.batches[b].count = Len(f[b])
           /\ c.batches[b].claimed = Worth(PaidOf(c, f, b))
  <2>1. Range(f[b]) \in SUBSET Payouts /\ PaidOf(c, f, b) \in SUBSET Range(f[b])
    BY <1>2, PaidFacts
  <2>2. Worth(Range(f[b])) \in Nat /\ Worth(PaidOf(c, f, b)) <= Worth(Range(f[b]))
    BY <2>1, WorthNat
  <2>3. PaidOf(c, f, b) \in SUBSET Payouts
    BY <2>1
  <2>4. Worth(PaidOf(c, f, b)) \in Nat
    BY <2>3, WorthNat
  <2>5. Len(f[b]) \in Nat
    BY DEF ItemsOK
  <2>6. QED  BY <1>2, <2>2, <2>4, <2>5
<1>3. QED  BY <1>1, <1>2, BatchFields

\* What batches have not paid is natural, and no more than the liability.
LEMMA LiabilityNat ==
  ASSUME NEW c, NEW f, ItemsOK(f), \A b \in Batches : BatchFits(c, f, b)
  PROVE  /\ \A b \in Batches : UnpaidOf(c)[b] \in Nat
         /\ SumFunctionOnSet(UnpaidOf(c), Batches) \in Nat
         /\ \A b \in Batches : UnpaidOf(c)[b] <= SumFunctionOnSet(UnpaidOf(c), Batches)
<1>1. \A b \in Batches : UnpaidOf(c)[b] \in Nat
  BY BatchNat DEF UnpaidOf
<1>2. IsFiniteSet(Batches)
  BY PayoutsAssumption
<1>3. SumFunctionOnSet(UnpaidOf(c), Batches) \in Nat
  BY <1>1, <1>2, SumNat
<1>4. \A b \in Batches : UnpaidOf(c)[b] <= SumFunctionOnSet(UnpaidOf(c), Batches)
  BY <1>1, <1>2, SumBound
<1>5. QED  BY <1>1, <1>3, <1>4
\* A call that changes what one batch owes moves the liability by that much.
LEMMA LiabilityMoves ==
  ASSUME NEW U, NEW V, \A k \in Batches : U[k] \in Nat, \A k \in Batches : V[k] \in Nat,
         NEW b \in Batches, \A k \in Batches \ {b} : V[k] = U[k]
  PROVE  SumFunctionOnSet(V, Batches) = SumFunctionOnSet(U, Batches) - U[b] + V[b]
<1>1. IsFiniteSet(Batches) /\ \A k \in Batches : U[k] \in Int /\ V[k] \in Int
  BY PayoutsAssumption
<1>2. QED  BY <1>1, SumUpdate

\* A claim that succeeds, with whatever proof, pays an item of its batch, once.
LEMMA ClaimFits ==
  ASSUME NEW c, NEW f, ItemsOK(f), Fits(c, f), NEW b \in Batches, NEW d \in Batches,
         NEW i \in DOMAIN f[d], NEW index \in Nat, NEW p \in Payouts,
         CanClaim(c, b, index, Owner[p], Amount[p], MerkleProof(LeavesOf(d, f[d]), i))
  PROVE  /\ Fits(Claim(c, b, index, Owner[p], Amount[p]), f)
         /\ \A k \in Batches :
              Claim(c, b, index, Owner[p], Amount[p]).batches[k].root = c.batches[k].root
<1> DEFINE o == Owner[p]
           a == Amount[p]
           g == Claim(c, b, index, o, a)
           q == f[b][index + 1]
<1>1. /\ Shape(c) /\ \A k \in Batches : BatchFits(c, f, k)
      /\ c.outstandingLiability = SumFunctionOnSet(UnpaidOf(c), Batches)
      /\ c.balance >= c.outstandingLiability
      /\ \A u \in Recipients : c.received[u] = Worth({x \in PaidAll(c, f) : Owner[x] = u})
  BY DEF Fits
<1>2. o \in Recipients /\ a \in Nat \ {0}
  BY PayoutsAssumption
<1>3. /\ c.batches[b].root # NoRoot /\ index \notin c.bitmap[b]
      /\ Proves(Leaf(b, index, o, a), MerkleProof(LeavesOf(d, f[d]), i), c.batches[b].root)
      /\ c.batches[b].claimed + a <= c.batches[b].total /\ a <= c.balance
  BY DEF CanClaim
<1>4. /\ DOMAIN g = DOMAIN c
      /\ g.balance = c.balance - a
      /\ g.outstandingLiability = c.outstandingLiability - a
      /\ g.batches = [c.batches EXCEPT ![b] =
                       [c.batches[b] EXCEPT !.claimed = c.batches[b].claimed + a]]
      /\ g.bitmap = [c.bitmap EXCEPT ![b] = @ \cup {index}]
      /\ g.received = [c.received EXCEPT ![o] = @ + a]
  BY <1>1, <1>2, ClaimFields
<1>5. /\ f[b] # <<>> /\ c.bitmap[b] \subseteq 0..(Len(f[b]) - 1)
      /\ c.batches[b].root = RootOf(b, f[b]) /\ c.batches[b].total = Worth(Range(f[b]))
      /\ c.batches[b].count = Len(f[b]) /\ c.batches[b].claimed = Worth(PaidOf(c, f, b))
      /\ c.batches[b] # NoBatch
  BY <1>1, <1>3, BatchFields DEF NoBatch
<1>6. index + 1 \in 1..Len(f[b]) /\ o = Owner[q] /\ a = Amount[q]
  <2> HIDE DEF o, a
  <2>1. Proves(Leaf(b, index, o, a), MerkleProof(LeavesOf(d, f[d]), i), RootOf(b, f[b]))
    BY <1>3, <1>5
  <2>2. QED  BY <1>5, <2>1, ClaimTells
<1> HIDE DEF o, a, g, q
<1>7. Len(f[b]) \in Nat
  BY DEF ItemsOK
<1>8. index \in 0..(Len(f[b]) - 1)
  BY <1>6, <1>7
<1>9. /\ PaidAll(c, f) \in SUBSET Payouts /\ q \notin PaidAll(c, f)
  BY <1>1, <1>3, <1>8, PaidApart DEF q
<1>10. /\ Range(f[b]) \in SUBSET Payouts /\ PaidOf(c, f, b) \in SUBSET Range(f[b])
       /\ q \in Range(f[b]) /\ q \in Payouts
  BY <1>5, <1>8, PaidFacts DEF q
<1>11. q \notin PaidOf(c, f, b)
  BY <1>9 DEF PaidAll
<1>12. /\ PaidOf(g, f, b) = PaidOf(c, f, b) \cup {q}
       /\ \A k \in Batches \ {b} : PaidOf(g, f, k) = PaidOf(c, f, k) /\ g.bitmap[k] = c.bitmap[k]
       /\ g.bitmap[b] = c.bitmap[b] \cup {index}
       /\ g.bitmap \in [Batches -> SUBSET Nat]
  BY <1>1, <1>4 DEF PaidOf, q, Shape
<1>13. PaidAll(g, f) = PaidAll(c, f) \cup {q}
  BY <1>12 DEF PaidAll
<1>14. /\ g.batches = [k \in Batches |-> g.batches[k]]
       /\ g.batches[b] = [c.batches[b] EXCEPT !.claimed = c.batches[b].claimed + a]
       /\ \A k \in Batches \ {b} : g.batches[k] = c.batches[k]
  BY <1>1, <1>4 DEF Shape
<1>15. \A k \in Batches : BatchFits(g, f, k)
  <2>1. ASSUME NEW k \in Batches, k # b PROVE BatchFits(g, f, k)
    <3>1. g.batches[k] = c.batches[k] /\ g.bitmap[k] = c.bitmap[k] /\ PaidOf(g, f, k) = PaidOf(c, f, k)
      BY <1>12, <1>14, <2>1
    <3>2. QED  BY <1>1, <3>1 DEF BatchFits
  <2>2. Worth(PaidOf(g, f, b)) = Worth(PaidOf(c, f, b)) + a
    <3>1. PaidOf(c, f, b) \in SUBSET Payouts
      BY <1>10
    <3>2. QED  BY <1>6, <1>10, <1>11, <1>12, <3>1, WorthNat
  <2>3. c.batches[b] = [root |-> RootOf(b, f[b]), total |-> Worth(Range(f[b])),
                        count |-> Len(f[b]), claimed |-> Worth(PaidOf(c, f, b))]
    BY <1>1, <1>5 DEF BatchFits
  <2>4. g.batches[b] = [root |-> RootOf(b, f[b]), total |-> Worth(Range(f[b])),
                        count |-> Len(f[b]), claimed |-> Worth(PaidOf(g, f, b))]
    BY <1>14, <2>2, <2>3
  <2>5. g.bitmap[b] \subseteq 0..(Len(f[b]) - 1)
    BY <1>5, <1>8, <1>12
  <2>6. BatchFits(g, f, b)
    BY <1>5, <2>4, <2>5 DEF BatchFits
  <2>7. QED  BY <2>1, <2>6
<1>16. /\ c.outstandingLiability \in Nat /\ g.outstandingLiability = SumFunctionOnSet(UnpaidOf(g), Batches)
       /\ g.outstandingLiability \in Nat
  <2> DEFINE U == UnpaidOf(c)
             V == UnpaidOf(g)
             s == SumFunctionOnSet(V, Batches)
             r == SumFunctionOnSet(U, Batches)
  <2>1. (\A k \in Batches : U[k] \in Nat) /\ r \in Nat
    BY <1>1, LiabilityNat
  <2>2. (\A k \in Batches : V[k] \in Nat) /\ s \in Nat
    BY <1>15, LiabilityNat
  <2>3. \A k \in Batches \ {b} : V[k] = U[k]
    BY <1>14 DEF UnpaidOf
  <2>4. V[b] = U[b] - a
    <3>1. c.batches[b].total \in Nat /\ c.batches[b].claimed \in Nat
      BY <1>1, BatchNat
    <3>2. c.batches[b] = [root |-> RootOf(b, f[b]), total |-> Worth(Range(f[b])),
                          count |-> Len(f[b]), claimed |-> Worth(PaidOf(c, f, b))]
      BY <1>1, <1>5 DEF BatchFits
    <3>3. g.batches[b].total = c.batches[b].total
          /\ g.batches[b].claimed = c.batches[b].claimed + a
      BY <1>14, <3>2
    <3>4. QED  BY <1>2, <3>1, <3>3 DEF UnpaidOf
  <2>5. s = r - U[b] + V[b]
    <3> HIDE DEF U, V
    <3>1. QED  BY <2>1, <2>2, <2>3, LiabilityMoves, Zenon
  <2>6. s = r - a
    <3> HIDE DEF U, V, s, r
    <3>1. U[b] \in Nat
      BY <2>1
    <3>2. QED  BY <1>2, <2>1, <2>4, <2>5, <3>1
  <2> HIDE DEF s, r
  <2>7. QED  BY <1>1, <1>4, <2>1, <2>2, <2>6 DEF s, r
<1>17. g.balance \in Nat /\ g.balance >= g.outstandingLiability
  <2>1. c.balance \in Nat
    BY <1>1 DEF Shape
  <2>2. QED  BY <1>1, <1>2, <1>3, <1>4, <1>16, <2>1
<1>18. /\ g.received \in [Recipients -> Nat]
       /\ \A u \in Recipients : g.received[u] = Worth({x \in PaidAll(g, f) : Owner[x] = u})
  <2>1. c.received \in [Recipients -> Nat]
    BY <1>1 DEF Shape
  <2>2. /\ g.received \in [Recipients -> Nat] /\ g.received[o] = c.received[o] + a
        /\ \A u \in Recipients \ {o} : g.received[u] = c.received[u]
    BY <1>2, <1>4, <2>1
  <2> DEFINE S(h, u) == {x \in PaidAll(h, f) : Owner[x] = u}
  <2>3. \A u \in Recipients \ {o} : S(g, u) = S(c, u)
    BY <1>6, <1>13
  <2>4. S(g, o) = S(c, o) \cup {q}
    BY <1>6, <1>13
  <2>5. S(c, o) \in SUBSET Payouts /\ q \in Payouts \ S(c, o)
    BY <1>9, <1>10
  <2> HIDE DEF S
  <2>6. Worth(S(g, o)) = Worth(S(c, o)) + a
    BY <1>6, <2>4, <2>5, WorthNat
  <2>7. \A u \in Recipients : c.received[u] = Worth(S(c, u))
    BY <1>1 DEF S
  <2>8. \A u \in Recipients : g.received[u] = Worth(S(g, u))
    <3>1. g.received[o] = Worth(S(g, o))
      BY <1>2, <2>2, <2>6, <2>7
    <3>2. \A u \in Recipients \ {o} : g.received[u] = Worth(S(g, u))
      BY <2>2, <2>3, <2>7
    <3>3. QED  BY <3>1, <3>2
  <2>9. QED  BY <2>2, <2>8 DEF S
<1>19. Shape(g)
  BY <1>1, <1>4, <1>12, <1>14, <1>16, <1>17, <1>18 DEF Shape
<1>20. \A k \in Batches : g.batches[k].root = c.batches[k].root
  <2>1. c.batches[b] = [root |-> RootOf(b, f[b]), total |-> Worth(Range(f[b])),
                        count |-> Len(f[b]), claimed |-> Worth(PaidOf(c, f, b))]
    BY <1>1, <1>5 DEF BatchFits
  <2>2. g.batches[b].root = c.batches[b].root
    BY <1>14, <2>1
  <2>3. QED  BY <1>14, <2>2
<1>21. Fits(g, f)
  BY <1>15, <1>16, <1>17, <1>18, <1>19 DEF Fits
<1>22. QED  BY <1>20, <1>21 DEF g, o, a
\* A commitment fits what the collateral leaves.
LEMMA CommitFits ==
  ASSUME NEW c, NEW f, ItemsOK(f), Fits(c, f), NEW b \in Batches, f[b] # <<>>,
         CanCommit(c, b, RootOf(b, f[b]), Worth(Range(f[b])), Len(f[b]))
  PROVE  LET g == CommitBatch(c, b, RootOf(b, f[b]), Worth(Range(f[b])), Len(f[b])) IN
         /\ Fits(g, f)
         /\ g.batches[b].root = RootOf(b, f[b])
         /\ \A k \in Batches \ {b} : g.batches[k].root = c.batches[k].root
<1> DEFINE root == RootOf(b, f[b])
           total == Worth(Range(f[b]))
           count == Len(f[b])
           g == CommitBatch(c, b, root, total, count)
           new == [root |-> root, total |-> total, count |-> count, claimed |-> 0]
<1>1. /\ Shape(c) /\ \A k \in Batches : BatchFits(c, f, k)
      /\ c.outstandingLiability = SumFunctionOnSet(UnpaidOf(c), Batches)
      /\ c.balance >= c.outstandingLiability
      /\ \A u \in Recipients : c.received[u] = Worth({x \in PaidAll(c, f) : Owner[x] = u})
  BY DEF Fits
<1>2. f[b] \in Seq(Payouts)
  BY DEF ItemsOK
<1>3. total \in Nat
  <2>1. Range(f[b]) \in SUBSET Payouts
    BY <1>2 DEF Range
  <2>2. QED  BY <2>1, WorthNat
<1>4. c.batches[b].root = NoRoot /\ c.balance >= c.outstandingLiability + total
  BY DEF CanCommit
<1>5. /\ DOMAIN g = DOMAIN c
      /\ g.balance = c.balance
      /\ g.outstandingLiability = c.outstandingLiability + total
      /\ g.batches = [c.batches EXCEPT ![b] = new]
      /\ g.bitmap = c.bitmap
      /\ g.received = c.received
  BY <1>1, CommitFields
<1>6. c.batches[b] = NoBatch /\ c.bitmap[b] = {}
  <2>1. root # NoRoot
    BY <1>2, BatchRoot
  <2>2. BatchFits(c, f, b)
    BY <1>1
  <2>3. c.batches[b] # [root |-> root, total |-> total, count |-> count,
                        claimed |-> Worth(PaidOf(c, f, b))]
    BY <1>4, <2>1
  <2>4. QED  BY <2>2, <2>3 DEF BatchFits
<1>7. /\ g.batches = [k \in Batches |-> g.batches[k]]
      /\ g.batches[b] = new
      /\ \A k \in Batches \ {b} : g.batches[k] = c.batches[k]
  BY <1>1, <1>5 DEF Shape
<1>8. \A k \in Batches : PaidOf(g, f, k) = PaidOf(c, f, k)
  BY <1>5 DEF PaidOf
<1>9. PaidAll(g, f) = PaidAll(c, f)
  BY <1>8 DEF PaidAll
<1>10. \A k \in Batches : BatchFits(g, f, k)
  <2>1. ASSUME NEW k \in Batches, k # b PROVE BatchFits(g, f, k)
    <3>1. g.batches[k] = c.batches[k] /\ g.bitmap[k] = c.bitmap[k] /\ PaidOf(g, f, k) = PaidOf(c, f, k)
      BY <1>5, <1>7, <1>8, <2>1
    <3>2. BatchFits(c, f, k)
      BY <1>1
    <3> HIDE DEF g
    <3>3. QED  BY <3>1, <3>2 DEF BatchFits
  <2>2. g.bitmap[b] = {} /\ PaidOf(g, f, b) = {}
    BY <1>5, <1>6 DEF PaidOf
  <2>3. Worth(PaidOf(g, f, b)) = 0
    BY <2>2, SumEmpty DEF Worth
  <2> HIDE DEF g
  <2>4. BatchFits(g, f, b)
    BY <1>7, <2>2, <2>3 DEF BatchFits
  <2>5. QED  BY <2>1, <2>4
<1> HIDE DEF g
<1>11. g.outstandingLiability = SumFunctionOnSet(UnpaidOf(g), Batches) /\ g.outstandingLiability \in Nat
  <2> DEFINE U == UnpaidOf(c)
             V == UnpaidOf(g)
             s == SumFunctionOnSet(V, Batches)
             r == SumFunctionOnSet(U, Batches)
  <2>1. (\A k \in Batches : U[k] \in Nat) /\ r \in Nat
    BY <1>1, LiabilityNat
  <2>2. (\A k \in Batches : V[k] \in Nat) /\ s \in Nat
    BY <1>10, LiabilityNat
  <2>3. \A k \in Batches \ {b} : V[k] = U[k]
    BY <1>7 DEF UnpaidOf
  <2>4. V[b] = total /\ U[b] = 0
    <3>1. g.batches[b].total = total /\ g.batches[b].claimed = 0
      BY <1>7
    <3>2. c.batches[b].total = 0 /\ c.batches[b].claimed = 0
      BY <1>6 DEF NoBatch
    <3> HIDE DEF total
    <3>3. QED  BY <1>3, <3>1, <3>2 DEF UnpaidOf
  <2>5. s = r - U[b] + V[b]
    <3> HIDE DEF U, V
    <3>1. QED  BY <2>1, <2>2, <2>3, LiabilityMoves, Zenon
  <2>6. s = r + total
    <3> HIDE DEF U, V, s, r, total
    <3>1. QED  BY <1>3, <2>1, <2>4, <2>5
  <2> HIDE DEF s, r, total
  <2>7. QED  BY <1>1, <1>5, <2>1, <2>2, <2>6 DEF s, r
<1>12. g.balance \in Nat /\ g.balance >= g.outstandingLiability
  BY <1>1, <1>4, <1>5 DEF Shape
<1>13. Shape(g)
  BY <1>1, <1>5, <1>7, <1>11, <1>12 DEF Shape
<1>14. \A u \in Recipients : g.received[u] = Worth({x \in PaidAll(g, f) : Owner[x] = u})
  BY <1>1, <1>5, <1>9
<1>15. Fits(g, f)
  BY <1>10, <1>11, <1>12, <1>13, <1>14 DEF Fits
<1>16. g.batches[b].root = root /\ \A k \in Batches \ {b} : g.batches[k].root = c.batches[k].root
  BY <1>7
<1>17. QED  BY <1>15, <1>16 DEF g

\* A storage that differs in the balance only, upwards, or in the pause.
LEMMA SameFits ==
  ASSUME NEW c, NEW f, Fits(c, f), NEW g, DOMAIN g = DOMAIN c,
         g.balance \in Nat, g.balance >= c.balance,
         g.outstandingLiability = c.outstandingLiability,
         g.batches = c.batches, g.bitmap = c.bitmap, g.received = c.received
  PROVE  Fits(g, f)
<1>1. /\ Shape(c) /\ \A k \in Batches : BatchFits(c, f, k)
      /\ c.outstandingLiability = SumFunctionOnSet(UnpaidOf(c), Batches)
      /\ c.balance >= c.outstandingLiability
      /\ \A u \in Recipients : c.received[u] = Worth({x \in PaidAll(c, f) : Owner[x] = u})
  BY DEF Fits
<1>2. \A k \in Batches : PaidOf(g, f, k) = PaidOf(c, f, k)
  BY DEF PaidOf
<1>3. PaidAll(g, f) = PaidAll(c, f) /\ UnpaidOf(g) = UnpaidOf(c)
  BY <1>2 DEF PaidAll, UnpaidOf
<1>4. \A k \in Batches : BatchFits(g, f, k)
  BY <1>1, <1>2 DEF BatchFits
<1>5. Shape(g) /\ g.balance >= g.outstandingLiability
  BY <1>1 DEF Shape
<1>6. QED  BY <1>1, <1>3, <1>4, <1>5 DEF Fits

\* So does the deployment.
LEMMA DeployedFits ==
  ASSUME NEW f
  PROVE  Fits(Deployed(Collateral), f) /\ \A b \in Batches : Deployed(Collateral).batches[b].root = NoRoot
<1> DEFINE c == Deployed(Collateral)
<1>1. /\ Shape(c) /\ c.outstandingLiability = 0 /\ c.balance >= 0
      /\ \A b \in Batches : c.batches[b] = NoBatch /\ c.bitmap[b] = {}
      /\ \A o \in Recipients : c.received[o] = 0
  BY FinalityAssumption DEF Deployed, Shape
<1>2. \A b \in Batches : c.batches[b].total = 0 /\ c.batches[b].claimed = 0 /\ c.batches[b].root = NoRoot
  BY <1>1 DEF NoBatch
<1> HIDE DEF c
<1>3. \A b \in Batches : UnpaidOf(c)[b] = 0
  BY <1>2 DEF UnpaidOf
<1>4. SumFunctionOnSet(UnpaidOf(c), Batches) = 0
  BY <1>3, PayoutsAssumption, SumZero
<1>5. PaidAll(c, f) = {}
  BY <1>1 DEF PaidAll, PaidOf
<1>6. \A o \in Recipients : Worth({x \in PaidAll(c, f) : Owner[x] = o}) = 0
  BY <1>5, SumEmpty DEF Worth
<1>7. \A b \in Batches : BatchFits(c, f, b)
  BY <1>1 DEF BatchFits
<1>8. Fits(c, f)
  BY <1>1, <1>4, <1>6, <1>7 DEF Fits
<1>9. QED  BY <1>2, <1>8 DEF c

\* A batch that has no items yet may get some.
LEMMA PreparedFits ==
  ASSUME NEW c, NEW f, Fits(c, f), NEW g, \A k \in Batches : f[k] # <<>> => g[k] = f[k]
  PROVE  Fits(c, g)
<1>1. /\ Shape(c) /\ \A k \in Batches : BatchFits(c, f, k)
      /\ c.outstandingLiability = SumFunctionOnSet(UnpaidOf(c), Batches)
      /\ c.balance >= c.outstandingLiability
      /\ \A u \in Recipients : c.received[u] = Worth({x \in PaidAll(c, f) : Owner[x] = u})
  BY DEF Fits
<1>2. \A k \in Batches : f[k] = <<>> => c.batches[k] = NoBatch /\ c.bitmap[k] = {}
  BY <1>1 DEF BatchFits
<1>3. \A k \in Batches : PaidOf(c, g, k) = PaidOf(c, f, k)
  BY <1>2 DEF PaidOf
<1>4. PaidAll(c, g) = PaidAll(c, f)
  BY <1>3 DEF PaidAll
<1>5. ASSUME NEW k \in Batches PROVE BatchFits(c, g, k)
  <2>1. CASE f[k] = <<>>
    BY <1>2, <2>1 DEF BatchFits
  <2>2. CASE f[k] # <<>>
    BY <1>1, <1>3, <2>2 DEF BatchFits
  <2>3. QED  BY <2>1, <2>2
<1>6. QED  BY <1>1, <1>4, <1>5 DEF Fits

\* A claim of a committed batch pays, whatever else the contract has done.
LEMMA CommittedPays ==
  ASSUME NEW c, NEW f, ItemsOK(f), Fits(c, f), NEW b \in Batches, c.batches[b].root # NoRoot,
         NEW i \in DOMAIN f[b], i - 1 \notin c.bitmap[b]
  PROVE  CanClaim(SetPaused(c, FALSE), b, i - 1, Owner[f[b][i]], Amount[f[b][i]],
                  MerkleProof(LeavesOf(b, f[b]), i))
<1> DEFINE g == SetPaused(c, FALSE)
           p == f[b][i]
           L == LeavesOf(b, f[b])
           n == Len(f[b])
<1>1. /\ Shape(c) /\ \A k \in Batches : BatchFits(c, f, k)
      /\ c.outstandingLiability = SumFunctionOnSet(UnpaidOf(c), Batches)
      /\ c.balance >= c.outstandingLiability /\ c.balance \in Nat
  BY DEF Fits, Shape
<1>2. g.paused = FALSE /\ g.batches = c.batches /\ g.bitmap = c.bitmap /\ g.balance = c.balance
  BY <1>1 DEF SetPaused, Shape
<1>3. /\ f[b] # <<>> /\ c.bitmap[b] \subseteq 0..(n - 1)
      /\ c.batches[b].root = RootOf(b, f[b]) /\ c.batches[b].total = Worth(Range(f[b]))
      /\ c.batches[b].count = n /\ c.batches[b].claimed = Worth(PaidOf(c, f, b))
  BY <1>1, BatchFields
<1>4. f[b] \in Seq(Payouts) /\ n \in Nat /\ i \in 1..n
  BY DEF ItemsOK
<1>5. PICK j : j = i - 1
  OBVIOUS
<1>6. j \in 0..(n - 1) /\ j + 1 = i
  BY <1>4, <1>5
<1>7. /\ Range(f[b]) \in SUBSET Payouts /\ PaidOf(c, f, b) \in SUBSET Range(f[b])
      /\ p \in Range(f[b]) /\ p \notin PaidOf(c, f, b)
  BY <1>3, <1>5, <1>6, PaidFacts
<1>8. /\ Worth(PaidOf(c, f, b) \cup {p}) = Worth(PaidOf(c, f, b)) + Amount[p]
      /\ Worth(PaidOf(c, f, b) \cup {p}) <= Worth(Range(f[b]))
      /\ Amount[p] \in Nat \ {0}
  <2>1. PaidOf(c, f, b) \in SUBSET Payouts /\ p \in Payouts \ PaidOf(c, f, b)
    BY <1>7
  <2>2. PaidOf(c, f, b) \cup {p} \in SUBSET Range(f[b])
    BY <1>7
  <2> HIDE DEF p
  <2>3. QED  BY <1>7, <2>1, <2>2, WorthNat
<1>9. c.batches[b].claimed + Amount[p] <= c.batches[b].total
  BY <1>3, <1>8
<1>10. Amount[p] <= c.balance
  <2>1. /\ UnpaidOf(c)[b] = c.batches[b].total - c.batches[b].claimed
        /\ UnpaidOf(c)[b] \in Nat /\ c.outstandingLiability \in Nat
        /\ UnpaidOf(c)[b] <= c.outstandingLiability
    BY <1>1, LiabilityNat DEF UnpaidOf
  <2>2. c.batches[b].total \in Nat /\ c.batches[b].claimed \in Nat
    BY <1>1, BatchNat
  <2> HIDE DEF p
  <2>3. QED  BY <1>1, <1>8, <1>9, <2>1, <2>2
<1>11. Proves(Leaf(b, j, Owner[p], Amount[p]), MerkleProof(L, i), c.batches[b].root)
  <2>1. Len(L) = n /\ n \in Nat \ {0} /\ L[i] = Leaf(b, i - 1, Owner[p], Amount[p])
    BY <1>3, <1>4, LeavesFacts
  <2>2. Proves(L[i], MerkleProof(L, i), MerkleRoot(L))
    <3> HIDE DEF L, n
    <3>1. QED  BY <1>4, <2>1, ProofsProve
  <2> HIDE DEF L, p, n
  <2>3. QED  BY <1>3, <1>5, <2>1, <2>2 DEF RootOf, L
<1>12. j < c.batches[b].count /\ Amount[p] > 0
  BY <1>3, <1>4, <1>6, <1>8
<1> HIDE DEF g, p, L
<1>13. CanClaim(g, b, j, Owner[p], Amount[p], MerkleProof(L, i))
  BY <1>2, <1>3, <1>5, <1>9, <1>10, <1>11, <1>12 DEF CanClaim
<1>14. QED  BY <1>5, <1>13 DEF g, p, L

(***************************************************************************)
(* The invariant of settlement.                                            *)
(***************************************************************************)
Requests  == Batches \X (Nat \ {0})
Decided   == {"uncertain", "submitted", "confirmed", "finalized", "reverted", "replaced", "reorged"}
Attempt   == [state : Decided, transaction : {NoRequest} \cup Requests]
ItemsNow  == [b \in Batches |-> batch[b].items]

\* What is prepared, and what each attempt has asked for.
DatabaseOK ==
  /\ paidOut \subseteq Payouts
  /\ batch \in [Batches -> [state : States, items : Seq(Payouts), current : Nat]]
  /\ attempts \in [Batches -> Seq(Attempt)]
  /\ ItemsOK(ItemsNow)
  /\ \A b \in Batches :
       /\ Range(batch[b].items) \subseteq paidOut
       /\ batch[b].current = Len(attempts[b])
       /\ batch[b].state = "none" => batch[b] = NotPrepared
       /\ batch[b].state # "none" => batch[b].items # <<>>
       /\ \A n \in 1..Len(attempts[b]) : attempts[b][n].transaction \in {NoRequest, <<b, n>>}

\* The signer has only requests for batches that are prepared.
SignerOK ==
  /\ signed \subseteq received /\ received \subseteq Requests
  /\ \A r \in received : batch[r[1]].items # <<>>

\* The contract of every block, and what a commitment leaves in the later ones.
BlockOK(block) ==
  /\ block.ok \in BOOLEAN
  /\ block.request # NoRequest => block.request \in Requests /\ batch[block.request[1]].items # <<>>
  /\ Fits(block.contract, ItemsNow)
ChainOK ==
  /\ \E S : chain \in Seq(S)
  /\ top \in Nat /\ Len(chain) <= top
  /\ \A i \in 1..Len(chain) : BlockOK(chain[i])
  /\ \A i \in 1..Len(chain) : chain[i].request # NoRequest /\ chain[i].ok =>
       \A j \in i..Len(chain) : chain[j].contract.batches[chain[i].request[1]].root # NoRoot

\* A commitment too deep to be replaced.
Settled(r, h) ==
  /\ h \in 1..Len(chain) /\ chain[h].request = r /\ chain[h].ok /\ h + MaxDepth <= top
Deep(a) == a.verdict = "exact" /\ a.head - a.height >= MaxDepth
FinalOK ==
  /\ \A a \in stale : a.height \in Nat /\ a.head \in Nat /\ (Deep(a) => Settled(a.request, a.height))
  /\ \A b \in Batches :
       batch[b].state = "finalized" \/ (\E n \in 1..Len(attempts[b]) : attempts[b][n].state = "finalized")
         => \E r \in Requests : r[1] = b /\ \E h \in 1..Len(chain) : Settled(r, h)

SettlementInv == DatabaseOK /\ SignerOK /\ ChainOK /\ FinalOK

\* Sums written out.
LEMMA WorthSum ==
  ASSUME NEW S
  PROVE  MapThenSumSet(LAMBDA p : Amount[p], S) = Worth(S)
BY DEF MapThenSumSet, MapThenFoldSet, SumFunctionOnSet, FoldFunctionOnSet, Worth

\* The operators of the model in terms of the items.
LEMMA BatchTerms ==
  ASSUME NEW b \in Batches
  PROVE  /\ ItemsNow[b] = Items(b) /\ Items(b) = batch[b].items
         /\ Leaves(b) = LeavesOf(b, ItemsNow[b]) /\ Root(b) = RootOf(b, ItemsNow[b])
         /\ Total(b) = Worth(Range(ItemsNow[b]))
         /\ \A i : Proof(b, i) = MerkleProof(LeavesOf(b, ItemsNow[b]), i)
<1>1. ItemsNow[b] = Items(b) /\ Items(b) = batch[b].items
  BY DEF ItemsNow, Items
<1>2. Leaves(b) = LeavesOf(b, ItemsNow[b])
  BY <1>1 DEF Leaves, LeavesOf
<1>3. Root(b) = RootOf(b, ItemsNow[b])
  BY <1>2 DEF Root, RootOf
<1>4. \A i : Proof(b, i) = MerkleProof(LeavesOf(b, ItemsNow[b]), i)
  BY <1>2 DEF Proof
<1>5. Total(b) = Worth(Range(ItemsNow[b]))
  BY <1>1, WorthSum DEF Total
<1>6. QED  BY <1>1, <1>2, <1>3, <1>4, <1>5

\* The contract at the head of the chain.
LEMMA ContractFacts ==
  ASSUME ChainOK
  PROVE  /\ Fits(Contract, ItemsNow)
         /\ \A i \in 1..Len(chain) : chain[i].request # NoRequest /\ chain[i].ok =>
              Contract.batches[chain[i].request[1]].root # NoRoot
<1>1. Len(chain) \in Nat /\ (chain = <<>> <=> Len(chain) = 0)
  BY DEF ChainOK
<1>2. CASE chain = <<>>
  BY <1>1, <1>2, DeployedFits DEF Contract
<1>3. CASE chain # <<>>
  <2>1. Contract = chain[Len(chain)].contract /\ Len(chain) \in 1..Len(chain)
    BY <1>1, <1>3 DEF Contract, Last
  <2>2. \A i \in 1..Len(chain) : Len(chain) \in i..Len(chain)
    BY <1>1
  <2>3. QED  BY <2>1, <2>2 DEF ChainOK, BlockOK
<1>4. QED  BY <1>2, <1>3

(***************************************************************************)
(* Steps of the database.                                                  *)
(***************************************************************************)
LEMMA SettlementStart == SettlementInit => SettlementInv
<1> SUFFICES ASSUME SettlementInit PROVE SettlementInv
  OBVIOUS
<1>1. \A b \in Batches : batch[b] = NotPrepared /\ attempts[b] = <<>>
  BY DEF SettlementInit
<1>2. \A b \in Batches : ItemsNow[b] = <<>>
  BY <1>1 DEF ItemsNow, NotPrepared
<1>3. MaxItems \in Nat
  BY PayoutsAssumption
<1>4. ItemsNow \in [Batches -> Seq(Payouts)]
  <2>1. <<>> \in Seq(Payouts)
    OBVIOUS
  <2>2. \A b \in Batches : batch[b].items \in Seq(Payouts)
    BY <1>2, <2>1 DEF ItemsNow
  <2>3. QED  BY <2>2 DEF ItemsNow
<1>5. ItemsOK(ItemsNow)
  BY <1>2, <1>3, <1>4 DEF ItemsOK
<1>6. NotPrepared \in [state : States, items : Seq(Payouts), current : Nat]
  BY DEF NotPrepared, States
<1>7. batch \in [Batches -> [state : States, items : Seq(Payouts), current : Nat]]
  BY <1>6 DEF SettlementInit
<1>8. attempts \in [Batches -> Seq(Attempt)]
  BY DEF SettlementInit
<1>9. DatabaseOK
  BY <1>1, <1>5, <1>7, <1>8 DEF DatabaseOK, SettlementInit, NotPrepared, Range
<1>10. SignerOK
  BY DEF SignerOK, SettlementInit
<1>11. ChainOK
  BY DEF ChainOK, SettlementInit
<1>12. FinalOK
  BY <1>1 DEF FinalOK, SettlementInit, NotPrepared
<1>13. QED  BY <1>9, <1>10, <1>11, <1>12 DEF SettlementInv

\* A step that leaves the chain alone and the items of every batch that has some.
LEMMA QuietStep ==
  ASSUME SettlementInv, UNCHANGED network,
         \A b \in Batches : batch[b].items # <<>> => batch'[b].items = batch[b].items
  PROVE  ChainOK'
<1>1. chain' = chain /\ top' = top
  BY DEF network
<1>2. \A k \in Batches : ItemsNow[k] # <<>> => ItemsNow'[k] = ItemsNow[k]
  BY DEF ItemsNow
<1> DEFINE f == ItemsNow
           g == ItemsNow'
<1>3. \A c : Fits(c, f) => Fits(c, g)
  <2> HIDE DEF f, g
  <2>1. \A k \in Batches : f[k] # <<>> => g[k] = f[k]
    BY <1>2 DEF f, g
  <2>2. QED  BY <2>1, PreparedFits
<1>4. ASSUME NEW i \in 1..Len(chain) PROVE BlockOK(chain[i])'
  <2>1. BlockOK(chain[i])
    BY DEF SettlementInv, ChainOK
  <2>2. Fits(chain[i].contract, g)
    BY <1>3, <2>1 DEF BlockOK
  <2>3. chain[i].request # NoRequest =>
          chain[i].request \in Requests /\ batch[chain[i].request[1]].items # <<>>
    BY <2>1 DEF BlockOK
  <2>4. \A r \in Requests : r[1] \in Batches
    BY DEF Requests
  <2>5. chain[i].request # NoRequest => batch'[chain[i].request[1]].items # <<>>
    BY <2>3, <2>4
  <2>6. QED  BY <1>1, <2>1, <2>2, <2>3, <2>5 DEF BlockOK
<1>5. QED  BY <1>1, <1>4 DEF SettlementInv, ChainOK

\* A redemption keeps the invariant,
LEMMA RedeemKeeps ==
  ASSUME SettlementInv, Redeem
  PROVE  SettlementInv'
<1>1. /\ UNCHANGED <<batch, attempts, received, signed, chain, top, forks, stale>>
      /\ UNCHANGED network
  BY DEF Redeem, signer, network
<1>2. paidOut \subseteq paidOut' /\ paidOut' \subseteq Payouts
  <2>1. paidOut \subseteq Payouts
    BY DEF SettlementInv, DatabaseOK
  <2>2. IsFiniteSet(paidOut) /\ Redemptions \in Seq(Payouts)
    BY <2>1, PayoutsAssumption, FS_Subset
  <2>3. PICK k : k = Cardinality(paidOut) + 1
    OBVIOUS
  <2>4. Cardinality(paidOut) \in Nat
    BY <2>2, FS_CardinalityType
  <2>5. k \in 1..Len(Redemptions)
    BY <2>2, <2>3, <2>4 DEF Redeem
  <2>6. Redemptions[k] \in Payouts
    BY <2>2, <2>5
  <2>7. paidOut' = paidOut \cup {Redemptions[k]}
    BY <2>3 DEF Redeem
  <2>8. QED  BY <2>1, <2>6, <2>7
<1>3. ItemsNow' = ItemsNow
  BY <1>1 DEF ItemsNow
<1>4. DatabaseOK'
  BY <1>1, <1>2, <1>3 DEF SettlementInv, DatabaseOK
<1>5. SignerOK'
  BY <1>1 DEF SettlementInv, SignerOK
<1>6. ChainOK'
  BY <1>1, QuietStep
<1>7. FinalOK'
  BY <1>1 DEF SettlementInv, FinalOK, Settled
<1>8. QED  BY <1>4, <1>5, <1>6, <1>7 DEF SettlementInv

\* The ranks of a set of unbatched payouts are one to their number.
LEMMA Ranked ==
  ASSUME paidOut \subseteq Payouts
  PROVE  /\ IsFiniteSet(Unbatched) /\ Cardinality(Unbatched) \in Nat
         /\ \A i \in 1..Cardinality(Unbatched) : \E p \in Unbatched : Rank(p) = i
<1> DEFINE U == Unbatched
           n == Cardinality(U)
           B(p) == {q \in U : q <= p}
           r == [p \in U |-> Rank(p)]
<1>1. U \subseteq Payouts /\ Payouts \subseteq Nat /\ IsFiniteSet(U)
  BY PayoutsAssumption, FS_Subset DEF Unbatched
<1>2. n \in Nat
  BY <1>1, FS_CardinalityType
<1>3. \A p \in U : Rank(p) = Cardinality(B(p))
  BY DEF Rank
<1> HIDE DEF U
<1>4. \A p \in U : IsFiniteSet(B(p)) /\ Cardinality(B(p)) \in 1..n
  <2> TAKE p \in U
  <2>1. B(p) \in SUBSET U /\ p \in B(p)
    BY <1>1
  <2> HIDE DEF B
  <2>2. IsFiniteSet(B(p)) /\ Cardinality(B(p)) <= n
    BY <1>1, <2>1, FS_Subset
  <2>3. Cardinality(B(p)) \in Nat /\ Cardinality(B(p)) # 0
    BY <2>1, <2>2, FS_CardinalityType, FS_EmptySet
  <2>4. QED  BY <1>2, <2>2, <2>3
<1>5. ASSUME NEW p \in U, NEW q \in U, p < q PROVE Cardinality(B(p)) # Cardinality(B(q))
  <2>1. B(p) \in SUBSET B(q) /\ q \in B(q) /\ q \notin B(p)
    <3>1. \A x \in U : x \in Nat
      BY <1>1
    <3>2. p \in Nat /\ q \in Nat
      BY <3>1
    <3>3. \A x \in U : x <= p => x <= q
      BY <1>5, <3>1, <3>2
    <3>4. q <= q /\ ~(q <= p)
      BY <1>5, <3>2
    <3>5. QED  BY <3>3, <3>4
  <2>2. IsFiniteSet(B(q))
    BY <1>4
  <2> HIDE DEF B
  <2>3. QED  BY <2>1, <2>2, FS_Subset
<1> HIDE DEF B
<1>6. r \in [U -> 1..n]
  BY <1>3, <1>4
<1>7. \A p, q \in U : r[p] = r[q] => p = q
  <2> SUFFICES ASSUME NEW p \in U, NEW q \in U, p # q PROVE r[p] # r[q]
    OBVIOUS
  <2>1. p \in Nat /\ q \in Nat
    BY <1>1
  <2>2. p < q \/ q < p
    BY <2>1
  <2>3. r[p] = Cardinality(B(p)) /\ r[q] = Cardinality(B(q))
    BY <1>3
  <2> HIDE DEF r
  <2>4. QED  BY <1>5, <2>2, <2>3
<1> HIDE DEF r
<1>8. r \in Injection(U, 1..n)
  BY <1>6, <1>7 DEF Injection, IsInjective
<1>9. Cardinality(1..n) = n /\ IsFiniteSet(1..n)
  BY <1>2, FS_Interval
<1>10. r \in Surjection(U, 1..n)
  <2>1. PICK T : T = 1..n
    OBVIOUS
  <2>2. r \in Injection(U, T) /\ Cardinality(U) = Cardinality(T) /\ IsFiniteSet(T)
    BY <1>8, <1>9, <2>1
  <2>3. r \in Surjection(U, T)
    BY <1>1, <2>2, FS_Injection
  <2>4. QED  BY <2>1, <2>3
<1>11. ASSUME NEW i \in 1..n PROVE \E p \in U : Rank(p) = i
  <2>1. PICK p \in U : r[p] = i
    BY <1>10 DEF Surjection
  <2>2. QED  BY <2>1 DEF r
<1>12. QED  BY <1>1, <1>2, <1>11 DEF U

\* The next batch takes unbatched payouts, each once, and no more than fit.
LEMMA NextFacts ==
  ASSUME paidOut \subseteq Payouts
  PROVE  /\ NextItems \in Seq(Payouts) /\ Len(NextItems) <= MaxItems
         /\ \A i \in 1..Len(NextItems) : NextItems[i] \in Unbatched
         /\ \A i, j \in 1..Len(NextItems) : NextItems[i] = NextItems[j] => i = j
<1> DEFINE U == Unbatched
           n == Cardinality(U)
           m == Min({MaxItems, n})
           s == NextItems
<1>1. n \in Nat /\ MaxItems \in Nat /\ U \subseteq Payouts
  BY Ranked, PayoutsAssumption DEF Unbatched
<1>2. \A i \in 1..n : \E p \in U : Rank(p) = i
  BY Ranked
<1>3. m \in Nat /\ m <= MaxItems /\ m <= n
  <2> HIDE DEF n
  <2>1. \E x \in {MaxItems, n} : \A y \in {MaxItems, n} : x <= y
    BY <1>1
  <2>2. m \in {MaxItems, n} /\ \A y \in {MaxItems, n} : m <= y
    BY <2>1 DEF Min
  <2> HIDE DEF m
  <2>3. QED  BY <1>1, <2>2
<1>4. s = [i \in 1..m |-> CHOOSE p \in U : Rank(p) = i]
  BY DEF NextItems
<1> HIDE DEF m, n, U, s
<1>5. \A i \in 1..m : s[i] \in U /\ Rank(s[i]) = i
  <2> TAKE i \in 1..m
  <2>1. i \in 1..n
    BY <1>1, <1>3
  <2>2. QED  BY <1>2, <1>4, <2>1
<1>6. s \in [1..m -> Payouts]
  BY <1>1, <1>4, <1>5
<1>7. s \in Seq(Payouts) /\ Len(s) = m
  BY <1>3, <1>6
<1>8. QED  BY <1>3, <1>5, <1>7 DEF s, U

\* a preparation,
LEMMA PrepareKeeps ==
  ASSUME SettlementInv, NEW b \in Batches, PrepareSettlementBatch(b)
  PROVE  SettlementInv'
<1> DEFINE new == [state |-> "prepared", items |-> NextItems, current |-> 0]
           s == NextItems
<1>1. /\ batch[b] = NotPrepared /\ s # <<>> /\ batch' = [batch EXCEPT ![b] = new]
      /\ UNCHANGED <<paidOut, attempts, received, signed, chain, top, forks, stale>>
      /\ UNCHANGED network
  BY DEF PrepareSettlementBatch, signer, network
<1>2. /\ paidOut \subseteq Payouts
      /\ batch \in [Batches -> [state : States, items : Seq(Payouts), current : Nat]]
      /\ attempts \in [Batches -> Seq(Attempt)] /\ ItemsOK(ItemsNow)
  BY DEF SettlementInv, DatabaseOK
<1>3. /\ s \in Seq(Payouts) /\ Len(s) <= MaxItems
      /\ \A i \in 1..Len(s) : s[i] \in Unbatched
      /\ \A i, j \in 1..Len(s) : s[i] = s[j] => i = j
  BY <1>2, NextFacts
<1> HIDE DEF s
<1>4. /\ batch' \in [Batches -> [state : States, items : Seq(Payouts), current : Nat]]
      /\ batch'[b].items = s /\ batch'[b].state = "prepared" /\ batch'[b].current = 0
      /\ \A d \in Batches \ {b} : batch'[d] = batch[d]
  <2>1. new \in [state : States, items : Seq(Payouts), current : Nat]
    BY <1>3 DEF States, s
  <2>2. batch'[b] = new
    BY <1>1, <1>2
  <2>3. QED  BY <1>1, <1>2, <2>1, <2>2 DEF s
<1>5. batch[b].items = <<>> /\ batch[b].current = 0
  BY <1>1 DEF NotPrepared
<1>6. /\ ItemsNow'[b] = s /\ (\A d \in Batches \ {b} : ItemsNow'[d] = ItemsNow[d])
      /\ ItemsNow' \in [Batches -> Seq(Payouts)]
  BY <1>2, <1>3, <1>4 DEF ItemsNow
<1>7. \A i \in 1..Len(s) : s[i] \in paidOut /\ \A d \in Batches : \A j \in 1..Len(ItemsNow[d]) : s[i] # ItemsNow[d][j]
  <2> TAKE i \in 1..Len(s)
  <2>1. s[i] \in paidOut /\ \A d \in Batches : s[i] \notin Range(Items(d))
    BY <1>3 DEF Unbatched, Batched
  <2>2. \A d \in Batches : ItemsNow[d] = Items(d) /\ ItemsNow[d] \in Seq(Payouts)
    BY <1>2 DEF ItemsNow, Items
  <2>3. \A d \in Batches : \A j \in 1..Len(ItemsNow[d]) : ItemsNow[d][j] \in Range(Items(d))
    BY <2>2 DEF Range
  <2>4. QED  BY <2>1, <2>3
<1>8. ItemsOK(ItemsNow')
  <2> DEFINE f == ItemsNow
             g == ItemsNow'
  <2> HIDE DEF f, g
  <2>1. /\ g \in [Batches -> Seq(Payouts)] /\ g[b] = s /\ \A d \in Batches \ {b} : g[d] = f[d]
    BY <1>6 DEF f, g
  <2>2. \A d \in Batches : Len(f[d]) <= MaxItems
    BY <1>2 DEF f, ItemsOK
  <2>3. \A x, y \in Batches : \A i \in 1..Len(f[x]), j \in 1..Len(f[y]) :
          f[x][i] = f[y][j] => x = y /\ i = j
    BY <1>2 DEF f, ItemsOK
  <2>4. \A i \in 1..Len(s) : \A d \in Batches : \A j \in 1..Len(f[d]) : s[i] # f[d][j]
    BY <1>7 DEF f
  <2>5. \A d \in Batches : Len(g[d]) <= MaxItems
    BY <1>3, <2>1, <2>2
  <2>6. ASSUME NEW x \in Batches, NEW y \in Batches, NEW i \in 1..Len(g[x]), NEW j \in 1..Len(g[y]),
               g[x][i] = g[y][j]
        PROVE  x = y /\ i = j
    <3>1. CASE x = b /\ y = b
      BY <1>3, <2>1, <2>6, <3>1
    <3>2. CASE x = b /\ y # b
      BY <2>1, <2>4, <2>6, <3>2
    <3>3. CASE x # b /\ y = b
      BY <2>1, <2>4, <2>6, <3>3
    <3>4. CASE x # b /\ y # b
      BY <2>1, <2>3, <2>6, <3>4
    <3>5. QED  BY <3>1, <3>2, <3>3, <3>4
  <2>7. QED  BY <2>1, <2>5, <2>6 DEF ItemsOK, g
<1>9. DatabaseOK'
  <2>1. \A d \in Batches :
          /\ Range(batch'[d].items) \subseteq paidOut
          /\ batch'[d].current = Len(attempts[d])
          /\ batch'[d].state = "none" => batch'[d] = NotPrepared
          /\ batch'[d].state # "none" => batch'[d].items # <<>>
          /\ \A n \in 1..Len(attempts[d]) : attempts[d][n].transaction \in {NoRequest, <<d, n>>}
    <3>1. Range(s) \subseteq paidOut
      BY <1>3, <1>7 DEF Range
    <3>2. \A d \in Batches \ {b} :
          /\ Range(batch'[d].items) \subseteq paidOut
          /\ batch'[d].current = Len(attempts[d])
          /\ batch'[d].state = "none" => batch'[d] = NotPrepared
          /\ batch'[d].state # "none" => batch'[d].items # <<>>
      BY <1>4 DEF SettlementInv, DatabaseOK
    <3>3. batch'[b].current = Len(attempts[b])
      BY <1>4, <1>5 DEF SettlementInv, DatabaseOK
    <3>4. \A d \in Batches : \A n \in 1..Len(attempts[d]) : attempts[d][n].transaction \in {NoRequest, <<d, n>>}
      BY DEF SettlementInv, DatabaseOK
    <3>5. s # <<>>
      BY <1>1
    <3>6. QED  BY <1>4, <3>1, <3>2, <3>3, <3>4, <3>5
  <2>2. QED  BY <1>1, <1>2, <1>4, <1>8, <2>1 DEF DatabaseOK
<1>10. \A d \in Batches : batch[d].items # <<>> => batch'[d].items = batch[d].items
  BY <1>4, <1>5
<1>11. SignerOK'
  <2>1. \A r \in received : r \in Requests /\ r[1] \in Batches /\ batch[r[1]].items # <<>>
    BY DEF SettlementInv, SignerOK, Requests
  <2>2. QED  BY <1>1, <1>10, <2>1 DEF SettlementInv, SignerOK
<1>12. ChainOK'
  BY <1>1, <1>10, QuietStep
<1>13. FinalOK'
  <2>1. \A d \in Batches : batch'[d].state = "finalized" => batch[d].state = "finalized"
    BY <1>4
  <2>2. QED  BY <1>1, <2>1 DEF SettlementInv, FinalOK, Settled
<1>14. QED  BY <1>9, <1>11, <1>12, <1>13 DEF SettlementInv

(***************************************************************************)
(* Steps of the signer.                                                    *)
(***************************************************************************)
LEMMA SignerKeeps ==
  ASSUME SettlementInv, NEW r \in Requests, batch[r[1]].items # <<>>, SignerTakes(r),
         \A b \in Batches : batch'[b].items = batch[b].items
  PROVE  SignerOK'
<1>1. received' = received \cup {r} /\ signed' \subseteq signed \cup {r}
      /\ (signed' = signed \/ signed' = signed \cup {r})
  BY DEF SignerTakes
<1>2. \A x \in received : x \in Requests /\ x[1] \in Batches /\ batch[x[1]].items # <<>>
  BY DEF SettlementInv, SignerOK, Requests
<1>3. r[1] \in Batches
  BY DEF Requests
<1>4. signed \subseteq received
  BY DEF SettlementInv, SignerOK
<1>5. QED  BY <1>1, <1>2, <1>3, <1>4 DEF SignerOK

\* The request that a submission of a prepared batch makes.
LEMMA NextRequest ==
  ASSUME SettlementInv, NEW b \in Batches, batch[b].state # "none"
  PROVE  /\ SignerRequest(b) \in Requests /\ SignerRequest(b)[1] = b
         /\ SignerRequest(b) = <<b, Len(attempts[b]) + 1>>
         /\ batch[b].items # <<>>
<1>1. attempts[b] \in Seq(Attempt) /\ batch[b].items # <<>>
  BY DEF SettlementInv, DatabaseOK
<1>2. Len(attempts[b]) + 1 \in Nat \ {0}
  BY <1>1
<1>3. QED  BY <1>1, <1>2 DEF SignerRequest, RequestOf, Requests

\* a submission that is lost,
LEMMA LostKeeps ==
  ASSUME SettlementInv, NEW b \in Batches, SubmitIsLost(b)
  PROVE  SettlementInv'
<1>1. /\ batch[b].state # "none" /\ SignerTakes(SignerRequest(b))
      /\ UNCHANGED <<paidOut, batch, attempts, chain, top, forks, stale>>
      /\ UNCHANGED network
  BY DEF SubmitIsLost, database, network
<1>2. SignerOK'
  BY <1>1, NextRequest, SignerKeeps
<1>3. ItemsNow' = ItemsNow
  BY <1>1 DEF ItemsNow
<1>4. DatabaseOK'
  BY <1>1, <1>3 DEF SettlementInv, DatabaseOK
<1>5. ChainOK'
  BY <1>1, QuietStep
<1>6. FinalOK'
  BY <1>1 DEF SettlementInv, FinalOK, Settled
<1>7. QED  BY <1>2, <1>4, <1>5, <1>6 DEF SettlementInv

\* a request that is signed late,
LEMMA LateKeeps ==
  ASSUME SettlementInv, NEW r, SignLate(r)
  PROVE  SettlementInv'
<1>1. /\ r \in received /\ signed' = signed \cup {r} /\ received' = received
      /\ UNCHANGED <<paidOut, batch, attempts, chain, top, forks, stale>>
      /\ UNCHANGED network
  BY DEF SignLate, database, network
<1>2. SignerOK'
  BY <1>1 DEF SettlementInv, SignerOK
<1>3. ItemsNow' = ItemsNow
  BY <1>1 DEF ItemsNow
<1>4. DatabaseOK'
  BY <1>1, <1>3 DEF SettlementInv, DatabaseOK
<1>5. ChainOK'
  BY <1>1, QuietStep
<1>6. FinalOK'
  BY <1>1 DEF SettlementInv, FinalOK, Settled
<1>7. QED  BY <1>2, <1>4, <1>5, <1>6 DEF SettlementInv

\* Replacing an attempt changes its state and nothing else.
LEMMA Replaced ==
  ASSUME SettlementInv, NEW b \in Batches
  PROVE  /\ ReplaceCurrent(b) \in Seq(Attempt) /\ Len(ReplaceCurrent(b)) = Len(attempts[b])
         /\ \A n \in 1..Len(attempts[b]) :
              /\ ReplaceCurrent(b)[n].transaction = attempts[b][n].transaction
              /\ ReplaceCurrent(b)[n].state \in {attempts[b][n].state, "replaced"}
<1> DEFINE s == attempts[b]
           m == batch[b].current
<1>1. s \in Seq(Attempt) /\ m = Len(s)
  BY DEF SettlementInv, DatabaseOK
<1>2. CASE ~HasAttempt(b)
  BY <1>1, <1>2 DEF ReplaceCurrent
<1>3. CASE HasAttempt(b)
  <2>1. ReplaceCurrent(b) = [s EXCEPT ![m] = [s[m] EXCEPT !.state = "replaced"]]
    BY <1>3 DEF ReplaceCurrent
  <2>2. m \in 1..Len(s)
    BY <1>1, <1>3 DEF HasAttempt
  <2>3. s[m] \in Attempt
    BY <1>1, <2>2
  <2>4. /\ [s[m] EXCEPT !.state = "replaced"] \in Attempt
        /\ [s[m] EXCEPT !.state = "replaced"].transaction = s[m].transaction
        /\ [s[m] EXCEPT !.state = "replaced"].state = "replaced"
    BY <2>3 DEF Attempt, Decided
  <2> DEFINE e == [s[m] EXCEPT !.state = "replaced"]
  <2> HIDE DEF e, s, m
  <2>5. ReplaceCurrent(b) = [s EXCEPT ![m] = e]
    BY <2>1 DEF e
  <2>6. e \in Attempt /\ e.transaction = s[m].transaction /\ e.state = "replaced"
    BY <2>4 DEF e
  <2>7. [s EXCEPT ![m] = e] \in Seq(Attempt) /\ Len([s EXCEPT ![m] = e]) = Len(s)
    BY <1>1, <2>2, <2>6
  <2>8. \A n \in 1..Len(s) : [s EXCEPT ![m] = e][n] = IF n = m THEN e ELSE s[n]
    BY <1>1, <2>2
  <2>9. QED  BY <2>5, <2>6, <2>7, <2>8 DEF s
<1>4. QED  BY <1>2, <1>3

\* Nothing final is added, and the chain is as it was.
LEMMA SameChain ==
  ASSUME SettlementInv, UNCHANGED <<chain, top, forks, stale>>,
         \A d \in Batches : batch'[d].state = "finalized" => batch[d].state = "finalized",
         \A d \in Batches : (\E n \in 1..Len(attempts'[d]) : attempts'[d][n].state = "finalized")
           => \E n \in 1..Len(attempts[d]) : attempts[d][n].state = "finalized"
  PROVE  FinalOK'
<1>1. \A r, h : Settled(r, h) => Settled(r, h)'
  BY DEF Settled
<1>2. chain' = chain /\ stale' = stale
  OBVIOUS
<1>3. \A a \in stale : a.height \in Nat /\ a.head \in Nat /\ (Deep(a) => Settled(a.request, a.height)')
  BY <1>1 DEF SettlementInv, FinalOK
<1>4. ASSUME NEW d \in Batches,
             batch'[d].state = "finalized" \/ (\E n \in 1..Len(attempts'[d]) : attempts'[d][n].state = "finalized")
      PROVE  \E r \in Requests : r[1] = d /\ \E h \in 1..Len(chain') : Settled(r, h)'
  <2>1. batch[d].state = "finalized" \/ (\E n \in 1..Len(attempts[d]) : attempts[d][n].state = "finalized")
    BY <1>4
  <2>2. PICK r \in Requests : r[1] = d /\ \E h \in 1..Len(chain) : Settled(r, h)
    BY <2>1 DEF SettlementInv, FinalOK
  <2>3. QED  BY <1>1, <1>2, <2>2
<1>5. QED  BY <1>2, <1>3, <1>4 DEF FinalOK

\* and a submission.
LEMMA SubmitKeeps ==
  ASSUME SettlementInv, NEW b \in Batches, NEW answer \in {"submitted", "uncertain"},
         SubmitSettlementBatch(b, answer)
  PROVE  SettlementInv'
<1> DEFINE r == SignerRequest(b)
           s == attempts[b]
           old == ReplaceCurrent(b)
           new == [state |-> answer, transaction |-> IF answer = "submitted" THEN r ELSE NoRequest]
<1>1. /\ batch[b].state # "none" /\ SignerTakes(r)
      /\ attempts' = [attempts EXCEPT ![b] = Append(old, new)]
      /\ batch' = [batch EXCEPT ![b].state = "submitted", ![b].current = Len(s) + 1]
      /\ UNCHANGED <<paidOut, chain, top, forks, stale>>
      /\ UNCHANGED network
  BY DEF SubmitSettlementBatch, network
<1>2. /\ batch \in [Batches -> [state : States, items : Seq(Payouts), current : Nat]]
      /\ attempts \in [Batches -> Seq(Attempt)] /\ s \in Seq(Attempt)
  BY DEF SettlementInv, DatabaseOK
<1>3. r \in Requests /\ r[1] = b /\ r = <<b, Len(s) + 1>> /\ batch[b].items # <<>>
  BY <1>1, NextRequest
<1>4. /\ old \in Seq(Attempt) /\ Len(old) = Len(s)
      /\ \A n \in 1..Len(s) : /\ old[n].transaction = s[n].transaction
                              /\ old[n].state \in {s[n].state, "replaced"}
  BY Replaced
<1>5. new \in Attempt /\ new.transaction \in {NoRequest, <<b, Len(s) + 1>>} /\ new.state # "finalized"
  BY <1>3 DEF Attempt, Decided
<1> HIDE DEF old, new, r
<1>6. /\ batch'[b].items = batch[b].items /\ batch'[b].state = "submitted"
      /\ batch'[b].current = Len(s) + 1
      /\ \A d \in Batches \ {b} : batch'[d] = batch[d]
      /\ batch' \in [Batches -> [state : States, items : Seq(Payouts), current : Nat]]
  <2>1. batch' = [batch EXCEPT ![b] = [batch[b] EXCEPT !.state = "submitted", !.current = Len(s) + 1]]
    BY <1>1, <1>2
  <2>2. batch[b] \in [state : States, items : Seq(Payouts), current : Nat] /\ Len(s) + 1 \in Nat
    BY <1>2
  <2> DEFINE e == [batch[b] EXCEPT !.state = "submitted", !.current = Len(s) + 1]
  <2>3. /\ e \in [state : States, items : Seq(Payouts), current : Nat]
        /\ e.items = batch[b].items /\ e.state = "submitted" /\ e.current = Len(s) + 1
    BY <2>2 DEF States
  <2>4. batch' = [batch EXCEPT ![b] = e]
    BY <2>1
  <2> HIDE DEF e
  <2>5. QED  BY <1>2, <2>3, <2>4
<1>7. /\ attempts'[b] = Append(old, new) /\ \A d \in Batches \ {b} : attempts'[d] = attempts[d]
      /\ attempts' \in [Batches -> Seq(Attempt)]
  BY <1>1, <1>2, <1>4, <1>5
<1>8. /\ Len(Append(old, new)) = Len(s) + 1 /\ Append(old, new)[Len(s) + 1] = new
      /\ \A n \in 1..Len(s) : Append(old, new)[n] = old[n]
      /\ \A n \in 1..(Len(s) + 1) : n \in 1..Len(s) \/ n = Len(s) + 1
  BY <1>2, <1>4, <1>5
<1>9. \A d \in Batches : batch'[d].items = batch[d].items
  BY <1>6
<1>10. ItemsNow' = ItemsNow
  BY <1>9 DEF ItemsNow
<1>11. SignerOK'
  BY <1>1, <1>3, <1>9, SignerKeeps
<1>12. ChainOK'
  BY <1>1, <1>9, QuietStep
<1>13. DatabaseOK'
  <2>1. \A d \in Batches :
          /\ Range(batch[d].items) \subseteq paidOut
          /\ batch[d].current = Len(attempts[d])
          /\ batch[d].state = "none" => batch[d] = NotPrepared
          /\ batch[d].state # "none" => batch[d].items # <<>>
          /\ \A n \in 1..Len(attempts[d]) : attempts[d][n].transaction \in {NoRequest, <<d, n>>}
    BY DEF SettlementInv, DatabaseOK
  <2>2. \A d \in Batches :
          /\ Range(batch'[d].items) \subseteq paidOut
          /\ batch'[d].state = "none" => batch'[d] = NotPrepared
          /\ batch'[d].state # "none" => batch'[d].items # <<>>
    BY <1>1, <1>6, <2>1
  <2>3. \A d \in Batches : batch'[d].current = Len(attempts'[d])
    BY <1>6, <1>7, <1>8, <2>1
  <2>4. \A n \in 1..Len(attempts'[b]) : attempts'[b][n].transaction \in {NoRequest, <<b, n>>}
    BY <1>4, <1>5, <1>7, <1>8, <2>1
  <2>5. \A d \in Batches : \A n \in 1..Len(attempts'[d]) : attempts'[d][n].transaction \in {NoRequest, <<d, n>>}
    BY <1>7, <2>1, <2>4
  <2>6. paidOut' = paidOut /\ paidOut \subseteq Payouts /\ ItemsOK(ItemsNow')
    BY <1>1, <1>10 DEF SettlementInv, DatabaseOK
  <2>7. QED  BY <1>6, <1>7, <2>2, <2>3, <2>5, <2>6 DEF DatabaseOK
<1>14. FinalOK'
  <2>1. \A d \in Batches : batch'[d].state = "finalized" => batch[d].state = "finalized"
    BY <1>6
  <2>2. \A d \in Batches : (\E n \in 1..Len(attempts'[d]) : attempts'[d][n].state = "finalized")
          => \E n \in 1..Len(attempts[d]) : attempts[d][n].state = "finalized"
    <3>1. ASSUME NEW n \in 1..Len(attempts'[b]), attempts'[b][n].state = "finalized"
          PROVE  \E k \in 1..Len(s) : s[k].state = "finalized"
      BY <1>4, <1>5, <1>7, <1>8, <3>1
    <3>2. QED  BY <1>7, <3>1
  <2>3. QED  BY <1>1, <2>1, <2>2, SameChain
<1>15. QED  BY <1>11, <1>12, <1>13, <1>14 DEF SettlementInv

(***************************************************************************)
(* Steps of the chain.                                                     *)
(***************************************************************************)

\* What stays true of the database while only the chain moves.
LEMMA ChainMoves ==
  ASSUME SettlementInv, UNCHANGED <<database, signer>>
  PROVE  /\ DatabaseOK' /\ SignerOK' /\ ItemsNow' = ItemsNow
         /\ \A block : BlockOK(block) => BlockOK(block)'
<1>1. /\ paidOut' = paidOut /\ batch' = batch /\ attempts' = attempts
      /\ received' = received /\ signed' = signed
  BY DEF database, signer
<1>2. ItemsNow' = ItemsNow
  BY <1>1 DEF ItemsNow
<1>3. DatabaseOK'
  BY <1>1, <1>2 DEF SettlementInv, DatabaseOK
<1>4. SignerOK'
  BY <1>1 DEF SettlementInv, SignerOK
<1>5. \A block : BlockOK(block) => BlockOK(block)'
  BY <1>1, <1>2 DEF BlockOK
<1>6. QED  BY <1>2, <1>3, <1>4, <1>5

\* What a chain with other blocks must keep for what is settled to stay so.
LEMMA FinalKept ==
  ASSUME SettlementInv, UNCHANGED <<database, signer>>,
         \A r, h : Settled(r, h) => Settled(r, h)',
         \A a \in stale' \ stale : a.height \in Nat /\ a.head \in Nat /\ (Deep(a) => Settled(a.request, a.height))
  PROVE  FinalOK'
<1>1. batch' = batch /\ attempts' = attempts
  BY DEF database
<1>2. \A a \in stale' : a.height \in Nat /\ a.head \in Nat /\ (Deep(a) => Settled(a.request, a.height)')
  BY DEF SettlementInv, FinalOK
<1>3. ASSUME NEW d \in Batches,
             batch[d].state = "finalized" \/ (\E n \in 1..Len(attempts[d]) : attempts[d][n].state = "finalized")
      PROVE  \E r \in Requests : r[1] = d /\ \E h \in 1..Len(chain') : Settled(r, h)'
  <2>1. PICK r \in Requests : r[1] = d /\ \E h \in 1..Len(chain) : Settled(r, h)
    BY <1>3 DEF SettlementInv, FinalOK
  <2>2. PICK h \in 1..Len(chain) : Settled(r, h)
    BY <2>1
  <2>3. Settled(r, h)'
    BY <2>2
  <2>4. h \in 1..Len(chain')
    BY <2>3 DEF Settled
  <2>5. QED  BY <2>1, <2>3, <2>4
<1>4. QED  BY <1>1, <1>2, <1>3 DEF FinalOK

\* A block keeps the invariant if its contract fits and forgets no commitment.
LEMMA MineKeeps ==
  ASSUME SettlementInv, NEW r, NEW ok \in BOOLEAN, NEW c, Mine(r, ok, c), Fits(c, ItemsNow),
         r # NoRequest => r \in Requests /\ batch[r[1]].items # <<>>,
         \A b \in Batches : Contract.batches[b].root # NoRoot => c.batches[b].root # NoRoot,
         r # NoRequest /\ ok => c.batches[r[1]].root # NoRoot
  PROVE  SettlementInv'
<1> DEFINE new == [fork |-> forks, request |-> r, ok |-> ok, contract |-> c]
           n == Len(chain)
<1>1. /\ chain' = Append(chain, new) /\ top' = Max({top, Len(chain')})
      /\ UNCHANGED <<database, signer>> /\ stale' = stale
  BY DEF Mine
<1>2. PICK S : chain \in Seq(S)
  BY DEF SettlementInv, ChainOK
<1>3. new.request = r /\ new.ok = ok /\ new.contract = c
  OBVIOUS
<1> HIDE DEF new
<1>4. /\ n \in Nat /\ Len(chain') = n + 1 /\ chain'[n + 1] = new
      /\ \A i \in 1..n : chain'[i] = chain[i]
      /\ \A i \in 1..(n + 1) : i \in 1..n \/ i = n + 1
  BY <1>1, <1>2
<1>5. chain' \in Seq(S \cup {new})
  BY <1>1, <1>2
<1>6. top \in Nat /\ n <= top
  BY DEF SettlementInv, ChainOK
<1>7. top' \in Nat /\ top <= top' /\ n + 1 <= top'
  <2> DEFINE m == n + 1
             M == Max({top, m})
  <2>1. top' = M /\ m \in Nat
    BY <1>1, <1>4
  <2> HIDE DEF m
  <2>2. \E x \in {top, m} : \A y \in {top, m} : x >= y
    BY <1>6, <2>1
  <2>3. M \in {top, m} /\ \A y \in {top, m} : M >= y
    BY <2>2 DEF Max
  <2>4. M \in Nat /\ top <= M /\ m <= M
    <3> HIDE DEF M
    <3>1. QED  BY <1>6, <2>1, <2>3
  <2>5. QED  BY <2>1, <2>4 DEF m
<1>8. DatabaseOK' /\ SignerOK' /\ \A block : BlockOK(block) => BlockOK(block)'
  BY <1>1, ChainMoves
<1>9. BlockOK(new)
  BY <1>3 DEF BlockOK
<1>10. \A i \in 1..n : BlockOK(chain[i])
  BY DEF SettlementInv, ChainOK
<1>11. ASSUME NEW i \in 1..(n + 1) PROVE BlockOK(chain[i])'
  <2>1. PICK block : block = chain'[i]
    OBVIOUS
  <2>2. BlockOK(block)
    BY <1>4, <1>9, <1>10, <2>1
  <2>3. BlockOK(block)'
    BY <1>8, <2>2
  <2>4. QED  BY <2>1, <2>3 DEF BlockOK
<1>12. ASSUME NEW i \in 1..(n + 1), chain'[i].request # NoRequest, chain'[i].ok, NEW j \in i..(n + 1)
       PROVE  chain'[j].contract.batches[chain'[i].request[1]].root # NoRoot
  <2>1. CASE i = n + 1
    <3>1. j = n + 1
      BY <1>4, <2>1
    <3>2. QED  BY <1>3, <1>4, <1>12, <2>1, <3>1
  <2>2. CASE i \in 1..n
    <3>1. chain'[i] = chain[i] /\ chain[i].request # NoRequest /\ chain[i].ok
      BY <1>4, <1>12, <2>2
    <3>2. CASE j = n + 1
      <4>1. Contract.batches[chain[i].request[1]].root # NoRoot
        BY <2>2, <3>1, ContractFacts DEF SettlementInv
      <4>2. chain[i].request[1] \in Batches
        BY <1>10, <2>2, <3>1 DEF BlockOK, Requests
      <4>3. QED  BY <1>3, <1>4, <3>1, <3>2, <4>1, <4>2
    <3>3. CASE j # n + 1
      <4>1. j \in i..n /\ j \in 1..n
        BY <1>4, <2>2, <3>3
      <4>2. chain[j].contract.batches[chain[i].request[1]].root # NoRoot
        BY <2>2, <3>1, <4>1 DEF SettlementInv, ChainOK
      <4>3. QED  BY <1>4, <3>1, <4>1, <4>2
    <3>4. QED  BY <3>2, <3>3
  <2>3. QED  BY <1>4, <2>1, <2>2
<1>13. ChainOK'
  BY <1>4, <1>5, <1>7, <1>11, <1>12 DEF ChainOK
<1>14. \A x, h : Settled(x, h) => Settled(x, h)'
  <2> SUFFICES ASSUME NEW x, NEW h, Settled(x, h) PROVE Settled(x, h)'
    OBVIOUS
  <2>1. h \in 1..n /\ chain[h].request = x /\ chain[h].ok /\ h + MaxDepth <= top
    BY DEF Settled
  <2>2. h \in 1..(n + 1) /\ chain'[h] = chain[h] /\ MaxDepth \in Nat
    BY <1>4, <2>1, FinalityAssumption
  <2>3. h + MaxDepth <= top'
    BY <1>6, <1>7, <2>1, <2>2
  <2>4. QED  BY <1>4, <2>1, <2>2, <2>3 DEF Settled
<1>15. FinalOK'
  BY <1>1, <1>14, FinalKept
<1>16. QED  BY <1>8, <1>13, <1>15 DEF SettlementInv

\* What an observer of the canonical chain says is true of it.
LEMMA SeenFacts ==
  ASSUME SettlementInv
  PROVE  \A a \in Seen : a.height \in Nat /\ a.head \in Nat /\ (Deep(a) => Settled(a.request, a.height))
<1> SUFFICES ASSUME NEW a \in Seen
             PROVE  a.height \in Nat /\ a.head \in Nat /\ (Deep(a) => Settled(a.request, a.height))
  OBVIOUS
<1>1. PICK S : chain \in Seq(S)
  BY DEF SettlementInv, ChainOK
<1>2. DOMAIN chain = 1..Len(chain) /\ Len(chain) \in Nat
  BY <1>1
<1>3. PICK head \in 1..Len(chain) : a \in SeenFrom(head)
  BY <1>2 DEF Seen
<1>4. PICK i \in Submitted \cap 1..head :
        a = [request |-> chain[i].request, height |-> i, fork |-> chain[i].fork, head |-> head,
             verdict |-> IF chain[i].ok THEN "exact" ELSE "reverted"]
  BY <1>3 DEF SeenFrom
<1>5. /\ a.request = chain[i].request /\ a.height = i /\ a.head = head
      /\ a.verdict = "exact" => chain[i].ok
  BY <1>4
<1>6. i \in Nat /\ head \in Nat /\ i \in 1..Len(chain) /\ head <= Len(chain)
  BY <1>2, <1>3
<1>7. top \in Nat /\ Len(chain) <= top /\ MaxDepth \in Nat
  BY FinalityAssumption DEF SettlementInv, ChainOK
<1>8. head - i >= MaxDepth => i + MaxDepth <= top
  BY <1>2, <1>6, <1>7
<1>9. QED  BY <1>5, <1>6, <1>8 DEF Deep, Settled

\* A reorganisation removes nothing that is final.
LEMMA ReorganiseKeeps ==
  ASSUME SettlementInv, NEW depth \in 1..MaxHeight, Reorganise(depth)
  PROVE  SettlementInv'
<1> DEFINE n == Len(chain)
           k == n - depth
<1>1. /\ depth <= n /\ k >= top - MaxDepth /\ chain' = SubSeq(chain, 1, k)
      /\ stale' = stale \cup Seen /\ top' = top /\ UNCHANGED <<database, signer>>
  BY DEF Reorganise
<1>2. PICK S : chain \in Seq(S)
  BY DEF SettlementInv, ChainOK
<1>3. /\ top \in Nat /\ n \in Nat /\ n <= top /\ k \in 0..n /\ depth \in Nat /\ MaxDepth \in Nat
  BY <1>1, <1>2, FinalityAssumption DEF SettlementInv, ChainOK
<1> HIDE DEF k
<1>4. /\ chain' \in Seq(S) /\ Len(chain') = k /\ \A i \in 1..k : chain'[i] = chain[i] /\ i \in 1..n
  BY <1>1, <1>2, <1>3
<1>5. DatabaseOK' /\ SignerOK' /\ \A block : BlockOK(block) => BlockOK(block)'
  BY <1>1, ChainMoves
<1>6. ASSUME NEW i \in 1..k PROVE BlockOK(chain[i])'
  <2>1. PICK block : block = chain'[i]
    OBVIOUS
  <2>2. BlockOK(block)
    BY <1>4, <2>1 DEF SettlementInv, ChainOK
  <2>3. BlockOK(block)'
    BY <1>5, <2>2
  <2>4. QED  BY <2>1, <2>3 DEF BlockOK
<1>7. ASSUME NEW i \in 1..k, chain'[i].request # NoRequest, chain'[i].ok, NEW j \in i..k
      PROVE  chain'[j].contract.batches[chain'[i].request[1]].root # NoRoot
  <2>1. j \in 1..k /\ j \in i..n
    BY <1>3
  <2>2. QED  BY <1>4, <1>7, <2>1 DEF SettlementInv, ChainOK
<1>8. k <= top
  BY <1>3
<1>9. ChainOK'
  BY <1>1, <1>3, <1>4, <1>6, <1>7, <1>8 DEF ChainOK
<1>10. \A x, h : Settled(x, h) => Settled(x, h)'
  <2> SUFFICES ASSUME NEW x, NEW h, Settled(x, h) PROVE Settled(x, h)'
    OBVIOUS
  <2>1. h \in 1..n /\ chain[h].request = x /\ chain[h].ok /\ h + MaxDepth <= top
    BY DEF Settled
  <2>2. h \in 1..k
    BY <1>1, <1>3, <2>1
  <2>3. QED  BY <1>1, <1>4, <2>1, <2>2 DEF Settled
<1>11. \A a \in Seen : a.height \in Nat /\ a.head \in Nat /\ (Deep(a) => Settled(a.request, a.height))
  BY SeenFacts
<1>12. FinalOK'
  BY <1>1, <1>10, <1>11, FinalKept
<1>13. QED  BY <1>5, <1>9, <1>12 DEF SettlementInv

\* A block with a submission is such a block,
LEMMA SubmissionMined ==
  ASSUME SettlementInv, NEW r, MineSubmission(r)
  PROVE  SettlementInv'
<1> DEFINE b == r[1]
           f == ItemsNow
           ok == CanCommit(Contract, b, Root(b), Total(b), Len(Items(b)))
           g == CommitBatch(Contract, b, Root(b), Total(b), Len(Items(b)))
           c == IF ok THEN g ELSE Contract
<1>1. r \in signed /\ Mine(r, ok, c)
  BY DEF MineSubmission
<1>2. r \in Requests /\ b \in Batches /\ batch[b].items # <<>>
  BY <1>1 DEF SettlementInv, SignerOK, Requests
<1>3. /\ f[b] # <<>> /\ Root(b) = RootOf(b, f[b]) /\ Total(b) = Worth(Range(f[b]))
      /\ Len(Items(b)) = Len(f[b])
  BY <1>2, BatchTerms
<1>4. ItemsOK(f) /\ Fits(Contract, f)
  BY ContractFacts DEF SettlementInv, DatabaseOK
<1>5. RootOf(b, f[b]) # NoRoot
  <2>1. f[b] \in Seq(Payouts)
    BY <1>2, <1>4 DEF ItemsOK
  <2> HIDE DEF f, b
  <2>2. QED  BY <1>3, <2>1, BatchRoot
<1>6. ok => /\ Fits(g, f) /\ g.batches[b].root # NoRoot
            /\ \A k \in Batches \ {b} : g.batches[k].root = Contract.batches[k].root
  <2> SUFFICES ASSUME ok
               PROVE  /\ Fits(g, f) /\ g.batches[b].root # NoRoot
                      /\ \A k \in Batches \ {b} : g.batches[k].root = Contract.batches[k].root
    OBVIOUS
  <2> DEFINE C == Contract
             h == CommitBatch(C, b, RootOf(b, f[b]), Worth(Range(f[b])), Len(f[b]))
  <2>1. g = h
    BY <1>3
  <2>2. CanCommit(C, b, RootOf(b, f[b]), Worth(Range(f[b])), Len(f[b]))
    BY <1>3
  <2> HIDE DEF f, b, C, g
  <2>3. /\ Fits(h, f) /\ h.batches[b].root = RootOf(b, f[b])
        /\ \A k \in Batches \ {b} : h.batches[k].root = C.batches[k].root
    BY <1>2, <1>3, <1>4, <2>2, CommitFits DEF C
  <2>4. QED  BY <1>5, <2>1, <2>3 DEF C
<1>7. ok \in BOOLEAN
  BY DEF CanCommit
<1> HIDE DEF f, b, g, ok
<1>8. CASE ok
  <2>1. Fits(c, f) /\ c.batches[b].root # NoRoot
        /\ \A k \in Batches : Contract.batches[k].root # NoRoot => c.batches[k].root # NoRoot
    BY <1>6, <1>8
  <2> HIDE DEF c
  <2>2. QED  BY <1>1, <1>2, <1>7, <2>1, MineKeeps DEF f, b
<1>9. CASE ~ok
  <2>1. c = Contract
    BY <1>9
  <2> HIDE DEF c
  <2>2. QED  BY <1>1, <1>2, <1>4, <1>7, <1>9, <2>1, MineKeeps DEF f, b
<1>10. QED  BY <1>8, <1>9

\* one with a claim,
LEMMA ClaimMined ==
  ASSUME SettlementInv, NEW b \in Batches, NEW d \in Batches, NEW index \in 0..(MaxItems - 1),
         NEW p \in Payouts, NEW i, MineClaim(b, index, p, d, i)
  PROVE  SettlementInv'
<1> DEFINE f == ItemsNow
           C == Contract
           g == Claim(C, b, index, Owner[p], Amount[p])
<1>1. /\ i \in DOMAIN Items(d)
      /\ CanClaim(C, b, index, Owner[p], Amount[p], Proof(d, i))
      /\ Mine(NoRequest, TRUE, g)
  BY DEF MineClaim
<1>2. Items(d) = f[d] /\ Proof(d, i) = MerkleProof(LeavesOf(d, f[d]), i)
  BY BatchTerms
<1>3. ItemsOK(f) /\ Fits(C, f)
  BY ContractFacts DEF SettlementInv, DatabaseOK
<1>4. index \in Nat
  BY PayoutsAssumption
<1>5. i \in DOMAIN f[d] /\ CanClaim(C, b, index, Owner[p], Amount[p], MerkleProof(LeavesOf(d, f[d]), i))
  BY <1>1, <1>2
<1>6. Fits(g, f) /\ \A k \in Batches : g.batches[k].root = C.batches[k].root
  <2> HIDE DEF f, C
  <2>1. ASSUME NEW q \in DOMAIN f[d], CanClaim(C, b, index, Owner[p], Amount[p], MerkleProof(LeavesOf(d, f[d]), q))
        PROVE  Fits(g, f) /\ \A k \in Batches : g.batches[k].root = C.batches[k].root
    BY <1>3, <1>4, <2>1, ClaimFits
  <2>2. QED  BY <1>5, <2>1
<1> HIDE DEF g
<1>7. QED  BY <1>1, <1>6, MineKeeps

\* one with a funding,
LEMMA FundingMined ==
  ASSUME SettlementInv, MineFunding
  PROVE  SettlementInv'
<1> DEFINE C == Contract
           g == Fund(C, TopUp)
<1>1. Mine(NoRequest, TRUE, g)
  BY DEF MineFunding
<1>2. Fits(C, ItemsNow)
  BY ContractFacts DEF SettlementInv
<1>3. Shape(C) /\ C.balance \in Nat /\ TopUp \in Nat
  BY <1>2, FinalityAssumption DEF Fits, Shape
<1>4. /\ DOMAIN g = DOMAIN C
      /\ g.balance = C.balance + TopUp /\ g.outstandingLiability = C.outstandingLiability
      /\ g.batches = C.batches /\ g.bitmap = C.bitmap /\ g.received = C.received
  BY <1>3, FundFields
<1>5. g.balance \in Nat /\ g.balance >= C.balance
  BY <1>3, <1>4
<1> HIDE DEF g, C
<1>6. Fits(g, ItemsNow)
  BY <1>2, <1>4, <1>5, SameFits
<1>7. \A b \in Batches : Contract.batches[b].root # NoRoot => g.batches[b].root # NoRoot
  BY <1>4 DEF C
<1>8. QED  BY <1>1, <1>6, <1>7, MineKeeps

\* and one with a pause.
LEMMA PauseMined ==
  ASSUME SettlementInv, MinePause
  PROVE  SettlementInv'
<1>1. PICK value \in BOOLEAN : Mine(NoRequest, TRUE, SetPaused(Contract, value))
  BY DEF MinePause
<1> DEFINE C == Contract
           g == SetPaused(C, value)
<1>2. Fits(C, ItemsNow)
  BY ContractFacts DEF SettlementInv
<1>3. Shape(C) /\ C.balance \in Nat
  BY <1>2 DEF Fits, Shape
<1>4. /\ DOMAIN g = DOMAIN C
      /\ g.balance = C.balance /\ g.outstandingLiability = C.outstandingLiability
      /\ g.batches = C.batches /\ g.bitmap = C.bitmap /\ g.received = C.received
  BY <1>3, PauseFields
<1>5. g.balance \in Nat /\ g.balance >= C.balance
  BY <1>3, <1>4
<1>6. Mine(NoRequest, TRUE, g)
  BY <1>1
<1> HIDE DEF g, C
<1>7. Fits(g, ItemsNow)
  BY <1>2, <1>4, <1>5, SameFits
<1>8. \A b \in Batches : Contract.batches[b].root # NoRoot => g.batches[b].root # NoRoot
  BY <1>4 DEF C
<1>9. QED  BY <1>6, <1>7, <1>8, MineKeeps

(***************************************************************************)
(* Observation.                                                            *)
(***************************************************************************)

\* A quorum has an observer that is not faulty, so that what a quorum sees deep enough
\* was on a canonical chain.
LEMMA FinalVerdict ==
  ASSUME SettlementInv, NEW attempt, NEW was, "finalized" \in Verdicts(attempt, was),
         attempt.state # "finalized"
  PROVE  \E a \in Seen \cup stale : a.request = attempt.transaction /\ Deep(a)
<1> DEFINE t == attempt.transaction
<1>1. PICK answers \in Answering(t) :
        "finalized" \in {Verdict(attempt.state, was, answers, agreed) : agreed \in Agreed(answers)}
  BY DEF Verdicts
<1>2. PICK agreed \in Agreed(answers) : "finalized" = Verdict(attempt.state, was, answers, agreed)
  BY <1>1
<1>3. ~(Cardinality(agreed) < Quorum) /\ IsFinal(answers, agreed)
  BY <1>2 DEF Verdict
<1>4. agreed \subseteq Exact(answers)
  <2>1. agreed \in {Group(answers, o) : o \in Exact(answers)} \cup {{}}
    BY DEF Agreed
  <2>2. QED  BY <2>1 DEF Group
<1>5. Exact(answers) \subseteq Observers
  BY DEF Exact, Heard
<1>6. PICK o \in agreed : o \in Observers \ Faulty
  <2>1. ASSUME agreed \subseteq Faulty PROVE FALSE
    <3>1. IsFiniteSet(Faulty) /\ Cardinality(Faulty) < Quorum /\ Quorum \in Nat
      BY ObserversAssumption, FS_Subset, FS_CardinalityType
    <3>2. Cardinality(agreed) <= Cardinality(Faulty) /\ IsFiniteSet(agreed)
      BY <2>1, <3>1, FS_Subset
    <3>3. Cardinality(agreed) \in Nat /\ Cardinality(Faulty) \in Nat
      BY <3>1, <3>2, FS_CardinalityType
    <3>4. QED  BY <1>3, <3>1, <3>2, <3>3
  <2>2. QED  BY <1>4, <1>5, <2>1
<1>7. answers[o] \in HonestAnswers(t)
  <2>1. PICK honest \in [Observers \ Faulty -> HonestAnswers(t)], faulty \in [Faulty -> AnyAnswer(t)] :
          answers = [x \in Observers |-> IF x \in Faulty THEN faulty[x] ELSE honest[x]]
    BY DEF Answering
  <2>2. answers[o] = honest[o]
    BY <1>6, <2>1
  <2>3. QED  BY <1>6, <2>1, <2>2
<1>8. answers[o] # NoAnswer /\ answers[o].verdict = "exact"
  BY <1>4, <1>6 DEF Exact, Heard
<1>9. answers[o] \in Seen \cup stale /\ answers[o].request = t
  BY <1>7, <1>8 DEF HonestAnswers
<1>10. answers[o].head - answers[o].height + 1 >= Confirmations
  BY <1>3, <1>6 DEF IsFinal
<1>11. answers[o].head \in Nat /\ answers[o].height \in Nat
  BY <1>9, SeenFacts DEF SettlementInv, FinalOK
<1>12. PICK x \in Nat, y \in Nat : x = answers[o].head /\ y = answers[o].height
  BY <1>11
<1>13. x - y + 1 >= Confirmations
  BY <1>10, <1>12
<1>14. x - y >= MaxDepth
  BY <1>13, FinalityAssumption
<1>15. Deep(answers[o])
  BY <1>8, <1>12, <1>14 DEF Deep
<1>16. QED  BY <1>9, <1>15

\* The states that a verdict can give.
LEMMA VerdictStates ==
  ASSUME NEW attempt, attempt.state \in Decided, NEW was, NEW verdict \in Verdicts(attempt, was)
  PROVE  verdict \in Decided
<1>1. PICK answers, agreed : verdict = Verdict(attempt.state, was, answers, agreed)
  BY DEF Verdicts
<1>2. QED  BY <1>1 DEF Verdict, Decided

\* A refresh calls final only what is settled in every chain still possible.
LEMMA RefreshKeeps ==
  ASSUME SettlementInv, NEW b \in Batches, RefreshSettlementBatch(b)
  PROVE  SettlementInv'
<1> DEFINE s == attempts[b]
           m == batch[b].current
           attempt == LookedUp(b)
           was == batch[b].state
<1>1. /\ HasAttempt(b) /\ attempt.transaction # NoRequest
      /\ UNCHANGED <<paidOut, received, signed, chain, top, forks, stale>>
      /\ UNCHANGED network
  BY DEF RefreshSettlementBatch, signer, network
<1>2. PICK verdict \in Verdicts(attempt, was) :
        /\ attempts' = [attempts EXCEPT ![b][m] = [attempt EXCEPT !.state = verdict]]
        /\ batch' = [batch EXCEPT ![b].state = BatchAfter(@, verdict)]
  BY DEF RefreshSettlementBatch
<1>3. /\ batch \in [Batches -> [state : States, items : Seq(Payouts), current : Nat]]
      /\ attempts \in [Batches -> Seq(Attempt)] /\ s \in Seq(Attempt)
      /\ m = Len(s) /\ m # 0 /\ m \in 1..Len(s) /\ was # "none"
      /\ s[m].transaction \in {NoRequest, <<b, m>>}
  <2>1. /\ batch \in [Batches -> [state : States, items : Seq(Payouts), current : Nat]]
        /\ attempts \in [Batches -> Seq(Attempt)] /\ s \in Seq(Attempt) /\ m = Len(s)
    BY DEF SettlementInv, DatabaseOK
  <2>2. m # 0
    BY <1>1 DEF HasAttempt
  <2>3. m \in 1..Len(s)
    BY <2>1, <2>2
  <2>4. was # "none"
    BY <2>2 DEF SettlementInv, DatabaseOK, NotPrepared
  <2>5. s[m].transaction \in {NoRequest, <<b, m>>}
    BY <2>3 DEF SettlementInv, DatabaseOK
  <2>6. QED  BY <2>1, <2>2, <2>3, <2>4, <2>5
<1>4. <<b, m>> \in Requests
  BY <1>3 DEF Requests
<1>5. /\ attempt \in Attempt /\ attempt.transaction = <<b, m>>
      /\ attempt.state \in {s[m].state, "submitted"}
  <2>1. s[m] \in Attempt
    BY <1>3
  <2>2. CASE attempt = s[m]
    BY <1>1, <1>3, <2>1, <2>2
  <2>3. CASE attempt = [state |-> "submitted", transaction |-> <<b, m>>]
    BY <1>4, <2>3 DEF Attempt, Decided
  <2>4. QED  BY <2>2, <2>3 DEF LookedUp, RequestOf, Current
<1>6. verdict \in Decided
  <2>1. attempt.state \in Decided
    BY <1>5 DEF Attempt
  <2> HIDE DEF attempt
  <2>2. QED  BY <2>1, VerdictStates
<1> DEFINE e == [attempt EXCEPT !.state = verdict]
           after == BatchAfter(was, verdict)
<1> HIDE DEF attempt
<1>7. e \in Attempt /\ e.transaction = <<b, m>> /\ e.state = verdict
  BY <1>5, <1>6 DEF Attempt
<1>8. after \in States /\ after # "none"
      /\ (after = "finalized" => verdict = "finalized" \/ was = "finalized")
  <2>1. was \in States
    BY <1>3
  <2>2. QED  BY <1>3, <2>1 DEF BatchAfter, States
<1>9. /\ attempts' \in [Batches -> Seq(Attempt)] /\ Len(attempts'[b]) = Len(s)
      /\ \A n \in 1..Len(s) : attempts'[b][n] = IF n = m THEN e ELSE s[n]
      /\ \A d \in Batches \ {b} : attempts'[d] = attempts[d]
  <2>1. attempts' = [attempts EXCEPT ![b] = [s EXCEPT ![m] = e]]
    BY <1>2
  <2> HIDE DEF e
  <2> DEFINE q == [s EXCEPT ![m] = e]
  <2>2. q \in Seq(Attempt) /\ Len(q) = Len(s)
    BY <1>3, <1>7
  <2>3. \A n \in 1..Len(s) : q[n] = IF n = m THEN e ELSE s[n]
    BY <1>3
  <2> HIDE DEF q, s
  <2>4. attempts' = [attempts EXCEPT ![b] = q]
    BY <2>1 DEF q
  <2>5. QED  BY <1>3, <2>2, <2>3, <2>4
<1>10. /\ batch' \in [Batches -> [state : States, items : Seq(Payouts), current : Nat]]
       /\ batch'[b].items = batch[b].items /\ batch'[b].state = after /\ batch'[b].current = m
       /\ \A d \in Batches \ {b} : batch'[d] = batch[d]
  <2>1. batch' = [batch EXCEPT ![b] = [batch[b] EXCEPT !.state = after]]
    BY <1>2
  <2>2. batch[b] \in [state : States, items : Seq(Payouts), current : Nat]
    BY <1>3
  <2> DEFINE z == [batch[b] EXCEPT !.state = after]
  <2> HIDE DEF after
  <2>3. /\ z \in [state : States, items : Seq(Payouts), current : Nat]
        /\ z.items = batch[b].items /\ z.state = after /\ z.current = m
    BY <1>8, <2>2
  <2>4. batch' = [batch EXCEPT ![b] = z]
    BY <2>1
  <2> HIDE DEF z
  <2>5. QED  BY <1>3, <2>3, <2>4
<1> HIDE DEF e, after
<1>11. \A d \in Batches : batch'[d].items = batch[d].items
  BY <1>10
<1>12. ItemsNow' = ItemsNow
  BY <1>11 DEF ItemsNow
<1>13. DatabaseOK'
  <2>1. \A d \in Batches :
          /\ Range(batch[d].items) \subseteq paidOut
          /\ batch[d].current = Len(attempts[d])
          /\ batch[d].state = "none" => batch[d] = NotPrepared
          /\ batch[d].state # "none" => batch[d].items # <<>>
          /\ \A n \in 1..Len(attempts[d]) : attempts[d][n].transaction \in {NoRequest, <<d, n>>}
    BY DEF SettlementInv, DatabaseOK
  <2>2. \A d \in Batches :
          /\ Range(batch'[d].items) \subseteq paidOut
          /\ batch'[d].state = "none" => batch'[d] = NotPrepared
          /\ batch'[d].state # "none" => batch'[d].items # <<>>
    BY <1>3, <1>8, <1>10, <2>1
  <2>3. \A d \in Batches : batch'[d].current = Len(attempts'[d])
    BY <1>3, <1>9, <1>10, <2>1
  <2>4. \A n \in 1..Len(attempts'[b]) : attempts'[b][n].transaction \in {NoRequest, <<b, n>>}
    BY <1>7, <1>9, <2>1
  <2>5. \A d \in Batches : \A n \in 1..Len(attempts'[d]) : attempts'[d][n].transaction \in {NoRequest, <<d, n>>}
    BY <1>9, <2>1, <2>4
  <2>6. paidOut' = paidOut /\ paidOut \subseteq Payouts /\ ItemsOK(ItemsNow')
    BY <1>1, <1>12 DEF SettlementInv, DatabaseOK
  <2>7. QED  BY <1>9, <1>10, <2>2, <2>3, <2>5, <2>6 DEF DatabaseOK
<1>14. SignerOK'
  <2>1. \A r \in received : r \in Requests /\ r[1] \in Batches /\ batch[r[1]].items # <<>>
    BY DEF SettlementInv, SignerOK, Requests
  <2>2. QED  BY <1>1, <1>11, <2>1 DEF SettlementInv, SignerOK
<1>15. ChainOK'
  BY <1>1, <1>11, QuietStep
<1>16. verdict = "finalized" =>
         \E r \in Requests : r[1] = b /\ \E h \in 1..Len(chain) : Settled(r, h)
  <2>1. CASE attempt.state = "finalized"
    <3>1. s[m].state = "finalized"
      BY <1>5, <2>1
    <3>2. \E n \in 1..Len(attempts[b]) : attempts[b][n].state = "finalized"
      BY <1>3, <3>1
    <3>3. QED  BY <3>2 DEF SettlementInv, FinalOK
  <2>2. CASE attempt.state # "finalized" /\ verdict = "finalized"
    <3>1. PICK a \in Seen \cup stale : a.request = <<b, m>> /\ Deep(a)
      BY <1>5, <2>2, FinalVerdict
    <3>2. Settled(<<b, m>>, a.height)
      BY <3>1, SeenFacts DEF SettlementInv, FinalOK
    <3>3. a.height \in 1..Len(chain)
      BY <3>2 DEF Settled
    <3>4. <<b, m>>[1] = b
      OBVIOUS
    <3>5. QED  BY <1>4, <3>2, <3>3, <3>4
  <2>3. QED  BY <2>1, <2>2
<1>17. FinalOK'
  <2>1. \A r, h : Settled(r, h) => Settled(r, h)'
    BY <1>1 DEF Settled
  <2>2. chain' = chain /\ stale' = stale
    BY <1>1
  <2>3. \A a \in stale : a.height \in Nat /\ a.head \in Nat /\ (Deep(a) => Settled(a.request, a.height)')
    BY <2>1 DEF SettlementInv, FinalOK
  <2>4. ASSUME NEW d \in Batches,
               batch'[d].state = "finalized"
                 \/ (\E n \in 1..Len(attempts'[d]) : attempts'[d][n].state = "finalized")
        PROVE  \E r \in Requests : r[1] = d /\ \E h \in 1..Len(chain) : Settled(r, h)
    <3>1. \/ d = b /\ verdict = "finalized"
          \/ batch[d].state = "finalized" \/ (\E n \in 1..Len(attempts[d]) : attempts[d][n].state = "finalized")
      <4>1. CASE d # b
        BY <1>9, <1>10, <2>4, <4>1
      <4>2. CASE d = b
        BY <1>7, <1>8, <1>9, <1>10, <2>4, <4>2
      <4>3. QED  BY <4>1, <4>2
    <3>2. QED  BY <1>16, <3>1 DEF SettlementInv, FinalOK
  <2>5. \A d \in Batches :
          batch'[d].state = "finalized"
            \/ (\E n \in 1..Len(attempts'[d]) : attempts'[d][n].state = "finalized")
          => \E r \in Requests : r[1] = d /\ \E h \in 1..Len(chain') : Settled(r, h)'
    BY <2>1, <2>2, <2>4
  <2>6. QED  BY <2>2, <2>3, <2>5 DEF FinalOK
<1>18. QED  BY <1>13, <1>14, <1>15, <1>17 DEF SettlementInv

\* The invariant is inductive.
LEMMA SettlementStep ==
  ASSUME SettlementInv, [SettlementNext]_settlementVars
  PROVE  SettlementInv'
<1>1. CASE UNCHANGED settlementVars
  <2>1. /\ UNCHANGED <<paidOut, batch, attempts, received, signed, chain, top, forks, stale>>
        /\ UNCHANGED network /\ UNCHANGED <<database, signer>>
    BY <1>1 DEF settlementVars, database, signer, network
  <2>2. FinalOK'
    BY <2>1, SameChain
  <2>3. ChainOK'
    BY <2>1, QuietStep
  <2>4. QED  BY <2>1, <2>2, <2>3, ChainMoves DEF SettlementInv
<1>2. CASE SettlementNext
  BY <1>2, RedeemKeeps, PrepareKeeps, LostKeeps, RefreshKeeps, SubmitKeeps, LateKeeps,
     SubmissionMined, ClaimMined, FundingMined, PauseMined, ReorganiseKeeps DEF SettlementNext
<1>3. QED  BY <1>1, <1>2

\* The invariant of settlement holds.
LEMMA SettlementHolds == SettlementSpec => []SettlementInv
<1>1. SettlementInv /\ [SettlementNext]_settlementVars => SettlementInv'
  BY SettlementStep
<1>2. QED  BY <1>1, SettlementStart, PTL DEF SettlementSpec

\* The sum of what the batches owe, written out.
LEMMA UnpaidSum ==
  ASSUME NEW c
  PROVE  MapThenSumSet(LAMBDA b : c.batches[b].total - c.batches[b].claimed, Batches)
           = SumFunctionOnSet(UnpaidOf(c), Batches)
<1> DEFINE D(s) == s = [T \in SUBSET Batches |-> IF T = {} THEN 0
                          ELSE (c.batches[Pick(T)].total - c.batches[Pick(T)].claimed) + s[T \ {Pick(T)}]]
           E(s) == Defines(s, UnpaidOf(c), Batches)
<1>1. MapThenSumSet(LAMBDA b : c.batches[b].total - c.batches[b].claimed, Batches)
        = (CHOOSE s : D(s))[Batches]
  BY DEF MapThenSumSet, MapThenFoldSet, Pick
<1>2. SumFunctionOnSet(UnpaidOf(c), Batches) = (CHOOSE s : E(s))[Batches]
  BY SumDef
<1>3. \A T \in SUBSET Batches : T # {} =>
        UnpaidOf(c)[Pick(T)] = c.batches[Pick(T)].total - c.batches[Pick(T)].claimed
  BY PickIn DEF UnpaidOf
<1>4. ASSUME NEW s PROVE D(s) <=> E(s)
  BY <1>3 DEF Defines
<1> HIDE DEF D, E
<1>5. (CHOOSE s : D(s)) = (CHOOSE s : E(s))
  BY <1>4
<1>6. QED  BY <1>1, <1>2, <1>5

\* Whatever is mined, removed by a reorganisation, funded, paused or claimed with
\* whatever proof, the contract holds the collateral of all that it has committed and
\* not paid.
THEOREM CollateralHeld == SettlementSpec => []Solvent
<1>1. ASSUME SettlementInv PROVE Solvent
  <2> DEFINE C == Contract
  <2>1. Fits(C, ItemsNow)
    BY <1>1, ContractFacts DEF SettlementInv
  <2> DEFINE unpaid(b) == C.batches[b].total - C.batches[b].claimed
  <2>2. MapThenSumSet(unpaid, Batches) = SumFunctionOnSet(UnpaidOf(C), Batches)
    BY UnpaidSum
  <2>3. C.outstandingLiability = MapThenSumSet(unpaid, Batches)
        /\ C.balance >= C.outstandingLiability
    BY <2>1, <2>2 DEF Fits
  <2>4. QED  BY <2>3 DEF Solvent
<1>2. QED  BY <1>1, SettlementHolds, PTL

\* Across batches, attempts, forks and proofs made for other items, an owner gets from
\* the contract at most the payouts that the redemption has paid, each once.
THEOREM NobodyPaidTwice == SettlementSpec => []NobodyOverpaid
<1>1. ASSUME SettlementInv PROVE NobodyOverpaid
  <2> SUFFICES ASSUME NEW o \in Recipients
               PROVE  Contract.received[o] <=
                        MapThenSumSet(LAMBDA p : Amount[p], {p \in paidOut : Owner[p] = o})
    BY DEF NobodyOverpaid
  <2> DEFINE C == Contract
             f == ItemsNow
             S == {p \in PaidAll(C, f) : Owner[p] = o}
             T == {p \in paidOut : Owner[p] = o}
  <2>1. /\ Fits(C, f) /\ ItemsOK(f) /\ paidOut \subseteq Payouts
        /\ \A b \in Batches : f[b] = batch[b].items /\ Range(batch[b].items) \subseteq paidOut
    BY <1>1, ContractFacts DEF SettlementInv, DatabaseOK, ItemsNow
  <2>2. C.received[o] = Worth(S)
    BY <2>1 DEF Fits
  <2>3. PaidAll(C, f) \subseteq paidOut
    <3>1. \A b \in Batches : BatchFits(C, f, b)
      BY <2>1 DEF Fits
    <3>2. \A b \in Batches : C.bitmap[b] \subseteq 0..(Len(f[b]) - 1)
      BY <3>1, BatchFields
    <3> HIDE DEF C, f
    <3>3. \A b \in Batches : PaidOf(C, f, b) \subseteq Range(f[b])
      BY <2>1, <3>2, PaidFacts
    <3>4. QED  BY <2>1, <3>3 DEF PaidAll
  <2>4. S \in SUBSET T /\ T \in SUBSET Payouts
    BY <2>1, <2>3
  <2>5. Worth(S) <= Worth(T)
    <3> HIDE DEF S, T
    <3>1. QED  BY <2>4, WorthNat
  <2>6. MapThenSumSet(LAMBDA p : Amount[p], T) = Worth(T)
    BY WorthSum
  <2>7. QED  BY <2>2, <2>5, <2>6
<1>2. QED  BY <1>1, SettlementHolds, PTL

\* A claim of a batch that a quorum has seen final succeeds on the canonical chain,
\* whatever was reorganised since, unless it is paid or the guardian has paused.
THEOREM FinalClaimsPay == SettlementSpec => []ReadyClaimsPay
<1>1. ASSUME SettlementInv PROVE ReadyClaimsPay
  <2> SUFFICES ASSUME NEW b \in Batches, ClaimReady(b), NEW i \in DOMAIN Items(b),
                      i - 1 \notin Contract.bitmap[b]
               PROVE  CanClaim(SetPaused(Contract, FALSE), b, i - 1, Owner[Items(b)[i]],
                               Amount[Items(b)[i]], Proof(b, i))
    BY DEF ReadyClaimsPay
  <2> DEFINE C == Contract
             f == ItemsNow
  <2>1. PICK r \in Requests : r[1] = b /\ \E h \in 1..Len(chain) : Settled(r, h)
    BY <1>1 DEF ClaimReady, SettlementInv, FinalOK
  <2>2. PICK h \in 1..Len(chain) : chain[h].request = r /\ chain[h].ok
    BY <2>1 DEF Settled
  <2>3. r # NoRequest
    BY DEF Requests, NoRequest
  <2>4. C.batches[b].root # NoRoot /\ Fits(C, f) /\ ItemsOK(f)
    BY <1>1, <2>1, <2>2, <2>3, ContractFacts DEF SettlementInv, DatabaseOK
  <2>5. Items(b) = f[b] /\ Proof(b, i) = MerkleProof(LeavesOf(b, f[b]), i)
    BY BatchTerms
  <2>6. i \in DOMAIN f[b] /\ i - 1 \notin C.bitmap[b]
    BY <2>5
  <2> HIDE DEF C, f
  <2>7. CanClaim(SetPaused(C, FALSE), b, i - 1, Owner[f[b][i]], Amount[f[b][i]],
                 MerkleProof(LeavesOf(b, f[b]), i))
    BY <2>4, <2>6, CommittedPays
  <2>8. QED  BY <2>5, <2>7 DEF C
<1>2. QED  BY <1>1, SettlementHolds, PTL
=============================================================================
