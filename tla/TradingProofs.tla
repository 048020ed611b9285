----------------------------- MODULE TradingProofs -----------------------------
(***************************************************************************)
(* Proofs about trading, beside those of the order books in ClobProofs.    *)
(*                                                                         *)
(* The loop of matchPriceTime computes the closed form MatchPriceTime, for *)
(* every set of resting orders and every incoming order.  The transactions *)
(* on the books never wait for each other in a circle within one book. And *)
(* the AMM and the institutional quotes execute nothing late, keep pools   *)
(* and entities within their limits, and move money only with positions.   *)
(***************************************************************************)
EXTENDS Matching, OwnerLocks, Liquidity, CommonTheorems

\* Prices are integers; the scale itself is kept out of every other proof.
LEMMA PriceInt == ASSUME NEW p \in Price PROVE p \in Int
<1>1. PRICE_SCALE \in Nat
  BY SMT DEF PRICE_SCALE
<1>2. QED  BY <1>1 DEF Price

\* The makers the loop has dealt with.
Reached == Eligible \ todo

\* The loop invariant: what was reached ranks before what was not, it got what
\* the closed form gives it, and the rest is what it could not fill.
LoopInv ==
  /\ TypeOK
  /\ \A k \in Ids : resting[k].seq = k
  /\ \A a \in Reached, n \in todo : Precedes(resting[a], resting[n])
  /\ \A k \in Ids \ Reached : matches[k] = 0
  /\ \A k \in Reached : matches[k] = MatchPriceTime(side, quantity, resting, Eligible)[k]
  /\ remaining = IF quantity <= Depth(resting, Reached) THEN 0
                 ELSE quantity - Depth(resting, Reached)

\* The sort ranks makers as Before does.
LEMMA PrecedesIsBefore ==
  ASSUME TypeOK, NEW a \in Ids, NEW b \in Ids
  PROVE  Precedes(resting[a], resting[b]) <=> Before(side, resting[a], resting[b])
<1>1. resting[a].price \in Int /\ resting[b].price \in Int
  BY PricesAssumption, PriceInt DEF TypeOK, RestingOrder
<1>2. side = "buy" \/ side = "sell"
  BY DEF TypeOK, OrderSide
<1>3. QED  BY <1>1, <1>2 DEF Precedes, Before, Crosses

\* The makers of every input can be ranked.
LEMMA EligibleRankable ==
  ASSUME TypeOK, \A k \in Ids : resting[k].seq = k
  PROVE  Rankable(resting, Eligible)
<1>1. Eligible \in SUBSET Ids /\ IsFiniteSet(Eligible)
  BY IdsAssumption, FS_Subset DEF Eligible
<1>2. \A k \in Ids : resting[k].remaining \in Nat /\ resting[k].price \in Int
  <2> TAKE k \in Ids
  <2>1. resting[k].remaining \in Quantities \cup {0} /\ resting[k].price \in Prices
    BY DEF TypeOK, RestingOrder
  <2>2. resting[k].price \in Int
    BY <2>1, PricesAssumption, PriceInt
  <2>3. Quantities \subseteq Nat
    BY QuantitiesAssumption
  <2>4. Quantities \cup {0} \subseteq Nat
    <3>1. 0 \in Nat
      OBVIOUS
    <3>2. QED  BY <2>3, <3>1, Zenon
  <2>5. resting[k].remaining \in Nat
    BY <2>1, <2>4, Zenon
  <2>6. QED  BY <2>2, <2>5
<1>3. QED  BY <1>1, <1>2, IdsAssumption DEF Rankable

\* The invariant of the loop holds at the start.
LEMMA LoopInit == Init => LoopInv
<1> SUFFICES ASSUME Init PROVE LoopInv
  OBVIOUS
<1>1. Reached = {} /\ todo = Eligible
  BY DEF Reached, Init
<1>2. quantity \in Nat /\ quantity > 0
  BY QuantitiesAssumption DEF Init
<1>3. TypeOK /\ \A k \in Ids : resting[k].seq = k
  <2>1. resting \in [Ids -> RestingOrder] /\ \A k \in Ids : resting[k].seq = k
    BY IdsAssumption DEF Init, RestingOrder
  <2>2. QED  BY <1>2, <2>1 DEF Init, TypeOK
<1>4. Depth(resting, Reached) = 0
  BY <1>1, DepthEmpty
<1>5. remaining = quantity /\ \A k \in Ids : matches[k] = 0
  BY DEF Init
<1>6. QED  BY <1>1, <1>2, <1>3, <1>4, <1>5 DEF LoopInv

\* An iteration reaches the maker everybody left ranks behind, so the makers
\* ahead of it are exactly those reached before.
LEMMA LoopStep == LoopInv /\ [Next]_vars => LoopInv'
<1> SUFFICES ASSUME LoopInv, [Next]_vars PROVE LoopInv'
  OBVIOUS
<1>1. CASE UNCHANGED vars
  BY <1>1 DEF LoopInv, vars, input, TypeOK, Reached, Eligible, Precedes
<1>2. ASSUME NEW m \in todo, Take(m) PROVE LoopInv'
  <2> DEFINE filled == IF remaining < resting[m].remaining THEN remaining
                       ELSE resting[m].remaining
             closed == MatchPriceTime(side, quantity, resting, Eligible)
  <2>1. /\ side' = side /\ limit' = limit /\ quantity' = quantity /\ resting' = resting
        /\ Eligible' = Eligible
    BY <1>2 DEF Take, input, Eligible
  <2>2. m \in Eligible /\ m \in Ids /\ todo \in SUBSET Eligible /\ Eligible \in SUBSET Ids
    BY DEF LoopInv, TypeOK, Eligible
  <2>3. Reached' = Reached \cup {m} /\ m \notin Reached /\ todo' = todo \ {m}
    BY <1>2, <2>1, <2>2 DEF Take, Reached
  <2>4. Rankable(resting, Eligible)
    BY EligibleRankable DEF LoopInv
  <2>5. /\ quantity \in Nat /\ remaining \in Nat /\ resting[m].remaining \in Nat
        /\ remaining # 0
    BY <1>2, <2>2, <2>4, QuantitiesAssumption DEF LoopInv, TypeOK, Take, Rankable
  <2>6. AheadOf(side, resting, Eligible, m) = Reached
    <3>1. \A n \in Reached : Before(side, resting[n], resting[m])
      BY <2>2, PrecedesIsBefore DEF LoopInv, Reached
    <3>2. \A n \in todo : ~ Before(side, resting[n], resting[m])
      <4> TAKE n \in todo
      <4>1. n \in Eligible /\ n \in Ids
        BY <2>2
      <4>2. CASE n = m
        BY <2>2, <2>4, <4>2, BeforeOrder
      <4>3. CASE n # m
        <5>1. Before(side, resting[m], resting[n])
          BY <1>2, <2>2, <4>1, <4>3, PrecedesIsBefore DEF Take, LoopInv
        <5>2. QED  BY <2>2, <2>4, <4>1, <5>1, BeforeOrder
      <4>4. QED  BY <4>2, <4>3
    <3>3. QED  BY <3>1, <3>2 DEF AheadOf, Reached
  <2>7. /\ Depth(resting, Reached) \in Nat
        /\ Depth(resting, Reached \cup {m}) = Depth(resting, Reached) + resting[m].remaining
    <3> DEFINE S == Reached \cup {m}
    <3>1. /\ IsFiniteSet(S) /\ \A k \in S : resting[k].remaining \in Nat
          /\ Reached \in SUBSET S /\ S \ Reached = {m}
      <4>1. S \in SUBSET Eligible
        BY <2>2 DEF Reached
      <4>2. QED  BY <2>3, <2>4, <4>1, FS_Subset DEF Rankable
    <3> HIDE DEF S
    <3>2. Depth(resting, S) = Depth(resting, Reached) + Depth(resting, {m})
      BY <3>1, DepthSplit
    <3>3. Depth(resting, Reached) \in Nat
      BY <3>1, DepthMonotone
    <3>4. QED  BY <2>5, <3>2, <3>3, DepthOne DEF S
  <2>8. remaining = quantity - Depth(resting, Reached)
    BY <2>5, <2>7 DEF LoopInv
  <2>9. closed[m] = filled
    BY <2>2, <2>5, <2>6, <2>7, <2>8 DEF MatchPriceTime
  <2>10. filled \in Nat /\ remaining - filled \in Nat
    BY <2>5
  <2>11. matches' = [matches EXCEPT ![m] = filled] /\ remaining' = remaining - filled
    BY <1>2 DEF Take
  <2>12. TypeOK'
    <3>1. todo' \subseteq Eligible' /\ matches' \in [Ids -> Nat] /\ remaining' \in Nat
      <4> HIDE DEF filled
      <4>1. QED  BY <2>1, <2>2, <2>3, <2>10, <2>11 DEF LoopInv, TypeOK
    <3>2. QED  BY <2>1, <3>1 DEF LoopInv, TypeOK, RestingOrder
  <2>13. \A a \in Reached', n \in todo' : Precedes(resting[a], resting[n])'
    <3>1. \A a \in Reached', n \in todo' : Precedes(resting[a], resting[n])
      BY <1>2, <2>3 DEF LoopInv, Take
    <3>2. QED  BY <2>1, <3>1 DEF Precedes
  <2>14. \A k \in Ids \ Reached' : matches'[k] = 0
    BY <2>3, <2>11 DEF LoopInv, TypeOK
  <2>15. \A k \in Reached' : matches'[k] = closed[k]
    <3> HIDE DEF filled, closed
    <3>1. \A k \in Reached : matches'[k] = matches[k] /\ matches[k] = closed[k]
      BY <2>2, <2>3, <2>11 DEF LoopInv, TypeOK, Reached, closed
    <3>2. matches'[m] = closed[m]
      BY <2>2, <2>9, <2>11 DEF LoopInv, TypeOK
    <3>3. QED  BY <2>3, <3>1, <3>2
  <2>16. remaining' = IF quantity <= Depth(resting, Reached') THEN 0
                      ELSE quantity - Depth(resting, Reached')
    BY <2>3, <2>5, <2>7, <2>8, <2>11
  <2>17. QED
    BY <2>1, <2>12, <2>13, <2>14, <2>15, <2>16 DEF LoopInv
<1>3. QED  BY <1>1, <1>2 DEF Next

\* The invariant of the loop holds.
LEMMA LoopInvariant == Spec => []LoopInv
<1>1. Init => LoopInv
  BY LoopInit
<1>2. LoopInv /\ [Next]_vars => LoopInv'
  BY LoopStep
<1>3. QED  BY <1>1, <1>2, PTL DEF Spec

(***************************************************************************)
(* The variables of the loop keep their types; in particular it never      *)
(* matches more than the incoming quantity.                                *)
(***************************************************************************)
THEOREM MatchingTypeOK == Spec => []TypeOK
<1>1. LoopInv => TypeOK
  BY DEF LoopInv
<1>2. QED  BY <1>1, LoopInvariant, PTL

(***************************************************************************)
(* The sorted loop of matchPriceTime hands out exactly the quantities of   *)
(* the closed form the order book uses.                                    *)
(***************************************************************************)
THEOREM LoopComputes == Spec => []LoopComputesMatch
<1>1. LoopInv => LoopComputesMatch
  <2> SUFFICES ASSUME LoopInv, Done PROVE
        /\ \A k \in Ids : matches[k] = IF k \in Eligible
                            THEN MatchPriceTime(side, quantity, resting, Eligible)[k] ELSE 0
        /\ remaining = quantity - SumFunctionOnSet(
                         MatchPriceTime(side, quantity, resting, Eligible), Eligible)
    BY DEF LoopComputesMatch
  <2> DEFINE closed == MatchPriceTime(side, quantity, resting, Eligible)
  <2>1. Rankable(resting, Eligible) /\ quantity \in Nat
    BY EligibleRankable, QuantitiesAssumption DEF LoopInv, TypeOK
  <2>2. Reached \in SUBSET Eligible /\ Eligible \in SUBSET Ids
    BY DEF Reached, Eligible
  <2>3. /\ Depth(resting, Reached) \in Nat /\ Depth(resting, Eligible) \in Nat
        /\ Depth(resting, Reached) <= Depth(resting, Eligible)
    BY <2>1, <2>2, DepthMonotone DEF Rankable
  <2>4. SumFunctionOnSet(closed, Eligible)
          = IF quantity <= Depth(resting, Eligible) THEN quantity ELSE Depth(resting, Eligible)
    BY <2>1, MatchTotal
  <2>5. todo = {} => Reached = Eligible
    BY DEF Reached
  <2>6. remaining = quantity - SumFunctionOnSet(closed, Eligible)
    <3> HIDE DEF closed
    <3>1. QED  BY <2>1, <2>3, <2>4, <2>5 DEF LoopInv, Done
  <2>7. ASSUME NEW k \in Eligible \ Reached PROVE closed[k] = 0
    <3>1. k \in todo /\ remaining = 0
      BY <2>5, <2>7 DEF Reached, Done
    <3>2. quantity <= Depth(resting, Reached)
      BY <2>1, <2>3, <3>1 DEF LoopInv
    <3> DEFINE A == AheadOf(side, resting, Eligible, k)
    <3>3. Reached \in SUBSET A
      BY <2>2, <3>1, PrecedesIsBefore DEF LoopInv, AheadOf, Reached
    <3>4. IsFiniteSet(A) /\ \A n \in A : resting[n].remaining \in Nat
      BY <2>1, FS_Subset DEF Rankable, AheadOf
    <3>5. Depth(resting, A) \in Nat /\ Depth(resting, Reached) <= Depth(resting, A)
      <4> HIDE DEF A
      <4>1. QED  BY <3>3, <3>4, DepthMonotone
    <3> HIDE DEF A
    <3>6. QED  BY <2>1, <2>3, <3>2, <3>5 DEF MatchPriceTime, A
  <2>8. \A k \in Ids : matches[k] = IF k \in Eligible THEN closed[k] ELSE 0
    <3> HIDE DEF closed
    <3>1. \A k \in Reached : matches[k] = closed[k]
      BY DEF LoopInv, closed
    <3>2. \A k \in Ids \ Reached : matches[k] = 0
      BY DEF LoopInv
    <3>3. QED  BY <2>2, <2>7, <3>1, <3>2
  <2>9. QED  BY <2>6, <2>8
<1>2. QED  BY <1>1, LoopInvariant, PTL

(***************************************************************************)
(* The locks of the trading transactions.                                  *)
(***************************************************************************)

\* A plan starts with the row of the book its command works on.
StartsWithBook(p, b) == p \in Seq(Lock) /\ p # <<>> /\ Head(p) = BookRow(b)

\* A running transaction holds the row of its book, or nothing yet.
BookFirst ==
  \A t \in Transactions : Running(t) =>
    BookRow(book[t]) \in held[t] \/ (held[t] = {} /\ StartsWithBook(plan[t], book[t]))

LocksInv == LocksTypeOK /\ BookFirst

\* A string over S is a sequence over S.
LEMMA StringsType ==
  ASSUME NEW S, NEW s \in Strings(S)
  PROVE  s \in Seq(S)
<1>1. PICK n \in 0..Fillings : s \in [1..n -> S]
  BY DEF Strings
<1>2. n \in Nat
  BY LocksAssumption
<1>3. QED  BY <1>1, <1>2

\* The owner locks of a run of fills are locks.
LEMMA PairLocksType ==
  ASSUME NEW pairs \in Seq(Owners \X Owners)
  PROVE  PairLocks(pairs) \in Seq(Lock)
<1>1. ASSUME NEW i \in 1..(2 * Len(pairs)) PROVE PairLocks(pairs)[i] \in Lock
  <2>1. (i + 1) \div 2 \in 1..Len(pairs)
    OBVIOUS
  <2>2. PICK o \in Owners, p \in Owners : pairs[(i + 1) \div 2] = <<o, p>>
    BY <2>1
  <2>3. Owner(o) \in Lock /\ Owner(p) \in Lock
    BY DEF Lock
  <2>4. PairLocks(pairs)[i] = SortedPair(o, p)[IF i % 2 = 1 THEN 1 ELSE 2]
    BY <2>2 DEF PairLocks
  <2>5. QED  BY <2>3, <2>4 DEF SortedPair
<1>2. Len(pairs) \in Nat
  OBVIOUS
<1>3. 2 * Len(pairs) \in Nat
  BY <1>2
<1>4. PairLocks(pairs) \in [1..(2 * Len(pairs)) -> Lock]
  BY <1>1 DEF PairLocks
<1>5. PICK n, locks : n = 2 * Len(pairs) /\ locks = PairLocks(pairs)
  OBVIOUS
<1>6. locks \in Seq(Lock)
  <2>1. n \in Nat /\ locks \in [1..n -> Lock]
    BY <1>3, <1>4, <1>5
  <2>2. QED  BY <2>1
<1>7. QED  BY <1>5, <1>6

\* A row in front of any locks is a plan that starts with it.
LEMMA FrontLock ==
  ASSUME NEW b \in Books, NEW s \in Seq(Lock)
  PROVE  StartsWithBook(<<BookRow(b)>> \o s, b)
<1>1. BookRow(b) \in Lock
  BY DEF Lock
<1> DEFINE l == BookRow(b)
<1> HIDE DEF l
<1>2. l \in Lock
  BY <1>1 DEF l
<1>3. <<l>> \o s \in Seq(Lock) /\ <<l>> \o s # <<>> /\ Head(<<l>> \o s) = l
  BY <1>2
<1>4. QED  BY <1>3 DEF StartsWithBook, l

\* A plan that begins with a book still does with more locks behind it.
LEMMA FrontTwoLocks ==
  ASSUME NEW b \in Books, NEW m \in Lock, NEW s \in Seq(Lock)
  PROVE  StartsWithBook(<<BookRow(b), m>> \o s, b)
<1>1. BookRow(b) \in Lock
  BY DEF Lock
<1> DEFINE l == BookRow(b)
<1> HIDE DEF l
<1>2. l \in Lock
  BY <1>1 DEF l
<1>3. <<l, m>> \o s \in Seq(Lock) /\ <<l, m>> \o s # <<>> /\ Head(<<l, m>> \o s) = l
  BY <1>2
<1>4. QED  BY <1>3 DEF StartsWithBook, l

\* Every command locks the row of its book before anything else.
LEMMA PlansStartWithBook ==
  ASSUME NEW b \in Books,
         NEW p \in SubmitPlans(b) \cup CancelPlans(b) \cup ClosePlans(b) \cup RedeemPlans(b)
  PROVE  StartsWithBook(p, b)
<1>1. CASE p \in SubmitPlans(b)
  <2>1. PICK a \in Owners : \E ms \in Strings(Owners \ {a}) :
          p = <<BookRow(b), Owner(a)>> \o PairLocks([i \in DOMAIN ms |-> <<a, ms[i]>>])
    BY <1>1 DEF SubmitPlans
  <2>7. PICK ms \in Strings(Owners \ {a}) :
          p = <<BookRow(b), Owner(a)>> \o PairLocks([i \in DOMAIN ms |-> <<a, ms[i]>>])
    BY <2>1
  <2> DEFINE pairs == [i \in DOMAIN ms |-> <<a, ms[i]>>]
  <2>2. ms \in Seq(Owners \ {a})
    BY StringsType
  <2>3. pairs \in [1..Len(ms) -> Owners \X Owners] /\ Len(ms) \in Nat
    BY <2>2
  <2>4. pairs \in Seq(Owners \X Owners)
    BY <2>3
  <2>5. Owner(a) \in Lock
    BY DEF Lock
  <2>6. PairLocks(pairs) \in Seq(Lock)
    <3> HIDE DEF pairs
    <3>1. QED  BY <2>4, PairLocksType
  <2>8. QED  BY <2>5, <2>6, <2>7, FrontTwoLocks
<1>2. CASE p \in CancelPlans(b)
  <2>1. PICK o \in Owners : p = <<BookRow(b), Owner(o)>>
    BY <1>2 DEF CancelPlans
  <2>2. BookRow(b) \in Lock /\ Owner(o) \in Lock
    BY DEF Lock
  <2>3. QED  BY <2>1, <2>2 DEF StartsWithBook
<1>3. CASE p \in ClosePlans(b)
  <2>1. PICK os \in Strings(Owners) : p = <<BookRow(b)>> \o [i \in DOMAIN os |-> Owner(os[i])]
    BY <1>3 DEF ClosePlans
  <2> DEFINE locks == [i \in DOMAIN os |-> Owner(os[i])]
  <2>2. os \in Seq(Owners)
    BY StringsType
  <2>3. \A o \in Owners : Owner(o) \in Lock
    BY DEF Lock
  <2>4. locks \in [1..Len(os) -> Lock] /\ Len(os) \in Nat
    BY <2>2, <2>3
  <2>5. locks \in Seq(Lock)
    BY <2>4
  <2>6. QED  BY <2>1, <2>5, FrontLock
<1>4. CASE p \in RedeemPlans(b)
  <2>1. PICK ps \in Strings(Pairs) : p = <<BookRow(b), Escrow>> \o PairLocks(ps)
    BY <1>4 DEF RedeemPlans
  <2>2. ps \in Seq(Pairs) /\ Pairs \subseteq Owners \X Owners
    BY StringsType DEF Pairs
  <2>3. ps \in Seq(Owners \X Owners)
    BY <2>2
  <2>4. PairLocks(ps) \in Seq(Lock) /\ Escrow \in Lock
    BY <2>3, PairLocksType DEF Lock
  <2>5. QED  BY <2>1, <2>4, FrontTwoLocks
<1>5. QED  BY <1>1, <1>2, <1>3, <1>4

\* The invariant of the locks holds at the start.
LEMMA LocksInitInv == LocksInit => LocksInv
<1> SUFFICES ASSUME LocksInit PROVE LocksInv
  OBVIOUS
<1>1. LocksTypeOK
  BY DEF LocksInit, LocksTypeOK, Running
<1>2. BookFirst
  BY DEF LocksInit, BookFirst, Running
<1>3. QED  BY <1>1, <1>2 DEF LocksInv

\* A transaction that begins asks for its book first.
LEMMA BeginKeepsInv ==
  ASSUME LocksInv, NEW t \in Transactions, NEW b \in Books, Begin(t, b)
  PROVE  LocksInv'
<1>1. PICK p \in SubmitPlans(b) \cup CancelPlans(b) \cup ClosePlans(b) \cup RedeemPlans(b) :
        plan' = [plan EXCEPT ![t] = p]
  BY DEF Begin
<1>2. StartsWithBook(p, b)
  BY PlansStartWithBook
<1>3. p \in Seq(Lock) /\ b # NoBook
  BY <1>2, LocksAssumption DEF StartsWithBook
<1>4. ~Running(t) /\ held' = held /\ book' = [book EXCEPT ![t] = b]
  BY DEF Begin
<1>5. held[t] = {}
  BY <1>4 DEF LocksInv, LocksTypeOK
<1>6. LocksTypeOK'
  BY <1>1, <1>3, <1>4 DEF LocksInv, LocksTypeOK, Running
<1>7. ASSUME NEW u \in Transactions, Running(u)'
      PROVE  (BookRow(book[u]) \in held[u] \/ (held[u] = {} /\ StartsWithBook(plan[u], book[u])))'
  <2>1. CASE u = t
    <3>1. book'[u] = b /\ plan'[u] = p /\ held'[u] = {}
      BY <1>1, <1>4, <1>5, <2>1 DEF LocksInv, LocksTypeOK
    <3>2. QED  BY <1>2, <3>1
  <2>2. CASE u # t
    <3>1. book'[u] = book[u] /\ plan'[u] = plan[u] /\ held'[u] = held[u]
      BY <1>1, <1>4, <2>2 DEF LocksInv, LocksTypeOK
    <3>2. QED  BY <1>7, <3>1 DEF LocksInv, BookFirst, Running
  <2>3. QED  BY <2>1, <2>2
<1>8. BookFirst'
  BY <1>7 DEF BookFirst
<1>9. QED  BY <1>6, <1>8 DEF LocksInv

\* A lock is granted to one transaction at most.
LEMMA AcquireKeepsInv ==
  ASSUME LocksInv, NEW t \in Transactions, Acquire(t)
  PROVE  LocksInv'
<1> DEFINE l == Head(plan[t])
<1>1. plan[t] # <<>> /\ book' = book /\ held' = [held EXCEPT ![t] = @ \cup {l}]
      /\ plan' = [plan EXCEPT ![t] = Tail(@)]
  BY DEF Acquire
<1>2. \A u \in Transactions : u # t => l \notin held[u]
  BY <1>1 DEF Acquire, Waiting, WaitsFor
<1>3. plan[t] \in Seq(Lock) /\ Running(t)
  BY <1>1 DEF LocksInv, LocksTypeOK
<1>4. l \in Lock /\ Tail(plan[t]) \in Seq(Lock)
  BY <1>1, <1>3
<1>5. plan'[t] = Tail(plan[t]) /\ held'[t] = held[t] \cup {l}
      /\ \A u \in Transactions : u # t => plan'[u] = plan[u] /\ held'[u] = held[u]
  BY <1>1 DEF LocksInv, LocksTypeOK
<1> HIDE DEF l
<1>6. plan' \in [Transactions -> Seq(Lock)] /\ held' \in [Transactions -> SUBSET Lock]
  BY <1>1, <1>4 DEF LocksInv, LocksTypeOK
<1>7. \A u \in Transactions : ~Running(u)' => plan'[u] = <<>> /\ held'[u] = {}
  BY <1>1, <1>3, <1>5 DEF LocksInv, LocksTypeOK, Running
<1>8. \A u, v \in Transactions : u # v => held'[u] \cap held'[v] = {}
  BY <1>2, <1>5 DEF LocksInv, LocksTypeOK
<1>9. LocksTypeOK'
  BY <1>1, <1>6, <1>7, <1>8 DEF LocksInv, LocksTypeOK
<1>10. ASSUME NEW u \in Transactions, Running(u)'
       PROVE  (BookRow(book[u]) \in held[u] \/ (held[u] = {} /\ StartsWithBook(plan[u], book[u])))'
  <2>1. Running(u) /\ book'[u] = book[u]
    BY <1>1, <1>10 DEF Running
  <2>2. CASE u = t
    <3>1. BookRow(book[t]) \in held[t] \/ l = BookRow(book[t])
      BY <2>1, <2>2 DEF LocksInv, BookFirst, StartsWithBook, l
    <3>2. BookRow(book[t]) \in held'[t]
      BY <1>5, <3>1
    <3>3. BookRow(book'[u]) \in held'[u]
      BY <2>1, <2>2, <3>2
    <3>4. QED  BY <3>3
  <2>3. CASE u # t
    BY <1>5, <2>1, <2>3 DEF LocksInv, BookFirst
  <2>4. QED  BY <2>2, <2>3
<1>11. BookFirst'
  BY <1>10 DEF BookFirst
<1>12. QED  BY <1>9, <1>11 DEF LocksInv

\* An end, by commit or by timeout, frees what was held.
LEMMA EndKeepsInv ==
  ASSUME LocksInv, NEW t \in Transactions, End(t)
  PROVE  LocksInv'
<1>1. LocksTypeOK'
  BY DEF End, LocksInv, LocksTypeOK, Running
<1>2. BookFirst'
  BY DEF End, LocksInv, LocksTypeOK, BookFirst, Running
<1>3. QED  BY <1>1, <1>2 DEF LocksInv

\* The invariant of the locks holds.
LEMMA LocksInvariant == LocksSpec => []LocksInv
<1>1. LocksInv /\ [LocksNext]_lockVars => LocksInv'
  <2> SUFFICES ASSUME LocksInv, [LocksNext]_lockVars PROVE LocksInv'
    OBVIOUS
  <2>1. ASSUME NEW t \in Transactions, NEW b \in Books, Begin(t, b) PROVE LocksInv'
    BY <2>1, BeginKeepsInv
  <2>2. ASSUME NEW t \in Transactions, Acquire(t) PROVE LocksInv'
    BY <2>2, AcquireKeepsInv
  <2>3. ASSUME NEW t \in Transactions, Commit(t) \/ RollBack(t) PROVE LocksInv'
    BY <2>3, EndKeepsInv DEF Commit, RollBack
  <2>4. CASE UNCHANGED lockVars
    BY <2>4 DEF lockVars, LocksInv, LocksTypeOK, BookFirst, Running
  <2>5. QED  BY <2>1, <2>2, <2>3, <2>4 DEF LocksNext
<1>2. QED  BY LocksInitInv, <1>1, PTL DEF LocksSpec

\* Whoever others wait for holds the row of its book, and of one book only one
\* transaction does; that one would have to wait for a second.
LEMMA CirclesSpanBooks == LocksInv => DeadlocksSpanBooks
<1> SUFFICES ASSUME LocksInv, NEW D \in SUBSET Transactions, Deadlocked(D),
                    ~(Cardinality({book[t] : t \in D}) > 1)
             PROVE  FALSE
  BY DEF DeadlocksSpanBooks
<1> DEFINE B == {book[t] : t \in D}
<1>1. IsFiniteSet(D)
  BY LocksAssumption, FS_Subset
<1>2. IsFiniteSet(B)
  <2> DEFINE f == [t \in D |-> book[t]]
  <2>1. f \in Surjection(D, B)
    BY DEF Surjection
  <2>2. QED  BY <1>1, <2>1, FS_Surjection
<1>3. D # {} /\ \A t \in D : \E u \in D : WaitsFor(t, u)
  BY DEF Deadlocked
<1>4. ASSUME NEW t \in D, NEW u \in D PROVE book[t] = book[u]
  <2>1. Cardinality(B) \in Nat /\ ~(Cardinality(B) > 1)
    BY <1>2, FS_CardinalityType
  <2>2. Cardinality({book[t], book[u]}) <= Cardinality(B)
    <3>1. {book[t], book[u]} \subseteq B
      OBVIOUS
    <3>2. QED  BY <1>2, <3>1, FS_Subset
  <2>3. book[t] # book[u] => Cardinality({book[t], book[u]}) = 2
    <3>1. book[t] # book[u] => Cardinality({book[t]} \cup {book[u]}) = 1 + 1
      <4>1. IsFiniteSet({book[t]}) /\ Cardinality({book[t]}) = 1
        BY FS_Singleton
      <4>2. ASSUME book[t] # book[u] PROVE book[u] \notin {book[t]}
        BY <4>2
      <4>3. QED  BY <4>1, <4>2, FS_AddElement
    <3>2. {book[t]} \cup {book[u]} = {book[t], book[u]}
      OBVIOUS
    <3>3. QED  BY <3>1, <3>2
  <2> HIDE DEF B
  <2>4. QED  BY <2>1, <2>2, <2>3
<1>5. ASSUME NEW t \in D, NEW u \in D, WaitsFor(t, u)
      PROVE  BookRow(book[u]) \in held[u]
  <2>1. held[u] # {}
    BY <1>5 DEF WaitsFor
  <2>2. Running(u)
    BY <2>1 DEF LocksInv, LocksTypeOK
  <2>3. QED  BY <2>1, <2>2 DEF LocksInv, BookFirst
<1>6. PICK t \in D, u \in D : WaitsFor(t, u)
  BY <1>3
<1>7. PICK v \in D : WaitsFor(u, v)
  BY <1>3
<1>8. BookRow(book[u]) \in held[u] /\ BookRow(book[v]) \in held[v] /\ u # v
  BY <1>5, <1>6, <1>7 DEF WaitsFor
<1>9. book[u] = book[v]
  BY <1>4
<1>10. held[u] \cap held[v] = {}
  BY <1>8 DEF LocksInv, LocksTypeOK
<1>11. QED  BY <1>8, <1>9, <1>10

\* A circle of waiting transactions always spans two books, for any number of
\* transactions, owners, books and fills: lockOwnerAsset after marketBook.
THEOREM CirclesNeedTwoBooks == LocksSpec => []DeadlocksSpanBooks
<1>1. QED  BY LocksInvariant, CirclesSpanBooks, PTL

-------------------------------------------------------------------------------
(***************************************************************************)
(* Liquidity.  ControlInv says what rows, sessions, quotes, fills and      *)
(* results look like between two steps: a session that has checked an      *)
(* execution holds a book, a quote and an owner no other holds.  On it     *)
(* rest three layers: exposures (ExposureInv), money (LedgerInv) and the   *)
(* capacity of pools (CapacityInv, which also needs LedgerInv).              *)
(***************************************************************************)

(***************************************************************************)
(* Rows of the tables, and what no step changes in them.                   *)
(***************************************************************************)
Reference  == [price : Nat, observed : Int, expires : Nat]
PoolRow    == [status : {"none", "open", "halted"}, impact : Nat, funded : Nat,
               shares : Nat, subsidy : Nat, loss : Nat]
AmmQuote   == [state : {"quoted", "executed"}, owner : Users, pool : Pools, side : OrderSide,
               quantity : Nat \ {0}, price : Price, reference : Reference, expires : Nat,
               userCollateral : Nat, ammCollateral : Nat, fee : Nat]
RequestRow == [state : {"open", "accepted", "cancelled", "expired"}, owner : Users, entity : Entities,
               market : Markets, outcome : Outcomes, side : OrderSide, quantity : Nat \ {0},
               expires : Nat, accepted : Nat]
RfqQuote   == [state : {"open", "accepted", "rejected", "expired"}, request : Nat, entity : Entities,
               owner : Users, price : Price, expires : Nat]

SessionRow == [op : {"idle", "execute", "quote", "accept"}, of : Nat, asOf : Nat,
               book : Markets \cup {Null}, owner : Users \cup {Null}]

RowsOK ==
  /\ now \in 0..Horizon /\ liquidity \in Programs /\ status \in [Markets -> {"open", "halted"}]
  /\ pool \in [Pools -> PoolRow] /\ references \in [Pools -> SUBSET Reference]
  /\ ammQuotes \in Seq(AmmQuote) /\ requests \in Seq(RequestRow) /\ rfqQuotes \in Seq(RfqQuote)
  /\ session \in [Connections -> SessionRow]

SameRequest(r, s) ==
  /\ s.owner = r.owner /\ s.entity = r.entity /\ s.market = r.market /\ s.outcome = r.outcome
  /\ s.side = r.side /\ s.quantity = r.quantity /\ s.expires = r.expires
  /\ r.state # "open" => s.state = r.state
SameQuote(r, s) ==
  /\ s.request = r.request /\ s.entity = r.entity /\ s.owner = r.owner
  /\ s.price = r.price /\ s.expires = r.expires
SameTerms(r, s) ==
  /\ s.owner = r.owner /\ s.pool = r.pool /\ s.side = r.side /\ s.quantity = r.quantity
  /\ s.price = r.price /\ s.reference = r.reference /\ s.expires = r.expires
  /\ s.userCollateral = r.userCollateral /\ s.ammCollateral = r.ammCollateral /\ s.fee = r.fee

AmmStands == \A q \in DOMAIN ammQuotes : q \in DOMAIN ammQuotes' /\ SameTerms(ammQuotes[q], ammQuotes'[q])
RfqStands ==
  /\ \A i \in DOMAIN requests : i \in DOMAIN requests' /\ SameRequest(requests[i], requests'[i])
  /\ \A q \in DOMAIN rfqQuotes : q \in DOMAIN rfqQuotes' /\ SameQuote(rfqQuotes[q], rfqQuotes'[q])

\* The row of a pool with one more execution.
LEMMA ExposedFields ==
  ASSUME RowsOK, NEW p \in Pools, NEW contracts \in Nat, NEW collateral \in Nat
  PROVE  LET next == Exposed(p, contracts, collateral) IN
         /\ next \in PoolRow
         /\ next.shares = pool[p].shares + contracts
         /\ next.subsidy = pool[p].subsidy + collateral
         /\ next.loss = pool[p].loss + collateral
         /\ next.funded = pool[p].funded
         /\ next.status = pool[p].status
<1>1. PICK r : r = pool[p]
  OBVIOUS
<1>2. r \in PoolRow
  BY <1>1 DEF RowsOK
<1> DEFINE a == [r EXCEPT !.shares = r.shares + contracts]
           b == [a EXCEPT !.subsidy = a.subsidy + collateral]
           d == [b EXCEPT !.loss = b.loss + collateral]
<1>3. /\ a \in PoolRow /\ a.shares = r.shares + contracts /\ a.subsidy = r.subsidy
      /\ a.loss = r.loss /\ a.funded = r.funded /\ a.status = r.status
  BY <1>2 DEF PoolRow
<1>4. Exposed(p, contracts, collateral) = d
  BY <1>1 DEF Exposed
<1> HIDE DEF a
<1>5. /\ b \in PoolRow /\ b.shares = a.shares /\ b.subsidy = a.subsidy + collateral
      /\ b.loss = a.loss /\ b.funded = a.funded /\ b.status = a.status
  BY <1>3 DEF PoolRow
<1> HIDE DEF b
<1>6. /\ d \in PoolRow /\ d.shares = b.shares /\ d.subsidy = b.subsidy
      /\ d.loss = b.loss + collateral /\ d.funded = b.funded /\ d.status = b.status
  BY <1>5 DEF PoolRow
<1> HIDE DEF d
<1>7. QED  BY <1>1, <1>3, <1>4, <1>5, <1>6

\* Collateral and fee of a precise price are natural numbers, and the two sides
\* of a contract make up its unit.
LEMMA SidesType ==
  ASSUME NEW p \in Price, WithinPrecision(p), NEW dir
  PROVE  /\ PerShare(dir, p) \in 0..ContractUnit /\ FeePerShare(dir, p) \in Nat
         /\ PerShare("buy", p) + PerShare("sell", p) = ContractUnit
<1> DEFINE n == PerShare(dir, p) * FeeBps + BPS_SCALE - 1
<1>1. /\ PerShare(dir, p) \in 0..ContractUnit
      /\ PerShare("buy", p) + PerShare("sell", p) = ContractUnit
  BY ContractUnitAssumption DEF PerShare, WithinPrecision
<1>2. BPS_SCALE \in Nat /\ BPS_SCALE > 0 /\ FeeBps \in Nat
  BY FeeBpsAssumption, SMT DEF BPS_SCALE
<1>3. PerShare(dir, p) \in Nat
  BY <1>1, ContractUnitAssumption
<1>4. PerShare(dir, p) * FeeBps \in Nat
  BY <1>2, <1>3
<1>5. n \in Nat
  BY <1>2, <1>4
<1> HIDE DEF n
<1>6. n \div BPS_SCALE \in Nat
  BY <1>2, <1>5, DivNat
<1>7. QED  BY <1>1, <1>6 DEF FeePerShare, CeilDiv, n

\* So are those of a number of contracts.
LEMMA CostsType ==
  ASSUME NEW p \in Price, WithinPrecision(p), NEW q \in Nat, NEW dir
  PROVE  /\ ContractCollateral(dir, q, p) \in Nat /\ ExecutionFee(dir, q, p) \in Nat
         /\ FillCost(dir, q, p) \in Nat
         /\ ContractCollateral(dir, q, p) <= q * ContractUnit
         /\ q * ContractUnit \in Nat
<1>1. /\ PerShare(dir, p) \in 0..ContractUnit /\ FeePerShare(dir, p) \in Nat /\ ContractUnit \in Nat
  BY SidesType, ContractUnitAssumption
<1>2. q * PerShare(dir, p) \in Nat /\ q * FeePerShare(dir, p) \in Nat /\ q * ContractUnit \in Nat
  BY <1>1
<1>3. q * PerShare(dir, p) <= q * ContractUnit
  BY <1>1, ProductMonotone
<1>4. QED  BY <1>2, <1>3 DEF ContractCollateral, ExecutionFee, FillCost

\* Sequences of rows: one more row,
LEMMA RowAppended ==
  ASSUME NEW T, NEW s \in Seq(T), NEW e \in T
  PROVE  /\ Append(s, e) \in Seq(T) /\ DOMAIN Append(s, e) = DOMAIN s \cup {Len(s) + 1}
         /\ Len(s) + 1 \notin DOMAIN s /\ Len(s) + 1 \in Nat /\ Append(s, e)[Len(s) + 1] = e
         /\ \A i \in DOMAIN s : i \in DOMAIN Append(s, e) /\ Append(s, e)[i] = s[i]
OBVIOUS

\* and other rows in the same places.
LEMMA RowsReplaced ==
  ASSUME NEW T, NEW s \in Seq(T), NEW t, t = [i \in DOMAIN s |-> t[i]], \A i \in DOMAIN s : t[i] \in T
  PROVE  t \in Seq(T) /\ DOMAIN t = DOMAIN s
<1>1. DOMAIN s = 1..Len(s) /\ Len(s) \in Nat
  OBVIOUS
<1>2. t \in [1..Len(s) -> T]
  BY <1>1
<1>3. QED  BY <1>1, <1>2

\* The row of a new quote of the AMM.
LEMMA AmmQuoteRow ==
  ASSUME RowsOK, NEW u \in Users, NEW p \in Pools, NEW dir \in OrderSide,
         NEW contracts \in Sizes, NEW cap, CreateAmmQuote(u, p, dir, contracts, cap)
  PROVE  \E row \in AmmQuote :
           /\ ammQuotes' = Append(ammQuotes, row)
           /\ row.state = "quoted" /\ row.expires <= row.reference.expires
<1>1. PICK r \in Latest(p, now) :
        LET price == QuotedPrice(p, dir, r.price, contracts)
            collateral == ContractCollateral(Opposite(dir), contracts, price)
        IN /\ price \in Price /\ WithinPrecision(price)
           /\ ammQuotes' = Append(ammQuotes,
               [state |-> "quoted", owner |-> u, pool |-> p, side |-> dir, quantity |-> contracts,
                price |-> price, reference |-> r, expires |-> QuoteExpiry(r),
                userCollateral |-> ContractCollateral(dir, contracts, price),
                ammCollateral |-> collateral, fee |-> ExecutionFee(dir, contracts, price)])
  BY DEF CreateAmmQuote
<1> DEFINE price == QuotedPrice(p, dir, r.price, contracts)
           mine  == ContractCollateral(dir, contracts, price)
           other == ContractCollateral(Opposite(dir), contracts, price)
           fee   == ExecutionFee(dir, contracts, price)
           row   == [state |-> "quoted", owner |-> u, pool |-> p, side |-> dir, quantity |-> contracts,
                     price |-> price, reference |-> r, expires |-> QuoteExpiry(r),
                     userCollateral |-> mine, ammCollateral |-> other, fee |-> fee]
<1>2. price \in Price /\ WithinPrecision(price) /\ ammQuotes' = Append(ammQuotes, row)
  BY <1>1
<1>3. contracts \in Nat \ {0}
  BY SizesAssumption
<1>4. r \in Reference
  BY DEF Latest, RowsOK
<1>5. QuoteExpiry(r) \in Nat /\ QuoteExpiry(r) <= r.expires
  BY <1>4, PoolsAssumption, MarketsAssumption DEF QuoteExpiry, Reference, RowsOK
<1> HIDE DEF price
<1>6. mine \in Nat /\ other \in Nat /\ fee \in Nat
  BY <1>2, <1>3, CostsType
<1> HIDE DEF mine, other, fee
<1>7. row \in AmmQuote
  BY <1>2, <1>3, <1>4, <1>5, <1>6 DEF AmmQuote
<1>8. QED  BY <1>2, <1>5, <1>7

\* A reference price that is recorded.
LEMMA ReferenceRow ==
  ASSUME RowsOK, NEW p \in Pools, NEW r \in References, RecordAmmReference(p, r)
  PROVE  references' \in [Pools -> SUBSET Reference]
<1>1. r \in [price : Nat, age : Nat, life : Nat] /\ now \in Nat
  BY PoolsAssumption, MarketsAssumption DEF RowsOK
<1> DEFINE row == [price |-> r.price, observed |-> now - r.age, expires |-> now + r.life]
<1>2. row \in Reference
  BY <1>1 DEF Reference
<1>3. references' = [references EXCEPT ![p] = @ \cup {row}]
  BY DEF RecordAmmReference
<1> HIDE DEF row
<1>4. QED  BY <1>2, <1>3 DEF RowsOK

\* An execution changes the state of its quote, and of no other.
LEMMA ExecutedRow ==
  ASSUME RowsOK, NEW q \in DOMAIN ammQuotes,
         ammQuotes' = [ammQuotes EXCEPT ![q].state = "executed"]
  PROVE  /\ ammQuotes' \in Seq(AmmQuote) /\ DOMAIN ammQuotes' = DOMAIN ammQuotes /\ AmmStands
         /\ ammQuotes'[q].state = "executed"
         /\ \A d \in DOMAIN ammQuotes : d # q => ammQuotes'[d] = ammQuotes[d]
<1>1. ammQuotes \in Seq(AmmQuote)
  BY DEF RowsOK
<1>2. \A d \in DOMAIN ammQuotes : ammQuotes[d] \in AmmQuote
  BY <1>1
<1>3. PICK row : row = [ammQuotes[q] EXCEPT !.state = "executed"]
  OBVIOUS
<1>4. row \in AmmQuote /\ row.state = "executed" /\ SameTerms(ammQuotes[q], row)
  BY <1>2, <1>3 DEF AmmQuote, SameTerms
<1>5. /\ DOMAIN ammQuotes' = DOMAIN ammQuotes /\ ammQuotes'[q] = row
      /\ \A d \in DOMAIN ammQuotes : d # q => ammQuotes'[d] = ammQuotes[d]
      /\ ammQuotes' = [d \in DOMAIN ammQuotes |-> ammQuotes'[d]]
  BY <1>1, <1>3
<1>6. ammQuotes' \in Seq(AmmQuote)
  <2>1. \A d \in DOMAIN ammQuotes : ammQuotes'[d] \in AmmQuote
    BY <1>2, <1>4, <1>5
  <2>2. PICK t : t = ammQuotes'
    OBVIOUS
  <2>3. t = [d \in DOMAIN ammQuotes |-> t[d]] /\ \A d \in DOMAIN ammQuotes : t[d] \in AmmQuote
    BY <1>5, <2>1, <2>2
  <2>4. t \in Seq(AmmQuote)
    BY <1>1, <2>3, RowsReplaced
  <2>5. QED  BY <2>2, <2>4
<1>7. AmmStands
  BY <1>4, <1>5 DEF AmmStands, SameTerms
<1>8. QED  BY <1>4, <1>5, <1>6, <1>7

(***************************************************************************)
(* Sessions, quotes and markets.                                           *)
(***************************************************************************)

\* A session that executes a quote, and what it found when it checked; one that
\* is about a request.
ExecutesOK(s) ==
  s.op = "execute" =>
    /\ s.of \in DOMAIN ammQuotes /\ ammQuotes[s.of].state = "quoted"
    /\ s.asOf < ammQuotes[s.of].expires /\ s.asOf < Cutoff
ChecksOK(s) ==
  s.book # Null =>
    /\ s.op = "execute" /\ s.book = ammQuotes[s.of].pool.market /\ s.owner = ammQuotes[s.of].owner
    /\ status[s.book] = "open"
AsksOK(s) == s.op \in {"quote", "accept"} => s.of \in DOMAIN requests
Apart(s, r) ==
  /\ s.op = "execute" /\ r.op = "execute" => s.of # r.of
  /\ s.book # Null /\ r.book # Null => s.book # r.book /\ s.owner # r.owner

SessionsOK ==
  /\ \A c \in Connections : ExecutesOK(session[c]) /\ ChecksOK(session[c]) /\ AsksOK(session[c])
  /\ \A c, d \in Connections : c # d => Apart(session[c], session[d])

QuotesOK ==
  /\ \A q \in DOMAIN ammQuotes : ammQuotes[q].expires <= ammQuotes[q].reference.expires
  /\ \A i \in DOMAIN requests : requests[i].expires <= Cutoff
  /\ \A q \in DOMAIN rfqQuotes :
       /\ rfqQuotes[q].request \in DOMAIN requests
       /\ rfqQuotes[q].expires <= requests[rfqQuotes[q].request].expires
       /\ rfqQuotes[q].owner # requests[rfqQuotes[q].request].owner

FillOK(f) ==
  /\ f.request \in DOMAIN requests /\ requests[f.request].state = "accepted"
  /\ f.quote \in DOMAIN rfqQuotes /\ rfqQuotes[f.quote].request = f.request
  /\ WithinPrecision(rfqQuotes[f.quote].price)
FillsOK ==
  /\ IsFiniteSet(rfqFills) /\ rfqFills \subseteq [request : Nat, quote : Nat]
  /\ \A f \in rfqFills : FillOK(f)
  /\ \A f, g \in rfqFills : f.request = g.request => f = g

MarketsOK ==
  /\ result = [m \in Markets |-> result[m]]
  /\ \A m \in Markets : result[m] # Null => status[m] = "halted"

ControlInv == RowsOK /\ SessionsOK /\ QuotesOK /\ FillsOK /\ MarketsOK

\* Quotes and requests that are left alone keep their terms.
LEMMA AmmKept == UNCHANGED ammQuotes => AmmStands
BY DEF AmmStands, SameTerms
\* Requests and dealers' quotes that are left alone keep their terms.
LEMMA RfqKept == UNCHANGED <<requests, rfqQuotes>> => RfqStands
BY DEF RfqStands, SameRequest, SameQuote

\* Sessions that only end stay in order while the terms stand, their quotes are
\* not executed and their books not halted.
LEMMA SessionsKept ==
  ASSUME RowsOK, SessionsOK, AmmStands, RfqStands,
         \A c \in Connections : session'[c] = session[c] \/ session'[c] = Idle,
         \A c \in Connections : session'[c].op = "execute" => ammQuotes'[session'[c].of].state = "quoted",
         \A c \in Connections : session'[c].book # Null => status'[session'[c].book] = "open"
  PROVE  SessionsOK'
<1> DEFINE I == Idle
<1>1. I.op = "idle" /\ I.book = Null
  BY DEF Idle
<1>2. \A c \in Connections : session'[c] = session[c] \/ session'[c] = I
  OBVIOUS
<1> HIDE DEF I
<1>3. ASSUME NEW c \in Connections
      PROVE  ExecutesOK(session[c])' /\ ChecksOK(session[c])' /\ AsksOK(session[c])'
  <2>1. CASE session'[c] = I
    BY <1>1, <2>1 DEF ExecutesOK, ChecksOK, AsksOK
  <2>2. CASE session'[c] = session[c]
    <3>1. ExecutesOK(session[c]) /\ ChecksOK(session[c]) /\ AsksOK(session[c])
      BY DEF SessionsOK
    <3>2. session[c].op = "execute" => /\ session[c].of \in DOMAIN ammQuotes'
                                       /\ SameTerms(ammQuotes[session[c].of], ammQuotes'[session[c].of])
      BY <3>1 DEF ExecutesOK, AmmStands
    <3>3. session[c].op \in {"quote", "accept"} => session[c].of \in DOMAIN requests'
      BY <3>1 DEF AsksOK, RfqStands
    <3>4. ExecutesOK(session[c])'
      BY <2>2, <3>1, <3>2 DEF ExecutesOK, SameTerms
    <3>5. ChecksOK(session[c])'
      BY <2>2, <3>1, <3>2 DEF ChecksOK, SameTerms
    <3>6. AsksOK(session[c])'
      BY <2>2, <3>3 DEF AsksOK
    <3>7. QED  BY <3>4, <3>5, <3>6
  <2>3. QED  BY <1>2, <2>1, <2>2
<1>4. ASSUME NEW c \in Connections, NEW d \in Connections, c # d
      PROVE  Apart(session[c], session[d])'
  <2>1. Apart(session[c], session[d])
    BY <1>4 DEF SessionsOK
  <2>2. /\ session'[c] = session[c] \/ session'[c] = I
        /\ session'[d] = session[d] \/ session'[d] = I
    BY <1>2
  <2>3. QED  BY <1>1, <2>1, <2>2 DEF Apart
<1>5. QED  BY <1>3, <1>4 DEF SessionsOK

\* A session that changes, while the rest of the world it knows stands.
LEMMA SessionMoved ==
  ASSUME RowsOK, SessionsOK, UNCHANGED <<ammQuotes, requests, status>>,
         NEW c \in Connections, NEW s \in SessionRow, session' = [session EXCEPT ![c] = s],
         ExecutesOK(s), ChecksOK(s), AsksOK(s),
         \A d \in Connections : d # c => Apart(s, session[d])
  PROVE  session' \in [Connections -> SessionRow] /\ SessionsOK'
<1>1. /\ session \in [Connections -> SessionRow]
      /\ session'[c] = s /\ \A d \in Connections : d # c => session'[d] = session[d]
  BY DEF RowsOK
<1>2. session' \in [Connections -> SessionRow]
  BY <1>1
<1>3. \A d \in Connections : ExecutesOK(session'[d]) /\ ChecksOK(session'[d]) /\ AsksOK(session'[d])
  BY <1>1 DEF SessionsOK
<1>4. \A d, e \in Connections : d # e => Apart(session'[d], session'[e])
  <2>1. \A r : Apart(r, s) <=> Apart(s, r)
    BY DEF Apart
  <2>2. QED  BY <1>1, <2>1 DEF SessionsOK
<1>5. \A d \in Connections : ExecutesOK(session[d])' /\ ChecksOK(session[d])' /\ AsksOK(session[d])'
  BY <1>3 DEF ExecutesOK, ChecksOK, AsksOK
<1>6. \A d, e \in Connections : d # e => Apart(session[d], session[e])'
  BY <1>4
<1>7. QED  BY <1>2, <1>5, <1>6 DEF SessionsOK

\* The session of a command that begins, and one that ended.
LEMMA BegunRow ==
  ASSUME NEW c, NEW op, NEW of, NEW m, BeginCommand(c, op, of, m)
  PROVE  session' = [session EXCEPT ![c] =
           [op |-> op, of |-> of, asOf |-> now, book |-> Null, owner |-> Null]]
<1> DEFINE a == [Idle EXCEPT !.op = op]
           b == [a EXCEPT !.of = of]
           d == [b EXCEPT !.asOf = now]
<1>1. a = [op |-> op, of |-> 0, asOf |-> 0, book |-> Null, owner |-> Null]
  BY DEF Idle
<1>2. session' = [session EXCEPT ![c] = d]
  BY DEF BeginCommand
<1> HIDE DEF a
<1>3. b = [op |-> op, of |-> of, asOf |-> 0, book |-> Null, owner |-> Null]
  BY <1>1
<1> HIDE DEF b
<1>4. d = [op |-> op, of |-> of, asOf |-> now, book |-> Null, owner |-> Null]
  BY <1>3
<1> HIDE DEF d
<1>5. QED  BY <1>2, <1>4

\* The session of a command that ends.
LEMMA EndedRow ==
  ASSUME RowsOK, NEW c \in Connections, EndCommand(c)
  PROVE  /\ session' \in [Connections -> SessionRow]
         /\ session'[c] = Idle /\ \A d \in Connections : d # c => session'[d] = session[d]
<1> DEFINE I == Idle
<1>1. I \in SessionRow
  BY DEF Idle, SessionRow
<1>2. session' = [session EXCEPT ![c] = I]
  BY DEF EndCommand
<1> HIDE DEF I
<1>3. /\ session' \in [Connections -> SessionRow]
      /\ session'[c] = I /\ \A d \in Connections : d # c => session'[d] = session[d]
  BY <1>1, <1>2 DEF RowsOK
<1>4. QED  BY <1>3 DEF I

\* The terms of quotes, requests and fills while no row is added.
LEMMA QuotesKept ==
  ASSUME QuotesOK, AmmStands, RfqStands, DOMAIN ammQuotes' = DOMAIN ammQuotes,
         DOMAIN requests' = DOMAIN requests, DOMAIN rfqQuotes' = DOMAIN rfqQuotes
  PROVE  QuotesOK'
<1>1. ASSUME NEW q \in DOMAIN ammQuotes' PROVE ammQuotes'[q].expires <= ammQuotes'[q].reference.expires
  BY DEF QuotesOK, AmmStands, SameTerms
<1>2. ASSUME NEW i \in DOMAIN requests' PROVE requests'[i].expires <= Cutoff
  BY DEF QuotesOK, RfqStands, SameRequest
<1>3. ASSUME NEW q \in DOMAIN rfqQuotes'
      PROVE  /\ rfqQuotes'[q].request \in DOMAIN requests'
             /\ rfqQuotes'[q].expires <= requests'[rfqQuotes'[q].request].expires
             /\ rfqQuotes'[q].owner # requests'[rfqQuotes'[q].request].owner
  BY DEF QuotesOK, RfqStands, SameRequest, SameQuote
<1>4. QED  BY <1>1, <1>2, <1>3 DEF QuotesOK

\* A fill stays what it was.
LEMMA FillStands ==
  ASSUME RfqStands, NEW f, FillOK(f)
  PROVE  FillOK(f)'
BY DEF FillOK, RfqStands, SameRequest, SameQuote

\* All of them do.
LEMMA FillsKept ==
  ASSUME FillsOK, RfqStands, UNCHANGED rfqFills
  PROVE  FillsOK'
<1>1. \A f \in rfqFills : FillOK(f)'
  BY FillStands DEF FillsOK
<1>2. QED  BY <1>1 DEF FillsOK

\* Books with a result stay halted.
LEMMA MarketsKept ==
  ASSUME MarketsOK, UNCHANGED result,
         \A m \in Markets : status[m] = "halted" => status'[m] = "halted"
  PROVE  MarketsOK'
BY DEF MarketsOK

\* What the invariants say of executing sessions.
LEMMA SessionStates ==
  ASSUME ControlInv
  PROVE  /\ \A c \in Connections : session[c].op = "execute" => ammQuotes[session[c].of].state = "quoted"
         /\ \A c \in Connections : session[c].book # Null => status[session[c].book] = "open"
         /\ Idle.op = "idle" /\ Idle.book = Null
BY DEF ControlInv, SessionsOK, ExecutesOK, ChecksOK, Idle

\* Quotes and requests stand, the books too, and sessions do nothing.
LEMMA NothingMoves ==
  ASSUME ControlInv, RowsOK',
         UNCHANGED <<ammQuotes, requests, rfqQuotes, rfqFills, result, session>>,
         \A c \in Connections : session[c].book # Null => status'[session[c].book] = status[session[c].book],
         \A m \in Markets : status[m] = "halted" => status'[m] = "halted"
  PROVE  ControlInv' /\ AmmStands /\ RfqStands
<1>1. AmmStands /\ RfqStands
  BY AmmKept, RfqKept
<1>2. SessionsOK'
  <2>1. /\ \A c \in Connections : session'[c] = session[c] \/ session'[c] = Idle
        /\ \A c \in Connections : session'[c].op = "execute" => ammQuotes'[session'[c].of].state = "quoted"
        /\ \A c \in Connections : session'[c].book # Null => status'[session'[c].book] = "open"
    BY SessionStates
  <2>2. QED  BY <1>1, <2>1, SessionsKept DEF ControlInv
<1>3. QuotesOK' /\ FillsOK' /\ MarketsOK'
  BY <1>1, QuotesKept, FillsKept, MarketsKept DEF ControlInv
<1>4. QED  BY <1>1, <1>2, <1>3 DEF ControlInv

\* The clock, a rollback, a halted book.
LEMMA TickKeeps ==
  ASSUME ControlInv, Tick, UNCHANGED <<ammVars, rfqVars, resolution>>
  PROVE  ControlInv' /\ AmmStands /\ RfqStands
<1>1. /\ UNCHANGED <<ammQuotes, requests, rfqQuotes, rfqFills, result, session, status>>
      /\ UNCHANGED <<pool, references, liquidity>> /\ now' = now + 1 /\ now < Horizon
  BY DEF Tick, ammVars, rfqVars, resolution, market
<1>2. RowsOK'
  BY <1>1, MarketsAssumption DEF ControlInv, RowsOK
<1>3. QED  BY <1>1, <1>2, NothingMoves

\* A rollback ends its session and changes nothing else.
LEMMA RollbackKeeps ==
  ASSUME ControlInv, NEW c \in Connections, Rollback(c), UNCHANGED <<ammVars, rfqVars, resolution>>
  PROVE  ControlInv' /\ AmmStands /\ RfqStands
<1>1. /\ UNCHANGED <<ammQuotes, requests, rfqQuotes, rfqFills, result, status>>
      /\ UNCHANGED <<pool, references, liquidity, now>> /\ EndCommand(c)
  BY DEF Rollback, ammVars, rfqVars, resolution, market
<1>2. /\ session' \in [Connections -> SessionRow]
      /\ session'[c] = Idle /\ \A d \in Connections : d # c => session'[d] = session[d]
  BY <1>1, EndedRow DEF ControlInv
<1>3. RowsOK'
  BY <1>1, <1>2 DEF ControlInv, RowsOK
<1>4. AmmStands /\ RfqStands
  BY <1>1, AmmKept, RfqKept
<1>5. SessionsOK'
  <2>1. /\ \A d \in Connections : session'[d] = session[d] \/ session'[d] = Idle
        /\ \A d \in Connections : session'[d].op = "execute" => ammQuotes'[session'[d].of].state = "quoted"
        /\ \A d \in Connections : session'[d].book # Null => status'[session'[d].book] = "open"
    BY <1>1, <1>2, SessionStates
  <2>2. QED  BY <1>4, <2>1, SessionsKept DEF ControlInv
<1>6. QuotesOK' /\ FillsOK' /\ MarketsOK'
  BY <1>1, <1>4, QuotesKept, FillsKept, MarketsKept DEF ControlInv
<1>7. QED  BY <1>3, <1>4, <1>5, <1>6 DEF ControlInv

\* A book is halted only while no session holds it.
LEMMA HaltKeeps ==
  ASSUME ControlInv, NEW m \in Markets, HaltBook(m), UNCHANGED <<ammVars, rfqVars, resolution>>
  PROVE  ControlInv' /\ AmmStands /\ RfqStands
<1>1. /\ UNCHANGED <<ammQuotes, requests, rfqQuotes, rfqFills, result, session>>
      /\ UNCHANGED <<pool, references, liquidity, now>> /\ BookFree(m)
      /\ status' = [status EXCEPT ![m] = "halted"]
  BY DEF HaltBook, ammVars, rfqVars, resolution
<1>2. RowsOK'
  BY <1>1 DEF ControlInv, RowsOK
<1>3. \A n : n # m => status'[n] = status[n]
  BY <1>1 DEF ControlInv, RowsOK
<1>4. QED  BY <1>1, <1>2, <1>3, NothingMoves DEF BookFree, ControlInv, RowsOK

\* What finance and operators do to a pool.
LEMMA ActivateKeeps ==
  ASSUME ControlInv, NEW p \in Pools, NEW impact \in Impacts, ActivateAmm(p, impact),
         UNCHANGED <<rfqVars, resolution>>
  PROVE  ControlInv' /\ AmmStands /\ RfqStands
<1>1. /\ UNCHANGED <<ammQuotes, requests, rfqQuotes, rfqFills, result, session, status>>
      /\ UNCHANGED <<references, liquidity, now>>
      /\ pool' = [pool EXCEPT ![p] = [NoPool EXCEPT !.status = "open", !.impact = impact]]
  BY DEF ActivateAmm, rfqVars, resolution, market
<1> DEFINE a == [NoPool EXCEPT !.status = "open"]
           b == [a EXCEPT !.impact = impact]
<1>2. a \in PoolRow
  BY DEF NoPool, PoolRow
<1> HIDE DEF a
<1>3. b \in PoolRow
  BY <1>2, PoolsAssumption DEF PoolRow
<1>4. pool' = [pool EXCEPT ![p] = b]
  BY <1>1 DEF a
<1> HIDE DEF b
<1>5. RowsOK'
  BY <1>1, <1>3, <1>4 DEF ControlInv, RowsOK
<1>6. QED  BY <1>1, <1>5, NothingMoves

\* Money for a pool changes its funding only.
LEMMA FundKeeps ==
  ASSUME ControlInv, NEW p \in Pools, NEW amount \in Fundings, FundAmm(p, amount),
         UNCHANGED <<rfqVars, resolution>>
  PROVE  ControlInv' /\ AmmStands /\ RfqStands
<1>1. /\ UNCHANGED <<ammQuotes, requests, rfqQuotes, rfqFills, result, session, status>>
      /\ UNCHANGED <<references, liquidity, now>>
      /\ pool' = [pool EXCEPT ![p].funded = @ + amount]
  BY DEF FundAmm, rfqVars, resolution, market
<1>2. PICK r : r = [pool[p] EXCEPT !.funded = @ + amount]
  OBVIOUS
<1>3. pool[p] \in PoolRow /\ amount \in Nat
  BY PoolsAssumption DEF ControlInv, RowsOK
<1>4. r \in PoolRow
  BY <1>2, <1>3 DEF PoolRow
<1>5. pool' = [pool EXCEPT ![p] = r]
  BY <1>1, <1>2
<1>6. RowsOK'
  BY <1>1, <1>4, <1>5 DEF ControlInv, RowsOK
<1>7. QED  BY <1>1, <1>6, NothingMoves

\* A new reference price is a reference price.
LEMMA ReferenceKeeps ==
  ASSUME ControlInv, NEW p \in Pools, NEW r \in References, RecordAmmReference(p, r),
         UNCHANGED <<rfqVars, resolution>>
  PROVE  ControlInv' /\ AmmStands /\ RfqStands
<1>1. /\ UNCHANGED <<ammQuotes, requests, rfqQuotes, rfqFills, result, session, status>>
      /\ UNCHANGED <<pool, liquidity, now>>
  BY DEF RecordAmmReference, rfqVars, resolution, market
<1>2. references' \in [Pools -> SUBSET Reference]
  BY ReferenceRow DEF ControlInv
<1>3. RowsOK'
  BY <1>1, <1>2 DEF ControlInv, RowsOK
<1>4. QED  BY <1>1, <1>3, NothingMoves

\* A quote of the AMM is made.
LEMMA QuoteKeeps ==
  ASSUME ControlInv, NEW u \in Users, NEW p \in Pools, NEW dir \in OrderSide, NEW contracts \in Sizes,
         NEW cap, CreateAmmQuote(u, p, dir, contracts, cap), UNCHANGED <<rfqVars, resolution>>
  PROVE  ControlInv' /\ AmmStands /\ RfqStands
<1>1. /\ UNCHANGED <<requests, rfqQuotes, rfqFills, result, session, status>>
      /\ UNCHANGED <<pool, references, liquidity, now>>
  BY DEF CreateAmmQuote, rfqVars, resolution, market
<1>2. PICK row \in AmmQuote :
        /\ ammQuotes' = Append(ammQuotes, row)
        /\ row.state = "quoted" /\ row.expires <= row.reference.expires
  BY AmmQuoteRow DEF ControlInv
<1>3. PICK n : n = Len(ammQuotes) + 1
  OBVIOUS
<1>4. /\ ammQuotes' \in Seq(AmmQuote) /\ DOMAIN ammQuotes' = DOMAIN ammQuotes \cup {n}
      /\ n \notin DOMAIN ammQuotes /\ ammQuotes'[n] = row
      /\ \A i \in DOMAIN ammQuotes : i \in DOMAIN ammQuotes' /\ ammQuotes'[i] = ammQuotes[i]
  BY <1>2, <1>3, RowAppended DEF ControlInv, RowsOK
<1>5. RowsOK'
  BY <1>1, <1>4 DEF ControlInv, RowsOK
<1>6. AmmStands /\ RfqStands
  BY <1>1, <1>4, RfqKept DEF AmmStands, SameTerms
<1>7. SessionsOK'
  <2>1. \A c \in Connections : session[c].op = "execute" => session[c].of \in DOMAIN ammQuotes
    BY DEF ControlInv, SessionsOK, ExecutesOK
  <2>2. /\ \A c \in Connections : session'[c] = session[c] \/ session'[c] = Idle
        /\ \A c \in Connections : session'[c].op = "execute" => ammQuotes'[session'[c].of].state = "quoted"
        /\ \A c \in Connections : session'[c].book # Null => status'[session'[c].book] = "open"
    BY <1>1, <1>4, <2>1, SessionStates
  <2>3. QED  BY <1>6, <2>2, SessionsKept DEF ControlInv
<1>8. QuotesOK'
  BY <1>1, <1>2, <1>4 DEF ControlInv, QuotesOK
<1>9. FillsOK' /\ MarketsOK'
  BY <1>1, <1>6, FillsKept, MarketsKept DEF ControlInv
<1>10. QED  BY <1>5, <1>6, <1>7, <1>8, <1>9 DEF ControlInv

\* A session moves and nothing else does.
LEMMA SessionKeeps ==
  ASSUME ControlInv, UNCHANGED <<now, market, ammVars, rfqVars, resolution>>,
         NEW c \in Connections, NEW s \in SessionRow, session' = [session EXCEPT ![c] = s],
         ExecutesOK(s), ChecksOK(s), AsksOK(s),
         \A d \in Connections : d # c => Apart(s, session[d])
  PROVE  ControlInv' /\ AmmStands /\ RfqStands
<1>1. /\ UNCHANGED <<ammQuotes, requests, rfqQuotes, rfqFills, result, status>>
      /\ UNCHANGED <<pool, references, liquidity, now>>
  BY DEF ammVars, rfqVars, resolution, market
<1>2. session' \in [Connections -> SessionRow] /\ SessionsOK'
  BY <1>1, SessionMoved DEF ControlInv
<1>3. RowsOK'
  BY <1>1, <1>2 DEF ControlInv, RowsOK
<1>4. AmmStands /\ RfqStands
  BY <1>1, AmmKept, RfqKept
<1>5. QuotesOK' /\ FillsOK' /\ MarketsOK'
  BY <1>1, <1>4, QuotesKept, FillsKept, MarketsKept DEF ControlInv
<1>6. QED  BY <1>2, <1>3, <1>4, <1>5 DEF ControlInv

\* An execution begins for a quote no other session executes.
LEMMA StartKeeps ==
  ASSUME ControlInv, NEW c \in Connections, NEW q \in DOMAIN ammQuotes, StartExecution(c, q),
         UNCHANGED <<rfqVars, resolution>>
  PROVE  ControlInv' /\ AmmStands /\ RfqStands
<1>1. /\ QuoteFree(q) /\ ammQuotes[q].state = "quoted" /\ now < ammQuotes[q].expires
      /\ BeginCommand(c, "execute", q, ammQuotes[q].pool.market)
      /\ UNCHANGED <<now, market, ammVars>> /\ now < Cutoff
  BY DEF StartExecution, BeginCommand
<1> DEFINE s == [op |-> "execute", of |-> q, asOf |-> now, book |-> Null, owner |-> Null]
<1>2. session' = [session EXCEPT ![c] = s]
  BY <1>1, BegunRow
<1>3. q \in Nat /\ now \in Nat
  BY MarketsAssumption DEF ControlInv, RowsOK
<1>4. s \in SessionRow /\ s.op = "execute" /\ s.of = q /\ s.asOf = now /\ s.book = Null
  BY <1>3 DEF SessionRow
<1> HIDE DEF s
<1>5. ExecutesOK(s) /\ ChecksOK(s) /\ AsksOK(s)
  BY <1>1, <1>4 DEF ExecutesOK, ChecksOK, AsksOK
<1>6. \A d \in Connections : d # c => Apart(s, session[d])
  BY <1>1, <1>4 DEF Apart, QuoteFree, Executing
<1>7. QED  BY <1>1, <1>2, <1>4, <1>5, <1>6, SessionKeeps

\* A dealer's quote or an acceptance begins with an open request.
LEMMA AskKeeps ==
  ASSUME ControlInv, NEW c \in Connections, NEW i \in DOMAIN requests, NEW op \in {"quote", "accept"},
         BeginCommand(c, op, i, requests[i].market), UNCHANGED <<now, market, ammVars, rfqVars, resolution>>
  PROVE  ControlInv' /\ AmmStands /\ RfqStands
<1> DEFINE s == [op |-> op, of |-> i, asOf |-> now, book |-> Null, owner |-> Null]
<1>2. session' = [session EXCEPT ![c] = s]
  BY BegunRow
<1>3. i \in Nat /\ now \in Nat
  BY MarketsAssumption DEF ControlInv, RowsOK
<1>4. s \in SessionRow /\ s.op = op /\ s.of = i /\ s.book = Null
  BY <1>3 DEF SessionRow
<1> HIDE DEF s
<1>5. ExecutesOK(s) /\ ChecksOK(s) /\ AsksOK(s)
  BY <1>4 DEF ExecutesOK, ChecksOK, AsksOK
<1>6. \A d \in Connections : d # c => Apart(s, session[d])
  BY <1>4 DEF Apart
<1>7. QED  BY <1>2, <1>4, <1>5, <1>6, SessionKeeps

\* An execution that is checked takes a book and an owner nobody else holds.
LEMMA CheckKeeps ==
  ASSUME ControlInv, NEW c \in Connections, CheckExecution(c), UNCHANGED <<rfqVars, resolution>>
  PROVE  ControlInv' /\ AmmStands /\ RfqStands
<1> DEFINE r == session[c]
           quote == ammQuotes[r.of]
           s == [r EXCEPT !.book = quote.pool.market]
           t == [s EXCEPT !.owner = quote.owner]
<1>1. /\ r.op = "execute" /\ BookFree(quote.pool.market) /\ status[quote.pool.market] = "open"
      /\ OwnerFree(quote.owner) /\ UNCHANGED <<now, market, ammVars>>
      /\ session' = [session EXCEPT ![c].book = quote.pool.market, ![c].owner = quote.owner]
  BY DEF CheckExecution
<1>2. session' = [session EXCEPT ![c] = t]
  BY <1>1 DEF ControlInv, RowsOK
<1>3. r \in SessionRow /\ ExecutesOK(r) /\ AsksOK(r) /\ \A d \in Connections : d # c => Apart(r, session[d])
  BY DEF ControlInv, RowsOK, SessionsOK
<1>4. quote.pool.market \in Markets /\ quote.owner \in Users
  <2>1. quote \in AmmQuote
    BY <1>1, <1>3 DEF ExecutesOK, ControlInv, RowsOK
  <2>2. QED  BY <2>1, PoolsAssumption DEF AmmQuote
<1>5. \A d \in Connections : session[d].book # quote.pool.market /\ session[d].owner # quote.owner
  BY <1>1 DEF BookFree, OwnerFree
<1>6. PICK m, u : m = quote.pool.market /\ u = quote.owner
  OBVIOUS
<1>7. /\ s \in SessionRow /\ s.op = r.op /\ s.of = r.of /\ s.asOf = r.asOf /\ s.book = m
  BY <1>3, <1>4, <1>6 DEF SessionRow
<1> HIDE DEF s
<1>8. t \in SessionRow /\ t.op = r.op /\ t.of = r.of /\ t.asOf = r.asOf /\ t.book = m /\ t.owner = u
  BY <1>4, <1>6, <1>7 DEF SessionRow
<1> HIDE DEF t
<1>9. ExecutesOK(t) /\ ChecksOK(t) /\ AsksOK(t)
  BY <1>1, <1>3, <1>6, <1>8 DEF ExecutesOK, ChecksOK, AsksOK
<1>10. \A d \in Connections : d # c => Apart(t, session[d])
  BY <1>3, <1>5, <1>6, <1>8 DEF Apart
<1>11. QED  BY <1>1, <1>2, <1>8, <1>9, <1>10, SessionKeeps

\* The quote an execution commits, and its terms.
LEMMA CommitFacts ==
  ASSUME ControlInv, NEW c \in Connections, CommitExecution(c)
  PROVE  LET q == session[c].of IN
         /\ q \in DOMAIN ammQuotes /\ ammQuotes[q] \in AmmQuote /\ ammQuotes[q].state = "quoted"
         /\ session[c].asOf < ammQuotes[q].expires /\ session[c].asOf < Cutoff
         /\ session[c].op = "execute" /\ session[c].book # Null
         /\ session[c].book = ammQuotes[q].pool.market /\ session[c].owner = ammQuotes[q].owner
         /\ status[ammQuotes[q].pool.market] = "open" /\ ammQuotes[q].pool \in Pools
         /\ ammQuotes[q].pool.market \in Markets
<1>1. session[c].op = "execute" /\ session[c].book # Null
  BY DEF CommitExecution
<1>2. ExecutesOK(session[c]) /\ ChecksOK(session[c])
  BY DEF ControlInv, SessionsOK
<1>3. /\ session[c].of \in DOMAIN ammQuotes
      /\ ammQuotes[session[c].of].state = "quoted"
      /\ session[c].asOf < ammQuotes[session[c].of].expires /\ session[c].asOf < Cutoff
  BY <1>1, <1>2 DEF ExecutesOK
<1>4. /\ session[c].book = ammQuotes[session[c].of].pool.market
      /\ session[c].owner = ammQuotes[session[c].of].owner /\ status[session[c].book] = "open"
  BY <1>1, <1>2 DEF ChecksOK
<1>5. ammQuotes[session[c].of] \in AmmQuote
  BY <1>3 DEF ControlInv, RowsOK
<1>6. ammQuotes[session[c].of].pool \in Pools /\ ammQuotes[session[c].of].pool.market \in Markets
  BY <1>5, PoolsAssumption DEF AmmQuote
<1>7. QED  BY <1>1, <1>3, <1>4, <1>5, <1>6

\* An execution ends with its quote executed.
LEMMA CommitKeeps ==
  ASSUME ControlInv, NEW c \in Connections, CommitExecution(c), UNCHANGED <<rfqVars, resolution>>
  PROVE  ControlInv' /\ AmmStands /\ RfqStands
<1> DEFINE q == session[c].of
           quote == ammQuotes[q]
           next == Exposed(quote.pool, quote.quantity, quote.ammCollateral)
<1>1. /\ UNCHANGED <<requests, rfqQuotes, rfqFills, result, status>>
      /\ UNCHANGED <<references, liquidity, now>> /\ EndCommand(c)
      /\ pool' = [pool EXCEPT ![quote.pool] = next]
      /\ ammQuotes' = [ammQuotes EXCEPT ![q].state = "executed"]
  BY DEF CommitExecution, rfqVars, resolution, market
<1>2. q \in DOMAIN ammQuotes /\ quote \in AmmQuote /\ quote.pool \in Pools /\ session[c].op = "execute"
  BY CommitFacts
<1>3. next \in PoolRow
  <2>1. quote.pool \in Pools /\ quote.quantity \in Nat /\ quote.ammCollateral \in Nat
    BY <1>2 DEF AmmQuote
  <2> HIDE DEF quote
  <2>2. QED  BY <2>1, ExposedFields DEF ControlInv
<1>4. /\ ammQuotes' \in Seq(AmmQuote) /\ DOMAIN ammQuotes' = DOMAIN ammQuotes /\ AmmStands
      /\ \A d \in DOMAIN ammQuotes : d # q => ammQuotes'[d] = ammQuotes[d]
  <2> HIDE DEF q
  <2>1. QED  BY <1>1, <1>2, ExecutedRow DEF ControlInv
<1>5. /\ session' \in [Connections -> SessionRow]
      /\ session'[c] = Idle /\ \A d \in Connections : d # c => session'[d] = session[d]
  BY <1>1, EndedRow DEF ControlInv
<1>6. RowsOK'
  <2>1. pool' \in [Pools -> PoolRow]
    BY <1>1, <1>3 DEF ControlInv, RowsOK
  <2>2. QED  BY <1>1, <1>4, <1>5, <2>1 DEF ControlInv, RowsOK
<1>7. RfqStands
  BY <1>1, RfqKept
<1>8. SessionsOK'
  <2>1. \A d \in Connections : d # c /\ session[d].op = "execute" =>
          session[d].of # q /\ session[d].of \in DOMAIN ammQuotes
    BY <1>2 DEF ControlInv, SessionsOK, Apart, ExecutesOK
  <2>2. /\ \A d \in Connections : session'[d] = session[d] \/ session'[d] = Idle
        /\ \A d \in Connections : session'[d].op = "execute" => ammQuotes'[session'[d].of].state = "quoted"
        /\ \A d \in Connections : session'[d].book # Null => status'[session'[d].book] = "open"
    BY <1>1, <1>4, <1>5, <2>1, SessionStates
  <2>3. QED  BY <1>4, <1>7, <2>2, SessionsKept DEF ControlInv
<1>9. QuotesOK' /\ FillsOK' /\ MarketsOK'
  BY <1>1, <1>4, <1>7, QuotesKept, FillsKept, MarketsKept DEF ControlInv
<1>10. QED  BY <1>4, <1>6, <1>7, <1>8, <1>9 DEF ControlInv

\* Requests and the quotes of dealers, while fills and sessions follow.
LEMMA RfqMoves ==
  ASSUME ControlInv, UNCHANGED <<now, liquidity, ammVars, result>>,
         requests' \in Seq(RequestRow), rfqQuotes' \in Seq(RfqQuote), RfqStands, QuotesOK', FillsOK',
         session' \in [Connections -> SessionRow],
         \A d \in Connections : session'[d] = session[d] \/ session'[d] = Idle,
         UNCHANGED status
  PROVE  ControlInv' /\ AmmStands
<1>1. UNCHANGED <<ammQuotes, pool, references>> /\ AmmStands
  BY AmmKept DEF ammVars
<1>2. RowsOK'
  BY <1>1 DEF ControlInv, RowsOK
<1>3. SessionsOK'
  <2>1. /\ \A d \in Connections : session'[d].op = "execute" => ammQuotes'[session'[d].of].state = "quoted"
        /\ \A d \in Connections : session'[d].book # Null => status'[session'[d].book] = "open"
    BY <1>1, SessionStates
  <2>2. QED  BY <1>1, <2>1, SessionsKept DEF ControlInv
<1>4. MarketsOK'
  BY MarketsKept DEF ControlInv
<1>5. QED  BY <1>1, <1>2, <1>3, <1>4 DEF ControlInv

\* A new request is open, and expires by the cutoff.
LEMMA RequestKeeps ==
  ASSUME ControlInv, NEW u \in Users, NEW e \in Entities, NEW m \in Markets, NEW o \in Outcomes,
         NEW dir \in RequestSides, NEW contracts \in Sizes, NEW expires \in Expiries,
         CreateRfqRequest(u, e, m, o, dir, contracts, expires), UNCHANGED <<ammVars, resolution>>
  PROVE  ControlInv' /\ AmmStands /\ RfqStands
<1> DEFINE row == [state |-> "open", owner |-> u, entity |-> e, market |-> m, outcome |-> o,
                   side |-> dir, quantity |-> contracts, expires |-> expires, accepted |-> 0]
<1>1. /\ UNCHANGED <<now, liquidity, ammVars, result, status, session, rfqQuotes, rfqFills>>
      /\ requests' = Append(requests, row) /\ expires <= Cutoff
  BY DEF CreateRfqRequest, resolution, market
<1>2. row \in RequestRow
  BY SizesAssumption, RfqPricesAssumption DEF RequestRow
<1>3. row.expires = expires
  OBVIOUS
<1> HIDE DEF row
<1>4. PICK n : n = Len(requests) + 1
  OBVIOUS
<1>5. /\ requests' \in Seq(RequestRow) /\ DOMAIN requests' = DOMAIN requests \cup {n}
      /\ n \notin DOMAIN requests /\ requests'[n] = row
      /\ \A i \in DOMAIN requests : i \in DOMAIN requests' /\ requests'[i] = requests[i]
  BY <1>1, <1>2, <1>4, RowAppended DEF ControlInv, RowsOK
<1>6. RfqStands
  BY <1>1, <1>5 DEF RfqStands, SameRequest, SameQuote
<1>7. QuotesOK'
  <2>1. UNCHANGED ammQuotes
    BY <1>1 DEF ammVars
  <2>2. \A i \in DOMAIN requests' : requests'[i].expires <= Cutoff
    BY <1>1, <1>3, <1>5 DEF ControlInv, QuotesOK
  <2>3. QED  BY <1>1, <1>5, <2>1, <2>2 DEF ControlInv, QuotesOK
<1>8. FillsOK'
  BY <1>1, <1>6, FillsKept DEF ControlInv
<1>9. session' \in [Connections -> SessionRow] /\ rfqQuotes' \in Seq(RfqQuote)
  BY <1>1 DEF ControlInv, RowsOK
<1>10. QED  BY <1>1, <1>5, <1>6, <1>7, <1>8, <1>9, RfqMoves

\* A new dealer's quote expires by its request, and is not the requester's.
LEMMA DealerKeeps ==
  ASSUME ControlInv, NEW c \in Connections, NEW u \in Users, NEW e \in Entities,
         NEW price \in RfqPrices, NEW expires \in Expiries,
         CreateRfqQuote(c, u, e, price, expires), UNCHANGED <<ammVars, resolution>>
  PROVE  ControlInv' /\ AmmStands /\ RfqStands
<1>1. PICK i : i = session[c].of
  OBVIOUS
<1> DEFINE row == [state |-> "open", request |-> i, entity |-> e, owner |-> u, price |-> price,
                   expires |-> expires]
<1>2. /\ UNCHANGED <<now, liquidity, ammVars, result, status, requests, rfqFills>>
      /\ rfqQuotes' = Append(rfqQuotes, row) /\ expires <= requests[i].expires /\ u # requests[i].owner
      /\ session[c].op = "quote" /\ EndCommand(c)
  BY <1>1 DEF CreateRfqQuote, resolution, market
<1>3. i \in DOMAIN requests /\ i \in Nat
  BY <1>1, <1>2 DEF ControlInv, RowsOK, SessionsOK, AsksOK
<1>4. row \in RfqQuote
  BY <1>3, RfqPricesAssumption DEF RfqQuote
<1>5. row.expires = expires /\ row.request = i /\ row.owner = u
  OBVIOUS
<1> HIDE DEF row
<1>6. PICK n : n = Len(rfqQuotes) + 1
  OBVIOUS
<1>7. /\ rfqQuotes' \in Seq(RfqQuote) /\ DOMAIN rfqQuotes' = DOMAIN rfqQuotes \cup {n}
      /\ n \notin DOMAIN rfqQuotes /\ rfqQuotes'[n] = row
      /\ \A k \in DOMAIN rfqQuotes : k \in DOMAIN rfqQuotes' /\ rfqQuotes'[k] = rfqQuotes[k]
  BY <1>2, <1>4, <1>6, RowAppended DEF ControlInv, RowsOK
<1>8. RfqStands
  BY <1>2, <1>7 DEF RfqStands, SameRequest, SameQuote
<1>9. QuotesOK'
  <2>1. UNCHANGED ammQuotes
    BY <1>2 DEF ammVars
  <2>2. \A q \in DOMAIN rfqQuotes' :
          /\ rfqQuotes'[q].request \in DOMAIN requests
          /\ rfqQuotes'[q].expires <= requests[rfqQuotes'[q].request].expires
          /\ rfqQuotes'[q].owner # requests[rfqQuotes'[q].request].owner
    BY <1>2, <1>3, <1>5, <1>7 DEF ControlInv, QuotesOK
  <2>3. QED  BY <1>2, <2>1, <2>2 DEF ControlInv, QuotesOK
<1>10. FillsOK'
  BY <1>2, <1>8, FillsKept DEF ControlInv
<1>11. /\ session' \in [Connections -> SessionRow]
       /\ \A d \in Connections : session'[d] = session[d] \/ session'[d] = Idle
  BY <1>2, EndedRow DEF ControlInv
<1>12. requests' \in Seq(RequestRow)
  BY <1>2 DEF ControlInv, RowsOK
<1>13. QED  BY <1>2, <1>7, <1>8, <1>9, <1>10, <1>11, <1>12, RfqMoves

\* Quotes that end keep their terms.
LEMMA EndedQuotes ==
  ASSUME NEW s \in Seq(RfqQuote), NEW i, NEW state \in {"rejected", "expired"}
  PROVE  /\ QuotesEnd(s, i, state) \in Seq(RfqQuote) /\ DOMAIN QuotesEnd(s, i, state) = DOMAIN s
         /\ \A q \in DOMAIN s : SameQuote(s[q], QuotesEnd(s, i, state)[q])
<1>1. PICK t : t = QuotesEnd(s, i, state)
  OBVIOUS
<1>2. t = [q \in DOMAIN s |-> IF s[q].request = i /\ s[q].state = "open"
             THEN [s[q] EXCEPT !.state = state] ELSE s[q]]
  BY <1>1 DEF QuotesEnd
<1>3. ASSUME NEW q \in DOMAIN s PROVE t[q] \in RfqQuote /\ SameQuote(s[q], t[q])
  <2>1. PICK row : row = [s[q] EXCEPT !.state = state]
    OBVIOUS
  <2>2. s[q] \in RfqQuote
    OBVIOUS
  <2>3. row \in RfqQuote /\ SameQuote(s[q], row)
    BY <2>1, <2>2 DEF RfqQuote, SameQuote
  <2>4. t[q] = row \/ t[q] = s[q]
    BY <1>2, <2>1
  <2>5. QED  BY <2>2, <2>3, <2>4 DEF SameQuote
<1>4. t = [q \in DOMAIN s |-> t[q]]
  BY <1>2
<1>5. t \in Seq(RfqQuote) /\ DOMAIN t = DOMAIN s
  BY <1>3, <1>4, RowsReplaced
<1>6. QED  BY <1>1, <1>3, <1>5

\* A request that ends keeps its terms.
LEMMA EndedRequest ==
  ASSUME RowsOK, NEW i \in DOMAIN requests, requests[i].state = "open",
         NEW row, row \in RequestRow, requests' = [requests EXCEPT ![i] = row],
         row.owner = requests[i].owner, row.entity = requests[i].entity, row.market = requests[i].market,
         row.outcome = requests[i].outcome, row.side = requests[i].side,
         row.quantity = requests[i].quantity, row.expires = requests[i].expires
  PROVE  /\ requests' \in Seq(RequestRow) /\ DOMAIN requests' = DOMAIN requests /\ requests'[i] = row
         /\ \A k \in DOMAIN requests : SameRequest(requests[k], requests'[k])
<1>1. requests \in Seq(RequestRow)
  BY DEF RowsOK
<1>2. PICK t : t = requests'
  OBVIOUS
<1>3. /\ DOMAIN t = DOMAIN requests /\ t = [k \in DOMAIN requests |-> t[k]]
      /\ t[i] = row /\ \A k \in DOMAIN requests : k # i => t[k] = requests[k]
  BY <1>1, <1>2
<1>4. \A k \in DOMAIN requests : t[k] \in RequestRow
  BY <1>1, <1>3
<1>5. t \in Seq(RequestRow)
  BY <1>1, <1>3, <1>4, RowsReplaced
<1>6. \A k \in DOMAIN requests : SameRequest(requests[k], t[k])
  BY <1>3 DEF SameRequest
<1>7. QED  BY <1>2, <1>3, <1>5, <1>6

\* The request, the quote and the fill of an acceptance.
LEMMA AcceptFacts ==
  ASSUME ControlInv, NEW c \in Connections, NEW q \in DOMAIN rfqQuotes, AcceptRfqQuote(c, q)
  PROVE  LET i == session[c].of IN
         /\ session[c].op = "accept"
         /\ i \in DOMAIN requests /\ requests[i] \in RequestRow /\ rfqQuotes[q] \in RfqQuote
         /\ requests[i].state = "open" /\ rfqQuotes[q].state = "open" /\ rfqQuotes[q].request = i
         /\ session[c].asOf < rfqQuotes[q].expires
         /\ status[requests[i].market] = "open" /\ BothWithinLimit(i, q)
         /\ WithinPrecision(rfqQuotes[q].price) /\ rfqQuotes[q].owner # requests[i].owner
         /\ rfqFills' = rfqFills \cup {[request |-> i, quote |-> q]}
         /\ \A f \in rfqFills : f.request # i
         /\ i \in Nat /\ q \in Nat
<1>1. PICK i : i = session[c].of
  OBVIOUS
<1>2. /\ session[c].op = "accept" /\ MarketReady(requests[i].market, session[c].asOf)
      /\ IsOpenAt(requests[i], session[c].asOf) /\ rfqQuotes[q].request = i
      /\ IsOpenAt(rfqQuotes[q], session[c].asOf)
      /\ BothWithinLimit(i, q) /\ WithinPrecision(rfqQuotes[q].price)
      /\ rfqFills' = rfqFills \cup {[request |-> i, quote |-> q]}
  BY <1>1 DEF AcceptRfqQuote
<1>3. i \in DOMAIN requests
  BY <1>1, <1>2 DEF ControlInv, SessionsOK, AsksOK
<1>4. requests[i] \in RequestRow /\ rfqQuotes[q] \in RfqQuote /\ i \in Nat /\ q \in Nat
  BY <1>3 DEF ControlInv, RowsOK
<1>5. /\ requests[i].state = "open" /\ rfqQuotes[q].state = "open"
      /\ session[c].asOf < rfqQuotes[q].expires
  BY <1>2 DEF IsOpenAt
<1>6. status[requests[i].market] = "open"
  BY <1>2 DEF MarketReady
<1>7. rfqQuotes[q].owner # requests[i].owner
  BY <1>2 DEF ControlInv, QuotesOK
<1>8. \A f \in rfqFills : f.request # i
  BY <1>5 DEF ControlInv, FillsOK, FillOK
<1>9. QED  BY <1>1, <1>2, <1>3, <1>4, <1>5, <1>6, <1>7, <1>8

\* An acceptance fills an open request, so no request is filled twice.
LEMMA AcceptKeeps ==
  ASSUME ControlInv, NEW c \in Connections, NEW q \in DOMAIN rfqQuotes, AcceptRfqQuote(c, q),
         UNCHANGED <<ammVars, resolution>>
  PROVE  ControlInv' /\ AmmStands /\ RfqStands
<1>1. PICK i : i = session[c].of
  OBVIOUS
<1>2. /\ i \in DOMAIN requests /\ requests[i] \in RequestRow /\ rfqQuotes[q] \in RfqQuote
      /\ requests[i].state = "open" /\ rfqQuotes[q].request = i
      /\ WithinPrecision(rfqQuotes[q].price)
      /\ rfqFills' = rfqFills \cup {[request |-> i, quote |-> q]}
      /\ (\A f \in rfqFills : f.request # i) /\ i \in Nat /\ q \in Nat
  BY <1>1, AcceptFacts
<1>3. /\ UNCHANGED <<now, liquidity, ammVars, result, status>> /\ EndCommand(c)
      /\ rfqQuotes' = QuotesEnd([rfqQuotes EXCEPT ![q].state = "accepted"], i, "rejected")
      /\ requests' = [requests EXCEPT ![i].state = "accepted", ![i].accepted = q]
  BY <1>1 DEF AcceptRfqQuote, resolution, market
<1>4. /\ requests' \in Seq(RequestRow) /\ DOMAIN requests' = DOMAIN requests
      /\ requests'[i].state = "accepted"
      /\ \A k \in DOMAIN requests : SameRequest(requests[k], requests'[k])
  <2>1. PICK a : a = [requests[i] EXCEPT !.state = "accepted"]
    OBVIOUS
  <2>2. PICK b : b = [a EXCEPT !.accepted = q]
    OBVIOUS
  <2>3. /\ a \in RequestRow /\ a.state = "accepted"
        /\ a.owner = requests[i].owner /\ a.entity = requests[i].entity /\ a.market = requests[i].market
        /\ a.outcome = requests[i].outcome /\ a.side = requests[i].side
        /\ a.quantity = requests[i].quantity /\ a.expires = requests[i].expires
    BY <1>2, <2>1 DEF RequestRow
  <2>4. /\ b \in RequestRow /\ b.state = "accepted"
        /\ b.owner = a.owner /\ b.entity = a.entity /\ b.market = a.market
        /\ b.outcome = a.outcome /\ b.side = a.side
        /\ b.quantity = a.quantity /\ b.expires = a.expires
    BY <1>2, <2>2, <2>3 DEF RequestRow
  <2>5. requests' = [requests EXCEPT ![i] = b]
    <3>1. requests \in Seq(RequestRow)
      BY DEF ControlInv, RowsOK
    <3>2. QED  BY <1>2, <1>3, <2>1, <2>2, <3>1
  <2>6. QED  BY <1>2, <2>3, <2>4, <2>5, EndedRequest DEF ControlInv
<1>5. /\ rfqQuotes' \in Seq(RfqQuote) /\ DOMAIN rfqQuotes' = DOMAIN rfqQuotes
      /\ \A k \in DOMAIN rfqQuotes : SameQuote(rfqQuotes[k], rfqQuotes'[k])
  <2>1. rfqQuotes \in Seq(RfqQuote)
    BY DEF ControlInv, RowsOK
  <2>2. PICK row : row = [rfqQuotes[q] EXCEPT !.state = "accepted"]
    OBVIOUS
  <2>3. row \in RfqQuote /\ SameQuote(rfqQuotes[q], row)
    BY <1>2, <2>2 DEF RfqQuote, SameQuote
  <2>4. PICK t : t = [rfqQuotes EXCEPT ![q].state = "accepted"]
    OBVIOUS
  <2>5. /\ DOMAIN t = DOMAIN rfqQuotes /\ t = [k \in DOMAIN rfqQuotes |-> t[k]]
        /\ t[q] = row /\ \A k \in DOMAIN rfqQuotes : k # q => t[k] = rfqQuotes[k]
    BY <2>1, <2>2, <2>4
  <2>6. \A k \in DOMAIN rfqQuotes : t[k] \in RfqQuote /\ SameQuote(rfqQuotes[k], t[k])
    BY <2>1, <2>3, <2>5 DEF SameQuote
  <2>7. t \in Seq(RfqQuote)
    BY <2>1, <2>5, <2>6, RowsReplaced
  <2>8. /\ rfqQuotes' \in Seq(RfqQuote) /\ DOMAIN rfqQuotes' = DOMAIN t
        /\ \A k \in DOMAIN t : SameQuote(t[k], rfqQuotes'[k])
    BY <1>3, <2>4, <2>7, EndedQuotes
  <2>9. \A k \in DOMAIN rfqQuotes : SameQuote(rfqQuotes[k], rfqQuotes'[k])
    BY <2>5, <2>6, <2>8 DEF SameQuote
  <2>10. QED  BY <2>5, <2>8, <2>9
<1>6. RfqStands
  BY <1>4, <1>5 DEF RfqStands
<1>7. QuotesOK'
  <2>1. UNCHANGED ammQuotes /\ AmmStands
    BY <1>3, AmmKept DEF ammVars
  <2>2. QED  BY <1>4, <1>5, <1>6, <2>1, QuotesKept DEF ControlInv
<1>8. FillsOK'
  <2> DEFINE new == [request |-> i, quote |-> q]
  <2>1. new \in [request : Nat, quote : Nat] /\ new.request = i /\ new.quote = q
    BY <1>2
  <2> HIDE DEF new
  <2>2. rfqFills' = rfqFills \cup {new}
    BY <1>2 DEF new
  <2>3. \A f \in rfqFills : FillOK(f)'
    BY <1>6, FillStands DEF ControlInv, FillsOK
  <2>4. FillOK(new)'
    <3>1. rfqQuotes'[q].request = i /\ rfqQuotes'[q].price = rfqQuotes[q].price
      BY <1>2, <1>5 DEF SameQuote
    <3>2. QED  BY <1>2, <1>4, <1>5, <2>1, <3>1 DEF FillOK
  <2>5. /\ IsFiniteSet(rfqFills \cup {new}) /\ rfqFills \cup {new} \subseteq [request : Nat, quote : Nat]
    BY <2>1, FS_AddElement DEF ControlInv, FillsOK
  <2>6. \A f, g \in rfqFills \cup {new} : f.request = g.request => f = g
    BY <1>2, <2>1 DEF ControlInv, FillsOK
  <2>7. QED  BY <2>2, <2>3, <2>4, <2>5, <2>6 DEF FillsOK
<1>9. /\ session' \in [Connections -> SessionRow]
      /\ \A d \in Connections : session'[d] = session[d] \/ session'[d] = Idle
  BY <1>3, EndedRow DEF ControlInv
<1>10. QED  BY <1>3, <1>4, <1>5, <1>6, <1>7, <1>8, <1>9, RfqMoves

\* A cancelled request has no fill.
LEMMA CancelKeeps ==
  ASSUME ControlInv, NEW i \in DOMAIN requests, CancelRfqRequest(i), UNCHANGED <<ammVars, resolution>>
  PROVE  ControlInv' /\ AmmStands /\ RfqStands
<1>1. /\ UNCHANGED <<now, liquidity, ammVars, result, status, session, rfqFills>>
      /\ requests[i].state = "open"
      /\ rfqQuotes' = QuotesEnd(rfqQuotes, i, "rejected")
      /\ requests' = [requests EXCEPT ![i].state = "cancelled"]
  BY DEF CancelRfqRequest, IsOpenAt, resolution, market
<1>2. requests \in Seq(RequestRow) /\ rfqQuotes \in Seq(RfqQuote) /\ requests[i] \in RequestRow
  BY DEF ControlInv, RowsOK
<1>3. /\ requests' \in Seq(RequestRow) /\ DOMAIN requests' = DOMAIN requests
      /\ \A k \in DOMAIN requests : SameRequest(requests[k], requests'[k])
  <2>1. PICK a : a = [requests[i] EXCEPT !.state = "cancelled"]
    OBVIOUS
  <2>2. /\ a \in RequestRow
        /\ a.owner = requests[i].owner /\ a.entity = requests[i].entity /\ a.market = requests[i].market
        /\ a.outcome = requests[i].outcome /\ a.side = requests[i].side
        /\ a.quantity = requests[i].quantity /\ a.expires = requests[i].expires
    BY <1>2, <2>1 DEF RequestRow
  <2>3. requests' = [requests EXCEPT ![i] = a]
    BY <1>1, <1>2, <2>1
  <2>4. QED  BY <1>1, <2>2, <2>3, EndedRequest DEF ControlInv
<1>4. /\ rfqQuotes' \in Seq(RfqQuote) /\ DOMAIN rfqQuotes' = DOMAIN rfqQuotes
      /\ \A k \in DOMAIN rfqQuotes : SameQuote(rfqQuotes[k], rfqQuotes'[k])
  BY <1>1, <1>2, EndedQuotes
<1>5. RfqStands
  BY <1>3, <1>4 DEF RfqStands
<1>6. QuotesOK'
  <2>1. UNCHANGED ammQuotes /\ AmmStands
    BY <1>1, AmmKept DEF ammVars
  <2>2. QED  BY <1>3, <1>4, <1>5, <2>1, QuotesKept DEF ControlInv
<1>7. FillsOK'
  BY <1>1, <1>5, FillsKept DEF ControlInv
<1>8. session' \in [Connections -> SessionRow]
  BY <1>1 DEF ControlInv, RowsOK
<1>9. QED  BY <1>1, <1>3, <1>4, <1>5, <1>6, <1>7, <1>8, RfqMoves

\* The close of a book, for each table it changes.
LEMMA ClosedPools ==
  ASSUME RowsOK, NEW m, CloseBook(m)
  PROVE  /\ pool' \in [Pools -> PoolRow]
         /\ \A p \in Pools : /\ pool'[p].funded = pool[p].funded /\ pool'[p].shares = pool[p].shares
                             /\ pool'[p].subsidy = pool[p].subsidy /\ pool'[p].loss = pool[p].loss
<1>1. PICK t : t = pool'
  OBVIOUS
<1>2. t = [p \in Pools |-> IF p.market = m /\ pool[p].status = "open"
             THEN [pool[p] EXCEPT !.status = "halted"] ELSE pool[p]]
  BY <1>1 DEF CloseBook
<1>3. ASSUME NEW p \in Pools
      PROVE  /\ t[p] \in PoolRow /\ t[p].funded = pool[p].funded /\ t[p].shares = pool[p].shares
             /\ t[p].subsidy = pool[p].subsidy /\ t[p].loss = pool[p].loss
  <2>1. PICK row : row = [pool[p] EXCEPT !.status = "halted"]
    OBVIOUS
  <2>2. pool[p] \in PoolRow
    BY DEF RowsOK
  <2>3. /\ row \in PoolRow /\ row.funded = pool[p].funded /\ row.shares = pool[p].shares
        /\ row.subsidy = pool[p].subsidy /\ row.loss = pool[p].loss
    BY <2>1, <2>2 DEF PoolRow
  <2>4. t[p] = row \/ t[p] = pool[p]
    BY <1>2, <2>1
  <2>5. QED  BY <2>2, <2>3, <2>4
<1>4. t \in [Pools -> PoolRow]
  BY <1>2, <1>3
<1>5. QED  BY <1>1, <1>3, <1>4

\* A close of a book expires open requests,
LEMMA ClosedRequests ==
  ASSUME RowsOK, NEW m, CloseBook(m)
  PROVE  /\ requests' \in Seq(RequestRow) /\ DOMAIN requests' = DOMAIN requests
         /\ \A i \in DOMAIN requests : SameRequest(requests[i], requests'[i])
<1>1. PICK t : t = requests'
  OBVIOUS
<1>2. t = [i \in DOMAIN requests |-> IF requests[i].market = m /\ requests[i].state = "open"
             THEN [requests[i] EXCEPT !.state = "expired"] ELSE requests[i]]
  BY <1>1 DEF CloseBook
<1>3. requests \in Seq(RequestRow)
  BY DEF RowsOK
<1>4. ASSUME NEW i \in DOMAIN requests PROVE t[i] \in RequestRow /\ SameRequest(requests[i], t[i])
  <2>1. PICK row : row = [requests[i] EXCEPT !.state = "expired"]
    OBVIOUS
  <2>2. requests[i] \in RequestRow
    BY <1>3
  <2>3. row \in RequestRow /\ (requests[i].state = "open" => SameRequest(requests[i], row))
    BY <2>1, <2>2 DEF RequestRow, SameRequest
  <2>4. t[i] = requests[i] \/ (t[i] = row /\ requests[i].state = "open")
    BY <1>2, <2>1
  <2>5. QED  BY <2>2, <2>3, <2>4 DEF SameRequest
<1>5. t = [i \in DOMAIN requests |-> t[i]]
  BY <1>2
<1>6. t \in Seq(RequestRow) /\ DOMAIN t = DOMAIN requests
  BY <1>3, <1>4, <1>5, RowsReplaced
<1>7. QED  BY <1>1, <1>4, <1>6

\* and their open quotes; it changes nothing else of them.
LEMMA ClosedQuotes ==
  ASSUME RowsOK, NEW m, CloseBook(m)
  PROVE  /\ rfqQuotes' \in Seq(RfqQuote) /\ DOMAIN rfqQuotes' = DOMAIN rfqQuotes
         /\ \A q \in DOMAIN rfqQuotes : SameQuote(rfqQuotes[q], rfqQuotes'[q])
<1>1. PICK t : t = rfqQuotes'
  OBVIOUS
<1>2. t = [q \in DOMAIN rfqQuotes |->
             IF /\ rfqQuotes[q].state = "open"
                /\ requests[rfqQuotes[q].request].market = m /\ requests[rfqQuotes[q].request].state = "open"
             THEN [rfqQuotes[q] EXCEPT !.state = "expired"] ELSE rfqQuotes[q]]
  BY <1>1 DEF CloseBook
<1>3. rfqQuotes \in Seq(RfqQuote)
  BY DEF RowsOK
<1>4. ASSUME NEW q \in DOMAIN rfqQuotes PROVE t[q] \in RfqQuote /\ SameQuote(rfqQuotes[q], t[q])
  <2>1. PICK row : row = [rfqQuotes[q] EXCEPT !.state = "expired"]
    OBVIOUS
  <2>2. rfqQuotes[q] \in RfqQuote
    BY <1>3
  <2>3. row \in RfqQuote /\ SameQuote(rfqQuotes[q], row)
    BY <2>1, <2>2 DEF RfqQuote, SameQuote
  <2>4. t[q] = rfqQuotes[q] \/ t[q] = row
    BY <1>2, <2>1
  <2>5. QED  BY <2>2, <2>3, <2>4 DEF SameQuote
<1>5. t = [q \in DOMAIN rfqQuotes |-> t[q]]
  BY <1>2
<1>6. t \in Seq(RfqQuote) /\ DOMAIN t = DOMAIN rfqQuotes
  BY <1>3, <1>4, <1>5, RowsReplaced
<1>7. QED  BY <1>1, <1>4, <1>6

\* A book is closed only while no session holds it.
LEMMA CloseKeeps ==
  ASSUME ControlInv, NEW m \in Markets, CloseBook(m)
  PROVE  ControlInv' /\ AmmStands /\ RfqStands
<1>1. /\ UNCHANGED <<now, liquidity, session, references, ammQuotes, rfqFills, result>> /\ BookFree(m)
      /\ status' = [status EXCEPT ![m] = "halted"]
  BY DEF CloseBook, resolution
<1>2. /\ requests' \in Seq(RequestRow) /\ DOMAIN requests' = DOMAIN requests
      /\ \A i \in DOMAIN requests : SameRequest(requests[i], requests'[i])
  BY ClosedRequests DEF ControlInv
<1>3. /\ rfqQuotes' \in Seq(RfqQuote) /\ DOMAIN rfqQuotes' = DOMAIN rfqQuotes
      /\ \A q \in DOMAIN rfqQuotes : SameQuote(rfqQuotes[q], rfqQuotes'[q])
  BY ClosedQuotes DEF ControlInv
<1>4. pool' \in [Pools -> PoolRow]
  BY ClosedPools DEF ControlInv
<1>5. RowsOK'
  BY <1>1, <1>2, <1>3, <1>4 DEF ControlInv, RowsOK
<1>6. AmmStands /\ RfqStands
  BY <1>1, <1>2, <1>3, AmmKept DEF RfqStands
<1>7. \A n : n # m => status'[n] = status[n]
  BY <1>1 DEF ControlInv, RowsOK
<1>8. SessionsOK'
  <2>1. /\ \A c \in Connections : session'[c] = session[c] \/ session'[c] = Idle
        /\ \A c \in Connections : session'[c].op = "execute" => ammQuotes'[session'[c].of].state = "quoted"
        /\ \A c \in Connections : session'[c].book # Null => status'[session'[c].book] = "open"
    BY <1>1, <1>7, SessionStates DEF BookFree
  <2>2. QED  BY <1>6, <2>1, SessionsKept DEF ControlInv
<1>9. QuotesOK' /\ FillsOK'
  BY <1>1, <1>2, <1>3, <1>6, QuotesKept, FillsKept DEF ControlInv
<1>10. MarketsOK'
  BY <1>1, <1>7, MarketsKept DEF ControlInv, RowsOK
<1>11. QED  BY <1>5, <1>6, <1>8, <1>9, <1>10 DEF ControlInv

\* A result, and its redemptions.
LEMMA FinalizeKeeps ==
  ASSUME ControlInv, NEW m \in Markets, NEW r \in Results, FinalizeResolution(m, r)
  PROVE  ControlInv' /\ AmmStands /\ RfqStands
<1>1. /\ UNCHANGED <<now, liquidity, status, session, pool, references, ammQuotes, requests, rfqQuotes, rfqFills>>
      /\ status[m] = "halted" /\ result' = [result EXCEPT ![m] = r]
  BY DEF FinalizeResolution, market, ammVars, rfqVars
<1>2. RowsOK' /\ SessionsOK' /\ QuotesOK' /\ FillsOK' /\ AmmStands /\ RfqStands
  <2>1. AmmStands /\ RfqStands
    BY <1>1, AmmKept, RfqKept
  <2>2. /\ \A c \in Connections : session'[c] = session[c] \/ session'[c] = Idle
        /\ \A c \in Connections : session'[c].op = "execute" => ammQuotes'[session'[c].of].state = "quoted"
        /\ \A c \in Connections : session'[c].book # Null => status'[session'[c].book] = "open"
    BY <1>1, SessionStates
  <2>3. SessionsOK'
    BY <2>1, <2>2, SessionsKept DEF ControlInv
  <2>4. RowsOK'
    BY <1>1 DEF ControlInv, RowsOK
  <2>5. QED  BY <1>1, <2>1, <2>3, <2>4, QuotesKept, FillsKept DEF ControlInv
<1>3. MarketsOK'
  BY <1>1 DEF ControlInv, MarketsOK
<1>4. QED  BY <1>2, <1>3 DEF ControlInv

\* Redemption leaves rows, sessions and results alone.
LEMMA RedeemKeepsControl ==
  ASSUME ControlInv, NEW m \in Markets, RedeemBatchOf(m)
  PROVE  ControlInv' /\ AmmStands /\ RfqStands
<1>1. /\ UNCHANGED <<now, liquidity, status, session, pool, references, ammQuotes, requests, rfqQuotes>>
      /\ UNCHANGED <<rfqFills, result>>
  BY DEF RedeemBatchOf, market, ammVars, rfqVars
<1>2. RowsOK'
  BY <1>1 DEF ControlInv, RowsOK
<1>3. QED  BY <1>1, <1>2, NothingMoves

\* Every step.
LEMMA AmmKeeps ==
  ASSUME ControlInv, AmmNext, UNCHANGED <<rfqVars, resolution>>
  PROVE  ControlInv' /\ AmmStands /\ RfqStands
BY ActivateKeeps, FundKeeps, ReferenceKeeps, QuoteKeeps, StartKeeps, CheckKeeps, CommitKeeps DEF AmmNext

\* Each step of the requests for quotes.
LEMMA RfqKeeps ==
  ASSUME ControlInv, RfqNext, UNCHANGED <<ammVars, resolution>>
  PROVE  ControlInv' /\ AmmStands /\ RfqStands
<1>1. ASSUME NEW c \in Connections, NEW i \in DOMAIN requests, StartRfqQuote(c, i)
      PROVE  ControlInv' /\ AmmStands /\ RfqStands
  BY <1>1, AskKeeps DEF StartRfqQuote
<1>2. ASSUME NEW c \in Connections, NEW i \in DOMAIN requests, StartAcceptance(c, i)
      PROVE  ControlInv' /\ AmmStands /\ RfqStands
  BY <1>2, AskKeeps DEF StartAcceptance
<1>3. QED  BY <1>1, <1>2, RequestKeeps, DealerKeeps, AcceptKeeps, CancelKeeps DEF RfqNext

\* Each step.
LEMMA ControlStep ==
  ASSUME ControlInv, [LiquidityNext]_liquidityVars
  PROVE  ControlInv' /\ AmmStands /\ RfqStands
<1>1. CASE UNCHANGED liquidityVars
  <2>1. /\ UNCHANGED <<now, liquidity, status, session, pool, references, ammQuotes, requests, rfqQuotes>>
        /\ UNCHANGED <<rfqFills, result>>
    BY <1>1 DEF liquidityVars, market, ammVars, rfqVars, resolution
  <2>2. RowsOK'
    BY <2>1 DEF ControlInv, RowsOK
  <2>3. QED  BY <2>1, <2>2, NothingMoves
<1>2. CASE LiquidityNext
  <2>1. Offered \subseteq Markets
    BY DEF Offered
  <2>2. QED  BY <1>2, <2>1, TickKeeps, RollbackKeeps, HaltKeeps, AmmKeeps, RfqKeeps, CloseKeeps,
                FinalizeKeeps, RedeemKeepsControl DEF LiquidityNext
<1>3. QED  BY <1>1, <1>2

\* At first there are no rows, and no session runs.
LEMMA ControlInit == LiquidityInit => ControlInv
<1> SUFFICES ASSUME LiquidityInit PROVE ControlInv
  OBVIOUS
<1> USE DEF LiquidityInit, BookInit, AmmInit, RfqInit
<1>1. RowsOK
  <2>1. NoPool \in PoolRow
    BY DEF NoPool, PoolRow
  <2>2. Idle \in SessionRow
    BY DEF Idle, SessionRow
  <2>3. QED  BY <2>1, <2>2, MarketsAssumption DEF RowsOK
<1>2. SessionsOK
  <2>1. \A c \in Connections : session[c].op = "idle" /\ session[c].book = Null
    BY DEF Idle
  <2>2. QED  BY <2>1 DEF SessionsOK, ExecutesOK, ChecksOK, AsksOK, Apart
<1>3. QuotesOK
  BY DEF QuotesOK
<1>4. FillsOK
  BY FS_EmptySet DEF FillsOK
<1>5. MarketsOK
  BY DEF MarketsOK
<1>6. QED  BY <1>1, <1>2, <1>3, <1>4, <1>5 DEF ControlInv

\* Rows, sessions, quotes, fills and results are in order, always.
LEMMA ControlHolds == LiquiditySpec => []ControlInv
<1>1. ControlInv /\ [LiquidityNext]_liquidityVars => ControlInv'
  BY ControlStep
<1>2. QED  BY <1>1, ControlInit, PTL DEF LiquiditySpec

(***************************************************************************)
(* The steps that move money, and those that move none.                    *)
(***************************************************************************)
Executed == {q \in DOMAIN ammQuotes : ammQuotes[q].state = "executed"}
SameExposure(r, s) ==
  s.funded = r.funded /\ s.shares = r.shares /\ s.subsidy = r.subsidy /\ s.loss = r.loss
SamePools == \A p \in Pools : SameExposure(pool[p], pool'[p])

Quiet ==
  /\ UNCHANGED <<available, escrow, treasury, rfqFills, result, redeemed>>
  /\ Executed' = Executed /\ SamePools
Commits(c)    == CommitExecution(c) /\ UNCHANGED <<rfqVars, resolution>>
Accepts(c, q) == AcceptRfqQuote(c, q) /\ UNCHANGED <<ammVars, resolution>>
FundsPool(p, a)  == FundAmm(p, a) /\ UNCHANGED <<rfqVars, resolution>>

\* A step that leaves the pools, their quotes and the money alone is quiet.
LEMMA QuietAmm == UNCHANGED <<ammVars, available, escrow, treasury, rfqFills, resolution>> => Quiet
BY DEF Quiet, ammVars, resolution, Executed, SamePools, SameExposure

\* Every step is quiet, or is one of the five that move money or decide a market.
LEMMA QuietStep ==
  ASSUME ControlInv, LiquidityNext
  PROVE  \/ Quiet
         \/ \E c \in Connections : Commits(c)
         \/ \E c \in Connections, q \in DOMAIN rfqQuotes : Accepts(c, q)
         \/ \E p \in Pools, a \in Fundings : FundsPool(p, a)
         \/ \E m \in Markets, r \in Results : FinalizeResolution(m, r)
         \/ \E m \in Markets : RedeemBatchOf(m)
<1>1. CASE Tick /\ UNCHANGED <<ammVars, rfqVars, resolution>>
  BY <1>1, QuietAmm DEF Tick, ledger, rfqVars
<1>2. CASE \E c \in Connections : Rollback(c) /\ UNCHANGED <<ammVars, rfqVars, resolution>>
  BY <1>2, QuietAmm DEF Rollback, ledger, rfqVars
<1>3. CASE \E m \in Offered : HaltBook(m) /\ UNCHANGED <<ammVars, rfqVars, resolution>>
  BY <1>3, QuietAmm DEF HaltBook, ledger, rfqVars
<1>4. CASE AmmNext /\ UNCHANGED <<rfqVars, resolution>>
  <2>1. CASE \E p \in Pools, impact \in Impacts : ActivateAmm(p, impact)
    <3>1. PICK p \in Pools, impact \in Impacts : ActivateAmm(p, impact)
      BY <2>1
    <3> DEFINE a == [NoPool EXCEPT !.status = "open"]
               b == [a EXCEPT !.impact = impact]
    <3>2. NoPool \in PoolRow /\ pool[p] = NoPool /\ pool' = [pool EXCEPT ![p] = b]
      BY <3>1 DEF ActivateAmm, NoPool, PoolRow
    <3>3. a \in PoolRow /\ SameExposure(NoPool, a)
      BY DEF NoPool, PoolRow, SameExposure
    <3> HIDE DEF a
    <3>4. SameExposure(a, b)
      BY <3>3 DEF PoolRow, SameExposure
    <3> HIDE DEF b
    <3>5. \A x \in Pools : x # p => pool'[x] = pool[x]
      BY <3>2 DEF ControlInv, RowsOK
    <3>6. pool'[p] = b
      BY <3>2 DEF ControlInv, RowsOK
    <3>7. SamePools
      BY <3>2, <3>3, <3>4, <3>5, <3>6 DEF SamePools, SameExposure
    <3>8. UNCHANGED <<available, escrow, treasury, rfqFills, result, redeemed, ammQuotes>>
      BY <1>4, <3>1 DEF ActivateAmm, ledger, rfqVars, resolution
    <3>9. QED  BY <3>7, <3>8 DEF Quiet, Executed
  <2>2. CASE \E p \in Pools, amount \in Fundings : FundAmm(p, amount)
    BY <1>4, <2>2 DEF FundsPool
  <2>3. CASE \E p \in Pools, r \in References : RecordAmmReference(p, r)
    <3>1. UNCHANGED <<available, escrow, treasury, rfqFills, result, redeemed, ammQuotes, pool>>
      BY <1>4, <2>3 DEF RecordAmmReference, ledger, rfqVars, resolution
    <3>2. QED  BY <3>1 DEF Quiet, Executed, SamePools, SameExposure
  <2>4. CASE \E u \in Users, p \in Pools, dir \in OrderSide, contracts \in Sizes, cap \in LimitPrices :
               CreateAmmQuote(u, p, dir, contracts, cap)
    <3>1. PICK u \in Users, p \in Pools, dir \in OrderSide, contracts \in Sizes, cap \in LimitPrices :
               CreateAmmQuote(u, p, dir, contracts, cap)
      BY <2>4
    <3>2. UNCHANGED <<available, escrow, treasury, rfqFills, result, redeemed, pool>>
      BY <1>4, <3>1 DEF CreateAmmQuote, ledger, rfqVars, resolution
    <3>3. PICK row \in AmmQuote : ammQuotes' = Append(ammQuotes, row) /\ row.state = "quoted"
      BY <3>1, AmmQuoteRow DEF ControlInv
    <3>4. PICK n : n = Len(ammQuotes) + 1
      OBVIOUS
    <3>5. /\ DOMAIN ammQuotes' = DOMAIN ammQuotes \cup {n} /\ ammQuotes'[n] = row
          /\ \A i \in DOMAIN ammQuotes : ammQuotes'[i] = ammQuotes[i]
          /\ n \notin DOMAIN ammQuotes
      BY <3>3, <3>4, RowAppended DEF ControlInv, RowsOK
    <3>6. Executed' = Executed
      BY <3>3, <3>5 DEF Executed
    <3>7. QED  BY <3>2, <3>6 DEF Quiet, SamePools, SameExposure
  <2>5. CASE \E c \in Connections, q \in DOMAIN ammQuotes : StartExecution(c, q)
    BY <1>4, <2>5, QuietAmm DEF StartExecution, ledger, rfqVars
  <2>6. CASE \E c \in Connections : CheckExecution(c)
    BY <1>4, <2>6, QuietAmm DEF CheckExecution, ledger, rfqVars
  <2>7. CASE \E c \in Connections : CommitExecution(c)
    BY <1>4, <2>7 DEF Commits
  <2>8. QED  BY <1>4, <2>1, <2>2, <2>3, <2>4, <2>5, <2>6, <2>7 DEF AmmNext
<1>5. CASE RfqNext /\ UNCHANGED <<ammVars, resolution>>
  <2>1. CASE \E u \in Users, e \in Entities, m \in Markets, o \in Outcomes, dir \in RequestSides,
                contracts \in Sizes, expires \in Expiries : CreateRfqRequest(u, e, m, o, dir, contracts, expires)
    BY <1>5, <2>1, QuietAmm DEF CreateRfqRequest, ledger
  <2>2. CASE \E c \in Connections, i \in DOMAIN requests : StartRfqQuote(c, i)
    BY <1>5, <2>2, QuietAmm DEF StartRfqQuote, ledger, rfqVars
  <2>3. CASE \E c \in Connections, u \in Users, e \in Entities, price \in RfqPrices, expires \in Expiries :
               CreateRfqQuote(c, u, e, price, expires)
    BY <1>5, <2>3, QuietAmm DEF CreateRfqQuote, ledger
  <2>4. CASE \E c \in Connections, i \in DOMAIN requests : StartAcceptance(c, i)
    BY <1>5, <2>4, QuietAmm DEF StartAcceptance, ledger, rfqVars
  <2>5. CASE \E c \in Connections, q \in DOMAIN rfqQuotes : AcceptRfqQuote(c, q)
    BY <1>5, <2>5 DEF Accepts
  <2>6. CASE \E i \in DOMAIN requests : CancelRfqRequest(i)
    BY <1>5, <2>6, QuietAmm DEF CancelRfqRequest, ledger
  <2>7. QED  BY <1>5, <2>1, <2>2, <2>3, <2>4, <2>5, <2>6 DEF RfqNext
<1>6. CASE \E m \in Offered : CloseBook(m)
  <2>1. PICK m \in Offered : CloseBook(m)
    BY <1>6
  <2>2. UNCHANGED <<available, escrow, treasury, rfqFills, result, redeemed, ammQuotes>>
    BY <2>1 DEF CloseBook, ledger, resolution
  <2>3. SamePools
    BY <2>1, ClosedPools DEF SamePools, SameExposure, ControlInv
  <2>4. QED  BY <2>2, <2>3 DEF Quiet, Executed
<1>7. Offered \subseteq Markets
  BY DEF Offered
<1>8. QED  BY <1>1, <1>2, <1>3, <1>4, <1>5, <1>6, <1>7 DEF LiquidityNext

\* Each step seen from the executed quotes and the fills.
LEMMA StepFills ==
  ASSUME ControlInv, LiquidityNext
  PROVE  /\ Executed' = Executed \/ \E c \in Connections : Commits(c)
         /\ rfqFills' = rfqFills \/ \E c \in Connections, q \in DOMAIN rfqQuotes : Accepts(c, q)
<1>1. CASE Quiet
  BY <1>1 DEF Quiet
<1>2. CASE \E c \in Connections : Commits(c)
  BY <1>2 DEF Commits, rfqVars
<1>3. CASE \E c \in Connections, q \in DOMAIN rfqQuotes : Accepts(c, q)
  BY <1>3 DEF Accepts, ammVars, Executed
<1>4. CASE \E p \in Pools, a \in Fundings : FundsPool(p, a)
  BY <1>4 DEF FundsPool, FundAmm, rfqVars, Executed
<1>5. CASE \E m \in Markets, r \in Results : FinalizeResolution(m, r)
  BY <1>5 DEF FinalizeResolution, ammVars, rfqVars, Executed
<1>6. CASE \E m \in Markets : RedeemBatchOf(m)
  BY <1>6 DEF RedeemBatchOf, ammVars, rfqVars, Executed
<1>7. QED  BY <1>1, <1>2, <1>3, <1>4, <1>5, <1>6, QuietStep

\* An execution commits in an open and undecided market, in time.
LEMMA CommitsInTime ==
  ASSUME ControlInv, LiquidityNext, NEW q \in DOMAIN ammQuotes,
         ammQuotes[q].state = "quoted", ammQuotes'[q].state = "executed"
  PROVE  /\ status[ammQuotes[q].pool.market] = "open" /\ result[ammQuotes[q].pool.market] = Null
         /\ \E c \in Connections : Executing(c, q) /\ session[c].asOf < Cutoff
                                   /\ session[c].asOf < ammQuotes[q].reference.expires
<1>1. q \notin Executed /\ q \in Executed'
  <2>1. AmmStands
    BY ControlStep
  <2>2. QED  BY <2>1 DEF Executed, AmmStands
<1>2. PICK c \in Connections : Commits(c)
  BY <1>1, StepFills
<1>3. PICK d : d = session[c].of
  OBVIOUS
<1>4. /\ d \in DOMAIN ammQuotes /\ ammQuotes[d] \in AmmQuote /\ session[c].op = "execute"
      /\ session[c].asOf < ammQuotes[d].expires /\ session[c].asOf < Cutoff
      /\ status[ammQuotes[d].pool.market] = "open" /\ ammQuotes[d].pool.market \in Markets
      /\ ammQuotes' = [ammQuotes EXCEPT ![d].state = "executed"]
  BY <1>2, <1>3, CommitFacts DEF Commits, CommitExecution
<1>5. \A k \in DOMAIN ammQuotes : k # d => ammQuotes'[k] = ammQuotes[k]
  BY <1>4, ExecutedRow DEF ControlInv
<1>6. d = q
  BY <1>5
<1>7. result[ammQuotes[q].pool.market] = Null
  BY <1>4, <1>6 DEF ControlInv, MarketsOK
<1>8. session[c].asOf < ammQuotes[q].reference.expires
  <2>1. ammQuotes[q].expires <= ammQuotes[q].reference.expires
    BY DEF ControlInv, QuotesOK
  <2>2. ammQuotes[q].expires \in Nat /\ ammQuotes[q].reference.expires \in Nat /\ session[c].asOf \in Nat
    BY <1>4, <1>6 DEF AmmQuote, Reference, ControlInv, RowsOK, SessionRow
  <2>3. QED  BY <1>4, <1>6, <2>1, <2>2
<1>9. QED  BY <1>3, <1>4, <1>6, <1>7, <1>8 DEF Executing

\* So does a fill.
LEMMA FillsInTime ==
  ASSUME ControlInv, LiquidityNext, NEW f \in rfqFills', f \notin rfqFills
  PROVE  /\ status[requests[f.request].market] = "open" /\ result[requests[f.request].market] = Null
         /\ \E c \in Connections :
              /\ session[c].op = "accept" /\ session[c].of = f.request
              /\ session[c].asOf < rfqQuotes[f.quote].expires
              /\ rfqQuotes[f.quote].expires <= requests[f.request].expires
              /\ requests[f.request].expires <= Cutoff
<1>1. PICK c \in Connections, q \in DOMAIN rfqQuotes : Accepts(c, q)
  BY StepFills
<1>2. PICK i : i = session[c].of
  OBVIOUS
<1>3. /\ session[c].op = "accept" /\ i \in DOMAIN requests /\ requests[i] \in RequestRow
      /\ rfqQuotes[q].request = i /\ session[c].asOf < rfqQuotes[q].expires
      /\ status[requests[i].market] = "open"
      /\ rfqFills' = rfqFills \cup {[request |-> i, quote |-> q]}
  BY <1>1, <1>2, AcceptFacts DEF Accepts
<1>4. f.request = i /\ f.quote = q
  BY <1>3
<1>5. result[requests[i].market] = Null
  BY <1>3 DEF ControlInv, MarketsOK, RequestRow
<1>6. rfqQuotes[q].expires <= requests[i].expires /\ requests[i].expires <= Cutoff
  BY <1>3 DEF ControlInv, QuotesOK
<1>7. QED  BY <1>2, <1>3, <1>4, <1>5, <1>6

\* A position is only made in a market that is open and undecided when it commits,
\* for a command that arrived before the cutoff, while the reference price of the
\* AMM quote was fresh, or the dealer's quote and the request unexpired.
THEOREM ExecutionsInTime == LiquiditySpec => NothingExecutesLate
<1> DEFINE A ==
     /\ \A q \in DOMAIN ammQuotes : ammQuotes[q].state = "quoted" /\ ammQuotes'[q].state = "executed" =>
          /\ status[ammQuotes[q].pool.market] = "open" /\ result[ammQuotes[q].pool.market] = Null
          /\ \E c \in Connections : Executing(c, q) /\ session[c].asOf < Cutoff
                                    /\ session[c].asOf < ammQuotes[q].reference.expires
     /\ \A f \in rfqFills' \ rfqFills :
          /\ status[requests[f.request].market] = "open" /\ result[requests[f.request].market] = Null
          /\ \E c \in Connections :
               /\ session[c].op = "accept" /\ session[c].of = f.request
               /\ session[c].asOf < rfqQuotes[f.quote].expires
               /\ rfqQuotes[f.quote].expires <= requests[f.request].expires
               /\ requests[f.request].expires <= Cutoff
<1>1. ASSUME ControlInv, LiquidityNext PROVE A
  BY <1>1, CommitsInTime, FillsInTime
<1>2. ControlInv /\ [LiquidityNext]_liquidityVars => [A]_liquidityVars
  BY <1>1
<1>3. QED  BY <1>2, ControlHolds, PTL DEF LiquiditySpec, NothingExecutesLate

(***************************************************************************)
(* The exposure of institutional entities.                                 *)
(***************************************************************************)
OfEntity(e, m) == {f \in rfqFills : requests[f.request].market = m /\ e \in EntitiesOf(f)}
FillTotals == [f \in rfqFills |-> FillTotal(f)]
ExposureInv ==
  \A e \in Entities, m \in Markets : SumFunctionOnSet(FillTotals, OfEntity(e, m)) <= ExposureLimit[e]

\* The exposure of the model, as the sum of a function.
LEMMA ExposureSum ==
  ASSUME NEW e, NEW m
  PROVE  EntityExposure(e, m) = SumFunctionOnSet(FillTotals, OfEntity(e, m))
<1> DEFINE R == {f \in rfqFills : requests[f.request].market = m /\ e \in EntitiesOf(f)}
           F == FillTotals
           D(s) == s = [T \in SUBSET R |-> IF T = {} THEN 0
                          ELSE FillTotal(Pick(T)) + s[T \ {Pick(T)}]]
           E(s) == Defines(s, F, R)
<1>1. EntityExposure(e, m) = (CHOOSE s : D(s))[R]
  BY DEF EntityExposure, MapThenSumSet, MapThenFoldSet, Pick
<1>2. SumFunctionOnSet(F, OfEntity(e, m)) = (CHOOSE s : E(s))[R]
  BY SumDef DEF OfEntity
<1>3. \A T \in SUBSET R : T # {} => F[Pick(T)] = FillTotal(Pick(T))
  BY PickIn DEF FillTotals
<1> HIDE DEF F
<1>4. ASSUME NEW s PROVE D(s) <=> E(s)
  BY <1>3 DEF Defines
<1> HIDE DEF D, E
<1>5. (CHOOSE s : D(s)) = (CHOOSE s : E(s))
  BY <1>4
<1>6. QED  BY <1>1, <1>2, <1>5 DEF F

\* The terms of a fill do not change.
LEMMA FillSame ==
  ASSUME ControlInv, RfqStands, NEW f \in rfqFills
  PROVE  /\ f.request \in DOMAIN requests /\ f.quote \in DOMAIN rfqQuotes
         /\ requests'[f.request].market = requests[f.request].market
         /\ requests'[f.request].quantity = requests[f.request].quantity
         /\ requests'[f.request].entity = requests[f.request].entity
         /\ requests'[f.request].side = requests[f.request].side
         /\ requests'[f.request].owner = requests[f.request].owner
         /\ requests'[f.request].outcome = requests[f.request].outcome
         /\ rfqQuotes'[f.quote].entity = rfqQuotes[f.quote].entity
         /\ rfqQuotes'[f.quote].owner = rfqQuotes[f.quote].owner
         /\ rfqQuotes'[f.quote].price = rfqQuotes[f.quote].price
<1>1. f.request \in DOMAIN requests /\ f.quote \in DOMAIN rfqQuotes
  BY DEF ControlInv, FillsOK, FillOK
<1>2. SameRequest(requests[f.request], requests'[f.request]) /\ SameQuote(rfqQuotes[f.quote], rfqQuotes'[f.quote])
  BY <1>1 DEF RfqStands
<1>3. QED  BY <1>1, <1>2 DEF SameRequest, SameQuote

\* What a fill counts for in the exposure of its two entities.
LEMMA FillTotalNat ==
  ASSUME ControlInv, NEW f \in rfqFills
  PROVE  FillTotals[f] = FillTotal(f) /\ FillTotal(f) \in Nat
<1>1. requests[f.request] \in RequestRow
  BY DEF ControlInv, FillsOK, FillOK, RowsOK
<1>2. requests[f.request].quantity \in Nat
  BY <1>1 DEF RequestRow
<1>3. requests[f.request].quantity * ContractUnit \in Nat
  BY <1>2, ContractUnitAssumption
<1>4. QED  BY <1>3 DEF FillTotals, FillTotal

\* The fills of an entity in a market are finitely many.
LEMMA OfEntityFinite ==
  ASSUME ControlInv, NEW e, NEW m
  PROVE  IsFiniteSet(OfEntity(e, m)) /\ OfEntity(e, m) \subseteq rfqFills
BY FS_Subset DEF OfEntity, ControlInv, FillsOK

\* Without a new fill the exposures stay what they are.
LEMMA ExposureKept ==
  ASSUME ControlInv, ExposureInv, RfqStands, UNCHANGED rfqFills
  PROVE  ExposureInv'
<1> SUFFICES ASSUME NEW e \in Entities, NEW m \in Markets
             PROVE  SumFunctionOnSet(FillTotals', OfEntity(e, m)') <= ExposureLimit[e]
  BY DEF ExposureInv
<1>1. OfEntity(e, m)' = OfEntity(e, m)
  BY FillSame DEF OfEntity, EntitiesOf
<1>2. PICK g : g = FillTotals'
  OBVIOUS
<1>3. PICK S : S = OfEntity(e, m)
  OBVIOUS
<1>4. \A f \in rfqFills : FillTotals[f] \in Int /\ g[f] = FillTotals[f]
  <2> TAKE f \in rfqFills
  <2>1. g[f] = requests'[f.request].quantity * ContractUnit
    BY <1>2 DEF FillTotals, FillTotal
  <2>2. FillTotals[f] = requests[f.request].quantity * ContractUnit /\ FillTotals[f] \in Int
    BY FillTotalNat DEF FillTotal
  <2>3. QED  BY <2>1, <2>2, FillSame
<1>5. IsFiniteSet(S) /\ \A f \in S : FillTotals[f] \in Int /\ g[f] = FillTotals[f]
  BY <1>3, <1>4, OfEntityFinite
<1>6. SumFunctionOnSet(g, S) = SumFunctionOnSet(FillTotals, S)
  BY <1>5, SumEqual
<1>7. SumFunctionOnSet(FillTotals, S) <= ExposureLimit[e]
  BY <1>3 DEF ExposureInv
<1>8. QED  BY <1>1, <1>2, <1>3, <1>6, <1>7

\* An acceptance checks both entities, under the lock of its book.
LEMMA ExposureAccepted ==
  ASSUME ControlInv, ExposureInv, RfqStands, NEW c \in Connections, NEW q \in DOMAIN rfqQuotes,
         AcceptRfqQuote(c, q)
  PROVE  ExposureInv'
<1>1. PICK i : i = session[c].of
  OBVIOUS
<1>2. PICK new : new = [request |-> i, quote |-> q]
  OBVIOUS
<1>3. /\ i \in DOMAIN requests /\ requests[i] \in RequestRow /\ BothWithinLimit(i, q)
      /\ rfqFills' = rfqFills \cup {new} /\ new \notin rfqFills /\ new.request = i /\ new.quote = q
      /\ requests'[i].market = requests[i].market /\ requests'[i].quantity = requests[i].quantity
      /\ requests'[i].entity = requests[i].entity /\ rfqQuotes'[q].entity = rfqQuotes[q].entity
  BY <1>1, <1>2, AcceptFacts DEF RfqStands, SameRequest, SameQuote
<1> SUFFICES ASSUME NEW e \in Entities, NEW m \in Markets
             PROVE  SumFunctionOnSet(FillTotals', OfEntity(e, m)') <= ExposureLimit[e]
  BY DEF ExposureInv
<1>4. PICK g : g = FillTotals'
  OBVIOUS
<1>5. PICK S : S = OfEntity(e, m)
  OBVIOUS
<1>6. PICK total : total = requests[i].quantity * ContractUnit
  OBVIOUS
<1>7. total \in Nat /\ g[new] = total
  <2>1. requests[i].quantity \in Nat
    BY <1>3 DEF RequestRow
  <2>2. total \in Nat
    BY <1>6, <2>1, ContractUnitAssumption
  <2>3. QED  BY <1>3, <1>4, <1>6, <2>2 DEF FillTotals, FillTotal
<1>8. \A f \in rfqFills : FillTotals[f] \in Int /\ g[f] = FillTotals[f]
  <2> TAKE f \in rfqFills
  <2>1. g[f] = requests'[f.request].quantity * ContractUnit
    BY <1>3, <1>4 DEF FillTotals, FillTotal
  <2>2. FillTotals[f] = requests[f.request].quantity * ContractUnit /\ FillTotals[f] \in Int
    BY FillTotalNat DEF FillTotal
  <2>3. QED  BY <2>1, <2>2, FillSame
<1>9. /\ IsFiniteSet(S) /\ new \notin S
      /\ \A f \in S : FillTotals[f] \in Int /\ g[f] = FillTotals[f]
  BY <1>3, <1>5, <1>8, OfEntityFinite
<1>10. /\ SumFunctionOnSet(g, S) = SumFunctionOnSet(FillTotals, S)
       /\ SumFunctionOnSet(FillTotals, S) \in Int
  BY <1>9, SumEqual, SumType
<1>11. CASE m = requests[i].market /\ e \in {requests[i].entity, rfqQuotes[q].entity}
  <2>1. OfEntity(e, m)' = S \cup {new}
    BY <1>3, <1>5, <1>11, FillSame DEF OfEntity, EntitiesOf
  <2>2. SumFunctionOnSet(FillTotals, S) + total <= ExposureLimit[e]
    <3>1. EntityExposure(e, m) + total <= ExposureLimit[e]
      BY <1>3, <1>6, <1>11 DEF BothWithinLimit
    <3>2. QED  BY <1>5, <3>1, ExposureSum
  <2>3. SumFunctionOnSet(g, S \cup {new}) = total + SumFunctionOnSet(g, S)
    <3>1. \A f \in S \cup {new} : g[f] \in Int
      BY <1>7, <1>9
    <3>2. QED  BY <1>7, <1>9, <3>1, SumAdd
  <2>4. QED  BY <1>4, <1>7, <1>10, <2>1, <2>2, <2>3
<1>12. CASE ~(m = requests[i].market /\ e \in {requests[i].entity, rfqQuotes[q].entity})
  <2>1. OfEntity(e, m)' = S
    BY <1>3, <1>5, <1>12, FillSame DEF OfEntity, EntitiesOf
  <2>2. SumFunctionOnSet(FillTotals, S) <= ExposureLimit[e]
    BY <1>5 DEF ExposureInv
  <2>3. QED  BY <1>4, <1>10, <2>1, <2>2
<1>13. QED  BY <1>11, <1>12

\* So the limits hold, always.
LEMMA ExposureHolds == LiquiditySpec => []ExposureInv
<1>1. LiquidityInit => ExposureInv
  <2> SUFFICES ASSUME LiquidityInit, NEW e \in Entities, NEW m \in Markets
               PROVE  SumFunctionOnSet(FillTotals, OfEntity(e, m)) <= ExposureLimit[e]
    BY DEF ExposureInv
  <2>1. OfEntity(e, m) = {}
    BY DEF OfEntity, LiquidityInit, RfqInit
  <2>2. ExposureLimit[e] \in Nat
    BY EntitiesAssumption
  <2>3. QED  BY <2>1, <2>2, SumEmpty
<1>2. ASSUME ControlInv, ExposureInv, [LiquidityNext]_liquidityVars PROVE ExposureInv'
  <2>1. RfqStands
    BY <1>2, ControlStep
  <2>2. CASE UNCHANGED liquidityVars
    BY <1>2, <2>1, <2>2, ExposureKept DEF liquidityVars, rfqVars
  <2>3. CASE LiquidityNext
    <3>1. CASE rfqFills' = rfqFills
      BY <1>2, <2>1, <3>1, ExposureKept
    <3>2. CASE \E c \in Connections, q \in DOMAIN rfqQuotes : Accepts(c, q)
      BY <1>2, <2>1, <3>2, ExposureAccepted DEF Accepts
    <3>3. QED  BY <1>2, <2>3, <3>1, <3>2, StepFills
  <2>4. QED  BY <1>2, <2>2, <2>3
<1>3. ControlInv /\ ExposureInv /\ [LiquidityNext]_liquidityVars => ExposureInv'
  BY <1>2
<1>4. QED  BY <1>1, <1>3, ControlHolds, PTL DEF LiquiditySpec

\* The fills of an entity, as requester or as dealer, stay within its limit in each
\* market, whatever is accepted at the same time.
THEOREM EntitiesWithinLimit == LiquiditySpec => []EntityExposureWithinLimit
<1>1. ExposureInv => EntityExposureWithinLimit
  BY ExposureSum DEF ExposureInv, EntityExposureWithinLimit
<1>2. QED  BY <1>1, ExposureHolds, PTL

(***************************************************************************)
(* Positions and what they pay.                                            *)
(***************************************************************************)
Positions == AmmPositions \cup RfqPositions
Unpaid    == Positions \ redeemed

PaidOf(u, x) == (IF x.buyer = u THEN BuyerPayout(x) ELSE 0)
                + (IF x.seller = u THEN x.total - BuyerPayout(x) ELSE 0)
Worth(S)   == [x \in S |-> x.total]
Paid(u, S) == [x \in S |-> PaidOf(u, x)]

Known(f) == /\ f.request \in DOMAIN requests /\ f.quote \in DOMAIN rfqQuotes
            /\ WithinPrecision(rfqQuotes[f.quote].price)

\* The sums of the model, written out: totals, payouts.
LEMMA WorthTotals ==
  ASSUME NEW S
  PROVE  Totals(S) = SumFunctionOnSet(Worth(S), S)
<1> DEFINE F == Worth(S)
           D(s) == s = [T \in SUBSET S |-> IF T = {} THEN 0 ELSE Pick(T).total + s[T \ {Pick(T)}]]
           E(s) == Defines(s, F, S)
<1>1. Totals(S) = (CHOOSE s : D(s))[S]
  BY DEF Totals, MapThenSumSet, MapThenFoldSet, Pick
<1>2. SumFunctionOnSet(F, S) = (CHOOSE s : E(s))[S]
  BY SumDef
<1>3. \A T \in SUBSET S : T # {} => F[Pick(T)] = Pick(T).total
  BY PickIn DEF Worth
<1> HIDE DEF F
<1>4. ASSUME NEW s PROVE D(s) <=> E(s)
  BY <1>3 DEF Defines
<1> HIDE DEF D, E
<1>5. (CHOOSE s : D(s)) = (CHOOSE s : E(s))
  BY <1>4
<1>6. QED  BY <1>1, <1>2, <1>5 DEF F

\* What somebody is paid for positions.
LEMMA PaidTotals ==
  ASSUME NEW u, NEW S
  PROVE  PaidTo(u, S) = SumFunctionOnSet(Paid(u, S), S)
<1> DEFINE F == Paid(u, S)
           V(x) == (IF x.buyer = u THEN BuyerPayout(x) ELSE 0)
                   + (IF x.seller = u THEN x.total - BuyerPayout(x) ELSE 0)
           D(s) == s = [T \in SUBSET S |-> IF T = {} THEN 0 ELSE V(Pick(T)) + s[T \ {Pick(T)}]]
           E(s) == Defines(s, F, S)
<1>1. PaidTo(u, S) = (CHOOSE s : D(s))[S]
  BY DEF PaidTo, MapThenSumSet, MapThenFoldSet, Pick
<1>2. SumFunctionOnSet(F, S) = (CHOOSE s : E(s))[S]
  BY SumDef
<1>3. \A T \in SUBSET S : T # {} => F[Pick(T)] = V(Pick(T))
  BY PickIn DEF Paid, PaidOf
<1> HIDE DEF F, V
<1>4. ASSUME NEW s PROVE D(s) <=> E(s)
  BY <1>3 DEF Defines
<1> HIDE DEF D, E
<1>5. (CHOOSE s : D(s)) = (CHOOSE s : E(s))
  BY <1>4
<1>6. QED  BY <1>1, <1>2, <1>5 DEF F

\* The fields of a position.
LEMMA AmmTerms ==
  ASSUME ControlInv, NEW q \in DOMAIN ammQuotes
  PROVE  LET x == AmmPosition(q) IN
         /\ x.kind = "amm" /\ x.of = q /\ x.market = ammQuotes[q].pool.market /\ x.market \in Markets
         /\ x.total = ammQuotes[q].userCollateral + ammQuotes[q].ammCollateral
         /\ x.total \in Nat /\ x.buyerCollateral \in Nat /\ x.buyerCollateral <= x.total
<1>1. ammQuotes[q] \in AmmQuote
  BY DEF ControlInv, RowsOK
<1>2. /\ ammQuotes[q].userCollateral \in Nat /\ ammQuotes[q].ammCollateral \in Nat
      /\ ammQuotes[q].pool.market \in Markets
  BY <1>1, PoolsAssumption DEF AmmQuote
<1>3. QED  BY <1>2 DEF AmmPosition

\* The same for a fill.
LEMMA RfqTerms ==
  ASSUME ControlInv, NEW f, Known(f)
  PROVE  LET x == RfqPosition(f) IN
         /\ x.kind = "rfq" /\ x.of = f.request /\ x.market = requests[f.request].market
         /\ x.market \in Markets
         /\ x.total = requests[f.request].quantity * ContractUnit
         /\ x.total \in Nat /\ x.buyerCollateral \in Nat /\ x.buyerCollateral <= x.total
<1>1. requests[f.request] \in RequestRow /\ rfqQuotes[f.quote] \in RfqQuote
  BY DEF ControlInv, RowsOK, Known
<1>2. /\ requests[f.request].quantity \in Nat /\ requests[f.request].market \in Markets
      /\ rfqQuotes[f.quote].price \in Price
  BY <1>1 DEF RequestRow, RfqQuote
<1>3. PICK n, p, k : /\ n = requests[f.request].quantity /\ p = rfqQuotes[f.quote].price
                     /\ k = ContractCollateral("buy", n, p)
  OBVIOUS
<1>4. k \in Nat /\ k <= n * ContractUnit /\ n * ContractUnit \in Nat
  BY <1>2, <1>3, CostsType DEF Known
<1>5. QED  BY <1>2, <1>3, <1>4 DEF RfqPosition, FillTotal

\* A fill has a request and a precise price.
LEMMA FillKnown ==
  ASSUME ControlInv, NEW f \in rfqFills
  PROVE  Known(f)
BY DEF ControlInv, FillsOK, FillOK, Known

\* A position has a market, and its parts are within its total.
LEMMA PositionTerms ==
  ASSUME ControlInv, NEW x \in Positions
  PROVE  /\ x.market \in Markets
         /\ x.total \in Nat /\ x.buyerCollateral \in Nat /\ x.buyerCollateral <= x.total
<1>1. CASE x \in AmmPositions
  <2>1. PICK q \in DOMAIN ammQuotes : x = AmmPosition(q)
    BY <1>1 DEF AmmPositions
  <2>2. QED  BY <2>1, AmmTerms
<1>2. CASE x \in RfqPositions
  <2>1. PICK f \in rfqFills : x = RfqPosition(f)
    BY <1>2 DEF RfqPositions
  <2>2. QED  BY <2>1, RfqTerms, FillKnown
<1>3. QED  BY <1>1, <1>2 DEF Positions

\* Nobody is paid less than nothing.
LEMMA PaidNat ==
  ASSUME ControlInv, NEW x \in Positions, NEW u
  PROVE  PaidOf(u, x) \in Nat
<1>1. BuyerPayout(x) \in Nat /\ BuyerPayout(x) <= x.total /\ x.total \in Nat
  BY PositionTerms DEF BuyerPayout
<1>2. QED  BY <1>1 DEF PaidOf

\* Positions, executed quotes and fills are finitely many.
LEMMA PositionsFinite ==
  ASSUME ControlInv
  PROVE  IsFiniteSet(Executed) /\ IsFiniteSet(rfqFills) /\ IsFiniteSet(Positions)
<1>1. IsFiniteSet(Executed)
  <2>1. DOMAIN ammQuotes = 1..Len(ammQuotes) /\ Len(ammQuotes) \in Nat
    BY DEF ControlInv, RowsOK
  <2>2. IsFiniteSet(DOMAIN ammQuotes)
    BY <2>1, FS_Interval
  <2>3. QED  BY <2>2, FS_Subset DEF Executed
<1>2. IsFiniteSet(rfqFills)
  BY DEF ControlInv, FillsOK
<1>3. IsFiniteSet(AmmPositions)
  <2>1. PICK p : p = [q \in Executed |-> AmmPosition(q)]
    OBVIOUS
  <2>2. AmmPositions = {p[q] : q \in Executed}
    BY <2>1 DEF AmmPositions, Executed
  <2>3. p \in Surjection(Executed, {p[q] : q \in Executed})
    BY <2>1 DEF Surjection
  <2>4. QED  BY <1>1, <2>2, <2>3, FS_Surjection
<1>4. IsFiniteSet(RfqPositions)
  <2>1. PICK p : p = [f \in rfqFills |-> RfqPosition(f)]
    OBVIOUS
  <2>2. RfqPositions = {p[f] : f \in rfqFills}
    BY <2>1 DEF RfqPositions
  <2>3. p \in Surjection(rfqFills, {p[f] : f \in rfqFills})
    BY <2>1 DEF Surjection
  <2>4. QED  BY <1>2, <2>2, <2>3, FS_Surjection
<1>5. QED  BY <1>1, <1>2, <1>3, <1>4, FS_Union DEF Positions

\* A position does not change.
LEMMA AmmPositionSame ==
  ASSUME AmmStands, NEW q \in DOMAIN ammQuotes
  PROVE  AmmPosition(q)' = AmmPosition(q)
<1>1. SameTerms(ammQuotes[q], ammQuotes'[q])
  BY DEF AmmStands
<1>2. QED  BY <1>1 DEF SameTerms, AmmPosition

\* Nor does that of a fill.
LEMMA RfqPositionSame ==
  ASSUME RfqStands, NEW f, Known(f)
  PROVE  RfqPosition(f)' = RfqPosition(f)
<1>1. SameRequest(requests[f.request], requests'[f.request]) /\ SameQuote(rfqQuotes[f.quote], rfqQuotes'[f.quote])
  BY DEF RfqStands, Known
<1>2. QED  BY <1>1 DEF SameRequest, SameQuote, RfqPosition, SideOf, FillTotal

\* The positions of the same executed quotes and fills are the same, and one more
\* quote or fill is one more position.
LEMMA PositionsMove ==
  ASSUME ControlInv, AmmStands, RfqStands
  PROVE  /\ Executed' = Executed => AmmPositions' = AmmPositions
         /\ rfqFills' = rfqFills => RfqPositions' = RfqPositions
         /\ \A q \in DOMAIN ammQuotes : Executed' = Executed \cup {q} =>
              AmmPositions' = AmmPositions \cup {AmmPosition(q)}
         /\ \A f : Known(f) /\ rfqFills' = rfqFills \cup {f} =>
              RfqPositions' = RfqPositions \cup {RfqPosition(f)}
<1>1. AmmPositions = {AmmPosition(q) : q \in Executed} /\ RfqPositions = {RfqPosition(f) : f \in rfqFills}
  BY DEF AmmPositions, RfqPositions, Executed
<1>2. AmmPositions' = {AmmPosition(q)' : q \in Executed'} /\ RfqPositions' = {RfqPosition(f)' : f \in rfqFills'}
  BY DEF AmmPositions, RfqPositions, Executed
<1>3. \A q \in DOMAIN ammQuotes : AmmPosition(q)' = AmmPosition(q)
  BY AmmPositionSame
<1>4. \A f : Known(f) => RfqPosition(f)' = RfqPosition(f)
  BY RfqPositionSame
<1>5. Executed \subseteq DOMAIN ammQuotes /\ \A f \in rfqFills : Known(f)
  BY FillKnown DEF Executed
<1>6. Executed' = Executed => AmmPositions' = AmmPositions
  BY <1>1, <1>2, <1>3, <1>5
<1>7. rfqFills' = rfqFills => RfqPositions' = RfqPositions
  BY <1>1, <1>2, <1>4, <1>5
<1>8. ASSUME NEW q \in DOMAIN ammQuotes, Executed' = Executed \cup {q}
      PROVE  AmmPositions' = AmmPositions \cup {AmmPosition(q)}
  BY <1>1, <1>2, <1>3, <1>5, <1>8
<1>9. ASSUME NEW f, Known(f), rfqFills' = rfqFills \cup {f}
      PROVE  RfqPositions' = RfqPositions \cup {RfqPosition(f)}
  BY <1>1, <1>2, <1>4, <1>5, <1>9
<1>10. QED  BY <1>6, <1>7, <1>8, <1>9

(***************************************************************************)
(* The ledger.                                                             *)
(***************************************************************************)
AmmCosts      == [q \in Executed |-> ammQuotes[q].ammCollateral]
UserCosts     == [q \in Executed |-> UserTotal(ammQuotes[q])]
ExecutedBy(u) == {q \in DOMAIN ammQuotes : ammQuotes[q].owner = u /\ ammQuotes[q].state = "executed"}
CostOn(dir, u, f) ==
  IF SideOf(f.request, f.quote, dir) = u
    THEN FillCost(dir, requests[f.request].quantity, rfqQuotes[f.quote].price) ELSE 0
CostTo(u, f) == CostOn("buy", u, f) + CostOn("sell", u, f)
FillCosts(u) == [f \in rfqFills |-> CostTo(u, f)]
Funding      == [p \in Pools |-> pool[p].funded]

Balance(u) == Funds[u] + SumFunctionOnSet(Paid(u, redeemed), redeemed)
              - SumFunctionOnSet(UserCosts, ExecutedBy(u)) - SumFunctionOnSet(FillCosts(u), rfqFills)
Reserve    == SumFunctionOnSet(Funding, Pools) + SumFunctionOnSet(Paid(Treasury, redeemed), redeemed)
              - SumFunctionOnSet(AmmCosts, Executed)

\* LedgerFollowsPositions with its sums over functions; what is redeemed is a
\* position of a market that has a result.
LedgerInv ==
  /\ redeemed \subseteq Positions /\ \A x \in redeemed : result[x.market] # Null
  /\ escrow = SumFunctionOnSet(Worth(Unpaid), Unpaid)
  /\ treasury = Reserve
  /\ available = [u \in Users |-> Balance(u)]

\* The terms are integers.
LEMMA CostTypes ==
  ASSUME ControlInv
  PROVE  /\ \A q \in DOMAIN ammQuotes :
              /\ ammQuotes[q].ammCollateral \in Nat /\ UserTotal(ammQuotes[q]) \in Nat
              /\ ammQuotes[q].userCollateral \in Nat
         /\ \A f, u : Known(f) => CostOn("buy", u, f) \in Nat /\ CostOn("sell", u, f) \in Nat
         /\ \A p \in Pools : pool[p].funded \in Nat /\ pool[p].loss \in Nat
<1>1. ASSUME NEW q \in DOMAIN ammQuotes
      PROVE  /\ ammQuotes[q].ammCollateral \in Nat /\ UserTotal(ammQuotes[q]) \in Nat
             /\ ammQuotes[q].userCollateral \in Nat
  <2>1. ammQuotes[q] \in AmmQuote
    BY DEF ControlInv, RowsOK
  <2>2. QED  BY <2>1 DEF AmmQuote, UserTotal
<1>2. ASSUME NEW f, NEW u, NEW dir, Known(f) PROVE CostOn(dir, u, f) \in Nat
  <2>1. requests[f.request] \in RequestRow /\ rfqQuotes[f.quote] \in RfqQuote
    BY <1>2 DEF ControlInv, RowsOK, Known
  <2>2. PICK n, p, k : /\ n = requests[f.request].quantity /\ p = rfqQuotes[f.quote].price
                       /\ k = FillCost(dir, n, p)
    OBVIOUS
  <2>3. n \in Nat /\ p \in Price /\ WithinPrecision(p)
    BY <1>2, <2>1, <2>2 DEF RequestRow, RfqQuote, Known
  <2>4. k \in Nat
    BY <2>2, <2>3, CostsType
  <2>5. QED  BY <2>2, <2>4 DEF CostOn
<1>3. \A p \in Pools : pool[p].funded \in Nat /\ pool[p].loss \in Nat
  BY DEF ControlInv, RowsOK, PoolRow
<1>4. QED  BY <1>1, <1>2, <1>3

\* So are the sums.
LEMMA LedgerTypes ==
  ASSUME ControlInv, redeemed \subseteq Positions
  PROVE  /\ IsFiniteSet(redeemed) /\ IsFiniteSet(Unpaid)
         /\ SumFunctionOnSet(Worth(Unpaid), Unpaid) \in Int
         /\ SumFunctionOnSet(Funding, Pools) \in Int /\ SumFunctionOnSet(AmmCosts, Executed) \in Int
         /\ \A u : /\ SumFunctionOnSet(Paid(u, redeemed), redeemed) \in Nat
                   /\ IsFiniteSet(ExecutedBy(u)) /\ ExecutedBy(u) \subseteq Executed
                   /\ SumFunctionOnSet(UserCosts, ExecutedBy(u)) \in Int
                   /\ SumFunctionOnSet(FillCosts(u), rfqFills) \in Int
<1>1. IsFiniteSet(redeemed) /\ IsFiniteSet(Unpaid)
  <2>1. redeemed \subseteq Positions /\ Unpaid \subseteq Positions
    BY DEF Unpaid
  <2>2. QED  BY <2>1, PositionsFinite, FS_Subset
<1>2. SumFunctionOnSet(Worth(Unpaid), Unpaid) \in Int
  <2>1. \A x \in Unpaid : Worth(Unpaid)[x] \in Int
    BY PositionTerms DEF Worth, Unpaid
  <2>2. QED  BY <1>1, <2>1, SumType
<1>3. SumFunctionOnSet(Funding, Pools) \in Int
  <2>1. \A p \in Pools : Funding[p] \in Int
    BY CostTypes DEF Funding
  <2>2. QED  BY <2>1, PoolsAssumption, SumType
<1>4. SumFunctionOnSet(AmmCosts, Executed) \in Int
  <2>1. \A q \in Executed : AmmCosts[q] \in Int
    BY CostTypes DEF AmmCosts, Executed
  <2>2. QED  BY <2>1, PositionsFinite, SumType
<1>5. ASSUME NEW u PROVE SumFunctionOnSet(Paid(u, redeemed), redeemed) \in Nat
  <2>1. \A x \in redeemed : Paid(u, redeemed)[x] \in Nat
    BY PaidNat DEF Paid
  <2>2. QED  BY <1>1, <2>1, SumNat
<1>6. ASSUME NEW u PROVE /\ IsFiniteSet(ExecutedBy(u)) /\ ExecutedBy(u) \subseteq Executed
                         /\ SumFunctionOnSet(UserCosts, ExecutedBy(u)) \in Int
  <2>1. ExecutedBy(u) \subseteq Executed
    BY DEF ExecutedBy, Executed
  <2>2. IsFiniteSet(ExecutedBy(u))
    BY <2>1, PositionsFinite, FS_Subset
  <2>3. \A q \in ExecutedBy(u) : UserCosts[q] \in Int
    BY CostTypes DEF UserCosts, Executed, ExecutedBy
  <2>4. QED  BY <2>1, <2>2, <2>3, SumType
<1>7. ASSUME NEW u PROVE SumFunctionOnSet(FillCosts(u), rfqFills) \in Int
  <2>1. \A f \in rfqFills : FillCosts(u)[f] \in Int
    BY CostTypes, FillKnown DEF FillCosts, CostTo
  <2>2. QED  BY <2>1, PositionsFinite, SumType
<1>8. QED  BY <1>1, <1>2, <1>3, <1>4, <1>5, <1>6, <1>7

\* What stays the same while nothing is executed, filled or redeemed.
LEMMA CostsKept ==
  ASSUME ControlInv, AmmStands, Executed' = Executed
  PROVE  AmmCosts' = AmmCosts /\ UserCosts' = UserCosts /\ \A u : ExecutedBy(u)' = ExecutedBy(u)
<1>1. \A q \in Executed : SameTerms(ammQuotes[q], ammQuotes'[q]) /\ q \in DOMAIN ammQuotes'
  BY DEF Executed, AmmStands
<1>2. \A q \in Executed' : q \in DOMAIN ammQuotes
  BY DEF Executed
<1>3. AmmCosts' = AmmCosts /\ UserCosts' = UserCosts
  BY <1>1 DEF AmmCosts, UserCosts, UserTotal, SameTerms
<1>4. ASSUME NEW u PROVE ExecutedBy(u)' = ExecutedBy(u)
  <2>1. ExecutedBy(u) = {q \in Executed : ammQuotes[q].owner = u}
    BY DEF ExecutedBy, Executed
  <2>2. ExecutedBy(u)' = {q \in Executed' : ammQuotes'[q].owner = u}
    BY DEF ExecutedBy, Executed
  <2>3. QED  BY <1>1, <2>1, <2>2 DEF SameTerms
<1>5. QED  BY <1>3, <1>4

\* What somebody put into a fill does not change,
LEMMA CostToSame ==
  ASSUME ControlInv, RfqStands, NEW u, NEW f, Known(f)
  PROVE  CostTo(u, f)' = CostTo(u, f)
<1>1. SameRequest(requests[f.request], requests'[f.request]) /\ SameQuote(rfqQuotes[f.quote], rfqQuotes'[f.quote])
  BY DEF RfqStands, Known
<1>2. QED  BY <1>1 DEF SameRequest, SameQuote, CostTo, CostOn, SideOf

\* nor into all fills, while none is added.
LEMMA FillCostsKept ==
  ASSUME ControlInv, RfqStands, rfqFills' = rfqFills
  PROVE  \A u : FillCosts(u)' = FillCosts(u)
BY CostToSame, FillKnown DEF FillCosts

\* Nor what the redeemed positions paid.
LEMMA PaidKept ==
  ASSUME redeemed' = redeemed, \A x \in redeemed : result'[x.market] = result[x.market]
  PROVE  \A u : Paid(u, redeemed)' = Paid(u, redeemed)
BY DEF Paid, PaidOf, BuyerPayout

\* What is redeemed stays a redeemed position, and is the same money.
LEMMA RedeemedKept ==
  ASSUME ControlInv, LedgerInv, AmmStands, RfqStands, redeemed' = redeemed,
         Positions \subseteq Positions', \A x \in redeemed : result'[x.market] = result[x.market]
  PROVE  /\ redeemed' \subseteq Positions' /\ \A x \in redeemed' : result'[x.market] # Null
         /\ \A u : SumFunctionOnSet(Paid(u, redeemed), redeemed)'
                     = SumFunctionOnSet(Paid(u, redeemed), redeemed)
<1>1. \A u : Paid(u, redeemed)' = Paid(u, redeemed)
  BY PaidKept
<1>2. QED  BY <1>1 DEF LedgerInv

\* A step without trade: nothing executed, filled or redeemed.
LEMMA NoTrade ==
  ASSUME ControlInv, LedgerInv, AmmStands, RfqStands, UNCHANGED <<Executed, rfqFills, redeemed, available, escrow>>,
         \A x \in redeemed : result'[x.market] = result[x.market],
         treasury' - treasury = SumFunctionOnSet(Funding', Pools) - SumFunctionOnSet(Funding, Pools),
         treasury' \in Int, SumFunctionOnSet(Funding', Pools) \in Int
  PROVE  LedgerInv'
<1>1. Positions' = Positions
  BY PositionsMove DEF Positions
<1>2. /\ redeemed' \subseteq Positions' /\ \A x \in redeemed' : result'[x.market] # Null
      /\ \A u : SumFunctionOnSet(Paid(u, redeemed), redeemed)'
                  = SumFunctionOnSet(Paid(u, redeemed), redeemed)
  BY <1>1, RedeemedKept
<1>3. Unpaid' = Unpaid
  BY <1>1 DEF Unpaid
<1>4. (SumFunctionOnSet(Worth(Unpaid), Unpaid))' = SumFunctionOnSet(Worth(Unpaid), Unpaid)
  BY <1>3 DEF Worth
<1>5. /\ AmmCosts' = AmmCosts /\ UserCosts' = UserCosts /\ \A u : ExecutedBy(u)' = ExecutedBy(u)
      /\ \A u : FillCosts(u)' = FillCosts(u)
  BY CostsKept, FillCostsKept
<1>6. \A u : Balance(u)' = Balance(u)
  BY <1>2, <1>5 DEF Balance
<1>7. treasury' = Reserve'
  <2>1. PICK a, b, c, d : /\ a = SumFunctionOnSet(Funding, Pools) /\ b = SumFunctionOnSet(Paid(Treasury, redeemed), redeemed)
                          /\ c = SumFunctionOnSet(AmmCosts, Executed) /\ d = SumFunctionOnSet(Funding', Pools)
    OBVIOUS
  <2>2. treasury = a + b - c /\ a \in Int /\ b \in Int /\ c \in Int
    BY <2>1, LedgerTypes DEF LedgerInv, Reserve
  <2>3. Reserve' = d + b - c
    BY <1>2, <1>5, <2>1 DEF Reserve
  <2>4. treasury' - treasury = d - a /\ treasury' \in Int /\ d \in Int
    BY <2>1
  <2>5. treasury' = d + b - c
    <3>1. PICK t, u : t = treasury /\ u = treasury'
      OBVIOUS
    <3>2. t = a + b - c /\ u - t = d - a /\ u \in Int
      BY <2>2, <2>4, <3>1
    <3>3. u = d + b - c
      BY <2>2, <2>4, <3>2
    <3>4. QED  BY <3>1, <3>3
  <2>6. QED  BY <2>3, <2>5
<1>8. QED  BY <1>2, <1>3, <1>4, <1>6, <1>7 DEF LedgerInv

\* The treasury is an integer.
LEMMA TreasuryInt == ASSUME ControlInv, LedgerInv PROVE treasury \in Int
<1>1. PICK a, b, c : /\ a = SumFunctionOnSet(Funding, Pools) /\ b = SumFunctionOnSet(Paid(Treasury, redeemed), redeemed)
                     /\ c = SumFunctionOnSet(AmmCosts, Executed)
  OBVIOUS
<1>2. a \in Int /\ b \in Int /\ c \in Int /\ treasury = a + b - c
  BY <1>1, LedgerTypes DEF LedgerInv, Reserve
<1>3. QED  BY <1>2

\* A step that moves no money, and a result.
LEMMA QuietLedger ==
  ASSUME ControlInv, LedgerInv, AmmStands, RfqStands, Quiet
  PROVE  LedgerInv'
<1>1. /\ UNCHANGED <<Executed, rfqFills, redeemed, available, escrow, treasury, result>> /\ Funding' = Funding
  BY DEF Quiet, SamePools, SameExposure, Funding
<1>2. /\ SumFunctionOnSet(Funding', Pools) = SumFunctionOnSet(Funding, Pools)
      /\ SumFunctionOnSet(Funding, Pools) \in Int /\ treasury \in Int
  BY <1>1, LedgerTypes, TreasuryInt DEF LedgerInv
<1>3. QED  BY <1>1, <1>2, NoTrade

\* A result pays nothing by itself: no position of its market is redeemed yet.
LEMMA ResultLedger ==
  ASSUME ControlInv, LedgerInv, AmmStands, RfqStands, NEW m \in Markets, NEW r \in Results, FinalizeResolution(m, r)
  PROVE  LedgerInv'
<1>1. /\ UNCHANGED <<Executed, rfqFills, redeemed, available, escrow, treasury>> /\ Funding' = Funding
      /\ result[m] = Null /\ result' = [result EXCEPT ![m] = r]
  BY DEF FinalizeResolution, ledger, ammVars, rfqVars, Executed, Funding
<1>2. \A x \in redeemed : result'[x.market] = result[x.market]
  <2> TAKE x \in redeemed
  <2>1. x.market # m /\ x.market \in Markets
    BY <1>1, PositionTerms DEF LedgerInv
  <2>2. QED  BY <1>1, <2>1 DEF ControlInv, MarketsOK
<1>3. /\ SumFunctionOnSet(Funding', Pools) = SumFunctionOnSet(Funding, Pools)
      /\ SumFunctionOnSet(Funding, Pools) \in Int /\ treasury \in Int
  BY <1>1, LedgerTypes, TreasuryInt DEF LedgerInv
<1>4. QED  BY <1>1, <1>2, <1>3, NoTrade

\* Money for a pool.
LEMMA FundedPool ==
  ASSUME ControlInv, NEW p \in Pools, NEW a \in Fundings, FundsPool(p, a)
  PROVE  /\ pool'[p].funded = pool[p].funded + a /\ a \in Nat
         /\ pool'[p].shares = pool[p].shares /\ pool'[p].subsidy = pool[p].subsidy
         /\ pool'[p].loss = pool[p].loss
         /\ \A x \in Pools : x # p => pool'[x] = pool[x]
<1>1. PICK row : row = [pool[p] EXCEPT !.funded = @ + a]
  OBVIOUS
<1>2. pool[p] \in PoolRow /\ a \in Nat /\ pool \in [Pools -> PoolRow]
  BY PoolsAssumption DEF ControlInv, RowsOK
<1>3. /\ row.funded = pool[p].funded + a /\ row.shares = pool[p].shares
      /\ row.subsidy = pool[p].subsidy /\ row.loss = pool[p].loss
  BY <1>1, <1>2 DEF PoolRow
<1>4. pool' = [pool EXCEPT ![p] = row]
  BY <1>1 DEF FundsPool, FundAmm
<1>5. pool'[p] = row /\ \A x \in Pools : x # p => pool'[x] = pool[x]
  BY <1>2, <1>4
<1>6. QED  BY <1>2, <1>3, <1>5

\* What finance funds is what the treasury has more.
LEMMA FundLedger ==
  ASSUME ControlInv, LedgerInv, AmmStands, RfqStands, NEW p \in Pools, NEW a \in Fundings, FundsPool(p, a)
  PROVE  LedgerInv'
<1>1. /\ UNCHANGED <<Executed, rfqFills, redeemed, available, escrow, result>> /\ treasury' = treasury + a
  BY DEF FundsPool, FundAmm, rfqVars, resolution, Executed
<1>2. PICK f, g : f = Funding /\ g = Funding'
  OBVIOUS
<1>3. \A x \in Pools : f[x] \in Int /\ g[x] \in Int
  <2>1. \A x \in Pools : pool[x].funded \in Int /\ pool'[x].funded \in Int
    BY FundedPool, CostTypes
  <2>2. QED  BY <1>2, <2>1 DEF Funding
<1>4. g[p] = f[p] + a /\ \A x \in Pools \ {p} : g[x] = f[x]
  BY <1>2, FundedPool DEF Funding
<1>5. SumFunctionOnSet(g, Pools) = SumFunctionOnSet(f, Pools) - f[p] + g[p]
  <2>1. IsFiniteSet(Pools)
    BY PoolsAssumption
  <2>2. QED  BY <1>3, <1>4, <2>1, SumUpdate
<1>6. PICK t, s, r : t = treasury /\ s = SumFunctionOnSet(f, Pools) /\ r = SumFunctionOnSet(g, Pools)
  OBVIOUS
<1>7. s \in Int /\ t \in Int /\ a \in Int /\ f[p] \in Int /\ g[p] = f[p] + a /\ r = s - f[p] + g[p]
  BY <1>2, <1>3, <1>4, <1>5, <1>6, LedgerTypes, TreasuryInt, FundedPool DEF LedgerInv
<1>8. r = s + a /\ treasury' = t + a
  BY <1>1, <1>6, <1>7
<1>9. treasury' - t = r - s /\ treasury' \in Int /\ r \in Int
  BY <1>7, <1>8
<1>10. QED  BY <1>1, <1>2, <1>6, <1>9, NoTrade

\* The escrow of a new position.
LEMMA EscrowGrows ==
  ASSUME ControlInv, LedgerInv, UNCHANGED redeemed, NEW x, x \notin Positions, x.total \in Int,
         Positions' = Positions \cup {x}, escrow' = escrow + x.total
  PROVE  (escrow = SumFunctionOnSet(Worth(Unpaid), Unpaid))'
<1>1. Unpaid' = Unpaid \cup {x} /\ x \notin Unpaid
  BY DEF Unpaid, LedgerInv
<1>2. PICK U, f, g : U = Unpaid /\ f = Worth(Unpaid) /\ g = Worth(Unpaid)'
  OBVIOUS
<1>3. (\A y \in U : f[y] \in Int /\ g[y] = f[y]) /\ g[x] = x.total /\ IsFiniteSet(U)
  <2>1. \A y \in U : f[y] = y.total /\ y.total \in Int
    BY <1>2, PositionTerms DEF Worth, Unpaid
  <2>2. \A y \in U \cup {x} : g[y] = y.total
    BY <1>1, <1>2 DEF Worth
  <2>3. QED  BY <1>2, <2>1, <2>2, LedgerTypes DEF LedgerInv
<1>4. SumFunctionOnSet(g, U \cup {x}) = SumFunctionOnSet(f, U) + g[x]
  <2>1. Extends(g, x, f, U)
    BY <1>1, <1>2, <1>3 DEF Extends
  <2>2. QED  BY <2>1, SumExtended
<1>5. QED  BY <1>1, <1>2, <1>3, <1>4 DEF LedgerInv

\* An execution.
LEMMA CommitSums ==
  ASSUME ControlInv, AmmStands, NEW q \in DOMAIN ammQuotes, q \notin Executed, Executed' = Executed \cup {q},
         NEW o, o = ammQuotes[q].owner
  PROVE  /\ SumFunctionOnSet(AmmCosts, Executed)'
              = SumFunctionOnSet(AmmCosts, Executed) + ammQuotes[q].ammCollateral
         /\ SumFunctionOnSet(UserCosts, ExecutedBy(o))'
              = SumFunctionOnSet(UserCosts, ExecutedBy(o)) + UserTotal(ammQuotes[q])
         /\ \A u : u # o =>
              SumFunctionOnSet(UserCosts, ExecutedBy(u))' = SumFunctionOnSet(UserCosts, ExecutedBy(u))
<1>1. /\ Executed \subseteq DOMAIN ammQuotes /\ IsFiniteSet(Executed)
      /\ \A d \in DOMAIN ammQuotes : SameTerms(ammQuotes[d], ammQuotes'[d])
  BY PositionsFinite DEF Executed, AmmStands
<1>2. PICK S, f, g, h, k : /\ S = Executed /\ f = AmmCosts /\ g = AmmCosts' /\ h = UserCosts /\ k = UserCosts'
  OBVIOUS
<1>3. /\ \A d \in S : f[d] \in Int /\ g[d] = f[d] /\ h[d] \in Int /\ k[d] = h[d]
      /\ g[q] = ammQuotes[q].ammCollateral /\ g[q] \in Int
      /\ k[q] = UserTotal(ammQuotes[q]) /\ k[q] \in Int
  <2>1. \A d \in S : f[d] = ammQuotes[d].ammCollateral /\ h[d] = UserTotal(ammQuotes[d])
    BY <1>2 DEF AmmCosts, UserCosts
  <2>2. \A d \in S \cup {q} : g[d] = ammQuotes'[d].ammCollateral /\ k[d] = UserTotal(ammQuotes'[d])
    BY <1>2 DEF AmmCosts, UserCosts
  <2>3. \A d \in S \cup {q} : /\ ammQuotes'[d].ammCollateral = ammQuotes[d].ammCollateral
                              /\ UserTotal(ammQuotes'[d]) = UserTotal(ammQuotes[d])
                              /\ ammQuotes[d].ammCollateral \in Int /\ UserTotal(ammQuotes[d]) \in Int
    BY <1>1, <1>2, CostTypes DEF SameTerms, UserTotal
  <2>4. QED  BY <2>1, <2>2, <2>3
<1>4. SumFunctionOnSet(g, S \cup {q}) = SumFunctionOnSet(f, S) + g[q]
  <2>1. Extends(g, q, f, S)
    BY <1>1, <1>2, <1>3 DEF Extends
  <2>2. QED  BY <2>1, SumExtended
<1>5. \A u : /\ ExecutedBy(u) = {d \in Executed : ammQuotes[d].owner = u}
             /\ ExecutedBy(u)' = {d \in Executed' : ammQuotes'[d].owner = u}
  BY DEF ExecutedBy, Executed
<1>6. \A d \in S \cup {q} : ammQuotes'[d].owner = ammQuotes[d].owner
  BY <1>1, <1>2 DEF SameTerms
<1>8. PICK T : T = ExecutedBy(o)
  OBVIOUS
<1>9. /\ ExecutedBy(o)' = T \cup {q} /\ q \notin T /\ T \subseteq S
      /\ \A u : u # o => ExecutedBy(u)' = ExecutedBy(u) /\ ExecutedBy(u) \subseteq S
  BY <1>2, <1>5, <1>6, <1>8
<1>10. SumFunctionOnSet(k, T \cup {q}) = SumFunctionOnSet(h, T) + k[q]
  <2>1. IsFiniteSet(T)
    BY <1>1, <1>2, <1>9, FS_Subset
  <2>2. \A d \in T : h[d] \in Int /\ k[d] = h[d]
    BY <1>3, <1>9
  <2>3. Extends(k, q, h, T)
    BY <1>3, <1>9, <2>1, <2>2 DEF Extends
  <2>4. QED  BY <2>3, SumExtended
<1>11. ASSUME NEW u, u # o
       PROVE  SumFunctionOnSet(UserCosts, ExecutedBy(u))' = SumFunctionOnSet(UserCosts, ExecutedBy(u))
  <2>1. PICK V : V = ExecutedBy(u)
    OBVIOUS
  <2>2. ExecutedBy(u)' = V /\ V \subseteq S /\ IsFiniteSet(V)
    BY <1>1, <1>2, <1>9, <1>11, <2>1, FS_Subset
  <2>3. SumFunctionOnSet(k, V) = SumFunctionOnSet(h, V)
    BY <1>3, <2>2, SumEqual
  <2>4. QED  BY <1>2, <2>1, <2>2, <2>3
<1>12. SumFunctionOnSet(AmmCosts, Executed)' = SumFunctionOnSet(AmmCosts, Executed) + ammQuotes[q].ammCollateral
  BY <1>2, <1>3, <1>4
<1>13. SumFunctionOnSet(UserCosts, ExecutedBy(o))'
         = SumFunctionOnSet(UserCosts, ExecutedBy(o)) + UserTotal(ammQuotes[q])
  BY <1>2, <1>3, <1>8, <1>9, <1>10
<1>14. QED  BY <1>11, <1>12, <1>13

\* The pool of an execution.
LEMMA CommitPool ==
  ASSUME ControlInv, NEW c \in Connections, CommitExecution(c)
  PROVE  LET quote == ammQuotes[session[c].of]
             p == quote.pool
         IN /\ p \in Pools /\ pool'[p].funded = pool[p].funded
            /\ pool'[p].shares = pool[p].shares + quote.quantity /\ quote.quantity \in Nat \ {0}
            /\ pool'[p].subsidy = pool[p].subsidy + quote.ammCollateral
            /\ pool'[p].loss = pool[p].loss + quote.ammCollateral /\ quote.ammCollateral \in Nat
            /\ \A x \in Pools : x # p => pool'[x] = pool[x]
<1>1. PICK quote, p : quote = ammQuotes[session[c].of] /\ p = quote.pool
  OBVIOUS
<1>2. quote \in AmmQuote /\ p \in Pools
  BY <1>1, CommitFacts
<1>3. quote.quantity \in Nat \ {0} /\ quote.ammCollateral \in Nat
  BY <1>2 DEF AmmQuote
<1>4. PICK next : next = Exposed(p, quote.quantity, quote.ammCollateral)
  OBVIOUS
<1>5. /\ next.shares = pool[p].shares + quote.quantity
      /\ next.subsidy = pool[p].subsidy + quote.ammCollateral
      /\ next.loss = pool[p].loss + quote.ammCollateral /\ next.funded = pool[p].funded
  BY <1>2, <1>3, <1>4, ExposedFields DEF ControlInv
<1>6. pool' = [pool EXCEPT ![p] = next] /\ pool \in [Pools -> PoolRow]
  BY <1>1, <1>4 DEF CommitExecution, ControlInv, RowsOK
<1>7. pool'[p] = next /\ \A x \in Pools : x # p => pool'[x] = pool[x]
  BY <1>2, <1>6
<1>8. QED  BY <1>1, <1>2, <1>3, <1>5, <1>7

\* The quote of an execution is executed then, not before.
LEMMA CommitExecuted ==
  ASSUME ControlInv, NEW c \in Connections, CommitExecution(c)
  PROVE  /\ session[c].of \in DOMAIN ammQuotes /\ session[c].of \notin Executed
         /\ Executed' = Executed \cup {session[c].of}
<1>1. PICK q : q = session[c].of
  OBVIOUS
<1>2. q \in DOMAIN ammQuotes /\ ammQuotes[q].state = "quoted"
  BY <1>1, CommitFacts
<1>3. ammQuotes' = [ammQuotes EXCEPT ![q].state = "executed"]
  BY <1>1 DEF CommitExecution
<1>4. /\ DOMAIN ammQuotes' = DOMAIN ammQuotes /\ ammQuotes'[q].state = "executed"
      /\ \A d \in DOMAIN ammQuotes : d # q => ammQuotes'[d] = ammQuotes[d]
  BY <1>2, <1>3, ExecutedRow DEF ControlInv
<1>5. q \notin Executed /\ Executed' = Executed \cup {q}
  BY <1>2, <1>4 DEF Executed
<1>6. QED  BY <1>1, <1>2, <1>5

\* An execution takes from its owner and the treasury what its position is worth.
LEMMA CommitLedger ==
  ASSUME ControlInv, LedgerInv, AmmStands, RfqStands, NEW c \in Connections, Commits(c)
  PROVE  LedgerInv'
<1>1. PICK q, quote : q = session[c].of /\ quote = ammQuotes[q]
  OBVIOUS
<1>2. /\ UNCHANGED <<rfqFills, redeemed, result>>
      /\ available' = [available EXCEPT ![quote.owner] = @ - UserTotal(quote)]
      /\ treasury' = treasury - quote.ammCollateral
      /\ escrow' = escrow + quote.userCollateral + quote.ammCollateral
  BY <1>1 DEF Commits, CommitExecution, rfqVars, resolution
<1>3. q \in DOMAIN ammQuotes /\ q \notin Executed /\ Executed' = Executed \cup {q}
  BY <1>1, CommitExecuted DEF Commits
<1>4. PICK x : x = AmmPosition(q)
  OBVIOUS
<1>5. /\ x.kind = "amm" /\ x.of = q /\ x.total = quote.userCollateral + quote.ammCollateral /\ x.total \in Int
      /\ quote.userCollateral \in Nat /\ quote.ammCollateral \in Nat /\ UserTotal(quote) \in Nat
  BY <1>1, <1>3, <1>4, AmmTerms, CostTypes
<1>6. Positions' = Positions \cup {x}
  BY <1>2, <1>3, <1>4, PositionsMove DEF Positions
<1>7. x \notin Positions
  <2>1. ASSUME x \in AmmPositions PROVE FALSE
    <3>1. PICK d \in Executed : x = AmmPosition(d)
      BY <2>1 DEF AmmPositions, Executed
    <3>2. d \in DOMAIN ammQuotes
      BY DEF Executed
    <3>3. x.of = d
      BY <3>1, <3>2, AmmTerms
    <3>4. QED  BY <1>3, <1>5, <3>3
  <2>2. ASSUME x \in RfqPositions PROVE FALSE
    <3>1. PICK f \in rfqFills : x = RfqPosition(f)
      BY <2>2 DEF RfqPositions
    <3>2. x.kind = "rfq"
      BY <3>1, RfqTerms, FillKnown
    <3>3. QED  BY <1>5, <3>2
  <2>3. QED  BY <2>1, <2>2 DEF Positions
<1>8. (escrow = SumFunctionOnSet(Worth(Unpaid), Unpaid))'
  <2>1. escrow \in Int
    BY LedgerTypes DEF LedgerInv
  <2>2. escrow' = escrow + x.total
    BY <1>2, <1>5, <2>1
  <2>3. QED  BY <1>2, <1>5, <1>6, <1>7, <2>2, EscrowGrows
<1>9. /\ redeemed' \subseteq Positions' /\ \A y \in redeemed' : result'[y.market] # Null
      /\ \A u : SumFunctionOnSet(Paid(u, redeemed), redeemed)'
                  = SumFunctionOnSet(Paid(u, redeemed), redeemed)
  BY <1>2, <1>6, RedeemedKept
<1>10. \A u : FillCosts(u)' = FillCosts(u)
  BY <1>2, FillCostsKept
<1>11. Funding' = Funding
  BY CommitPool DEF Funding, Commits
<1>12. /\ SumFunctionOnSet(AmmCosts, Executed)' = SumFunctionOnSet(AmmCosts, Executed) + quote.ammCollateral
       /\ SumFunctionOnSet(UserCosts, ExecutedBy(quote.owner))'
            = SumFunctionOnSet(UserCosts, ExecutedBy(quote.owner)) + UserTotal(quote)
       /\ \A u : u # quote.owner =>
            SumFunctionOnSet(UserCosts, ExecutedBy(u))' = SumFunctionOnSet(UserCosts, ExecutedBy(u))
  <2>1. PICK o : o = quote.owner
    OBVIOUS
  <2>2. /\ SumFunctionOnSet(AmmCosts, Executed)' = SumFunctionOnSet(AmmCosts, Executed) + ammQuotes[q].ammCollateral
        /\ SumFunctionOnSet(UserCosts, ExecutedBy(o))'
             = SumFunctionOnSet(UserCosts, ExecutedBy(o)) + UserTotal(ammQuotes[q])
        /\ \A u : u # o =>
             SumFunctionOnSet(UserCosts, ExecutedBy(u))' = SumFunctionOnSet(UserCosts, ExecutedBy(u))
    BY <1>1, <1>3, <2>1, CommitSums
  <2>3. QED  BY <1>1, <2>1, <2>2
<1>13. treasury' = Reserve'
  <2>1. PICK a, b, d, k : /\ a = SumFunctionOnSet(Funding, Pools) /\ b = SumFunctionOnSet(Paid(Treasury, redeemed), redeemed)
                          /\ d = SumFunctionOnSet(AmmCosts, Executed) /\ k = quote.ammCollateral
    OBVIOUS
  <2>2. a \in Int /\ b \in Int /\ d \in Int /\ k \in Int
    BY <1>5, <2>1, LedgerTypes DEF LedgerInv
  <2>3. Reserve' = a + b - (d + k)
    BY <1>9, <1>11, <1>12, <2>1 DEF Reserve
  <2>4. treasury' = (a + b - d) - k
    BY <1>2, <2>1 DEF LedgerInv, Reserve
  <2>5. QED  BY <2>2, <2>3, <2>4
<1>14. available' = [u \in Users |-> Balance(u)']
  <2>1. quote.owner \in Users
    BY <1>1, CommitFacts DEF Commits, AmmQuote
  <2>2. ASSUME NEW u \in Users PROVE available'[u] = Balance(u)'
    <3>1. PICK n, a, b, d, k : /\ a = SumFunctionOnSet(Paid(u, redeemed), redeemed) /\ n = Funds[u]
                               /\ b = SumFunctionOnSet(UserCosts, ExecutedBy(u))
                               /\ d = SumFunctionOnSet(FillCosts(u), rfqFills) /\ k = UserTotal(quote)
      OBVIOUS
    <3>2. n \in Int /\ a \in Int /\ b \in Int /\ d \in Int /\ k \in Int
      <4>1. Funds[u] \in Nat
        BY FundsAssumption
      <4>2. QED  BY <1>5, <3>1, <4>1, LedgerTypes DEF LedgerInv
    <3>3. available[u] = n + a - b - d
      BY <3>1 DEF LedgerInv, Balance
    <3>4. CASE u = quote.owner
      <4>1. Balance(u)' = n + a - (b + k) - d
        BY <1>2, <1>9, <1>10, <1>12, <3>1, <3>4 DEF Balance
      <4>2. available'[u] = (n + a - b - d) - k
        BY <1>2, <2>1, <3>1, <3>3, <3>4 DEF LedgerInv
      <4>3. QED  BY <3>2, <4>1, <4>2
    <3>5. CASE u # quote.owner
      <4>1. Balance(u)' = n + a - b - d
        BY <1>2, <1>9, <1>10, <1>12, <3>1, <3>5 DEF Balance
      <4>2. available'[u] = available[u]
        BY <1>2, <3>5 DEF LedgerInv
      <4>3. QED  BY <3>3, <4>1, <4>2
    <3>6. QED  BY <3>4, <3>5
  <2>3. available' = [u \in Users |-> available'[u]]
    BY <1>2 DEF LedgerInv
  <2>4. QED  BY <2>2, <2>3
<1>15. QED  BY <1>8, <1>9, <1>13, <1>14 DEF LedgerInv

\* An acceptance.
LEMMA AcceptLedger ==
  ASSUME ControlInv, LedgerInv, AmmStands, RfqStands,
         NEW c \in Connections, NEW q \in DOMAIN rfqQuotes, Accepts(c, q)
  PROVE  LedgerInv'
<1>1. PICK i, new : i = session[c].of /\ new = [request |-> i, quote |-> q]
  OBVIOUS
<1>2. /\ i \in DOMAIN requests /\ WithinPrecision(rfqQuotes[q].price)
      /\ rfqFills' = rfqFills \cup {new} /\ \A f \in rfqFills : f.request # i
  BY <1>1, AcceptFacts DEF Accepts
<1>3. new.request = i /\ new.quote = q /\ Known(new) /\ new \notin rfqFills
  BY <1>1, <1>2 DEF Known
<1>4. /\ UNCHANGED <<redeemed, result, treasury, pool, ammQuotes>>
      /\ escrow' = escrow + requests[i].quantity * ContractUnit
      /\ available' = [u \in Users |-> available[u]
          - (IF u = SideOf(i, q, "buy") THEN FillCost("buy", requests[i].quantity, rfqQuotes[q].price) ELSE 0)
          - (IF u = SideOf(i, q, "sell") THEN FillCost("sell", requests[i].quantity, rfqQuotes[q].price) ELSE 0)]
  BY <1>1 DEF Accepts, AcceptRfqQuote, ammVars, resolution
<1>5. PICK x : x = RfqPosition(new)
  OBVIOUS
<1>6. x.kind = "rfq" /\ x.of = i /\ x.total = requests[i].quantity * ContractUnit /\ x.total \in Int
  BY <1>3, <1>5, RfqTerms
<1>7. Executed' = Executed
  BY <1>4 DEF Executed
<1>8. Positions' = Positions \cup {x}
  BY <1>2, <1>3, <1>5, <1>7, PositionsMove DEF Positions
<1>9. x \notin Positions
  <2>1. ASSUME x \in AmmPositions PROVE FALSE
    <3>1. PICK d \in DOMAIN ammQuotes : x = AmmPosition(d)
      BY <2>1 DEF AmmPositions
    <3>2. x.kind = "amm"
      BY <3>1, AmmTerms
    <3>3. QED  BY <1>6, <3>2
  <2>2. ASSUME x \in RfqPositions PROVE FALSE
    <3>1. PICK f \in rfqFills : x = RfqPosition(f)
      BY <2>2 DEF RfqPositions
    <3>2. x.of = f.request
      BY <3>1, RfqTerms, FillKnown
    <3>3. QED  BY <1>2, <1>6, <3>1, <3>2
  <2>3. QED  BY <2>1, <2>2 DEF Positions
<1>10. (escrow = SumFunctionOnSet(Worth(Unpaid), Unpaid))'
  <2>1. escrow' = escrow + x.total
    BY <1>4, <1>6
  <2>2. QED  BY <1>4, <1>6, <1>8, <1>9, <2>1, EscrowGrows
<1>11. /\ redeemed' \subseteq Positions' /\ \A y \in redeemed' : result'[y.market] # Null
       /\ \A u : SumFunctionOnSet(Paid(u, redeemed), redeemed)'
                   = SumFunctionOnSet(Paid(u, redeemed), redeemed)
  BY <1>4, <1>8, RedeemedKept
<1>12. AmmCosts' = AmmCosts /\ UserCosts' = UserCosts /\ \A u : ExecutedBy(u)' = ExecutedBy(u)
  BY <1>7, CostsKept
<1>13. treasury' = Reserve'
  <2>1. Funding' = Funding
    BY <1>4 DEF Funding
  <2>2. Reserve' = Reserve
    BY <1>7, <1>11, <1>12, <2>1 DEF Reserve
  <2>3. QED  BY <1>4, <2>2 DEF LedgerInv
<1>14. ASSUME NEW u \in Users PROVE available'[u] = Balance(u)'
  <2>1. PICK f, g, S : f = FillCosts(u) /\ g = FillCosts(u)' /\ S = rfqFills
    OBVIOUS
  <2>2. /\ \A y \in S : f[y] = CostTo(u, y) /\ CostTo(u, y) \in Int
        /\ CostTo(u, new) \in Int
    BY <1>3, <2>1, FillKnown, CostTypes DEF FillCosts, CostTo
  <2>3. \A y \in S \cup {new} : g[y] = CostTo(u, y)
    <3> TAKE y \in S \cup {new}
    <3>1. g[y] = CostTo(u, y)'
      BY <1>2, <2>1 DEF FillCosts
    <3>2. Known(y)
      BY <1>3, <2>1, FillKnown
    <3>3. QED  BY <3>1, <3>2, CostToSame
  <2>4. Extends(g, new, f, S)
    BY <1>3, <2>1, <2>2, <2>3, PositionsFinite DEF Extends
  <2>5. SumFunctionOnSet(FillCosts(u), rfqFills)'
          = SumFunctionOnSet(FillCosts(u), rfqFills) + CostTo(u, new)
    BY <1>2, <2>1, <2>3, <2>4, SumExtended
  <2>6. PICK n, a, b, d, k, l : /\ a = SumFunctionOnSet(Paid(u, redeemed), redeemed) /\ n = Funds[u]
                                /\ b = SumFunctionOnSet(UserCosts, ExecutedBy(u))
                                /\ d = SumFunctionOnSet(FillCosts(u), rfqFills)
                                /\ k = CostOn("buy", u, new) /\ l = CostOn("sell", u, new)
    OBVIOUS
  <2>7. n \in Int /\ a \in Int /\ b \in Int /\ d \in Int /\ k \in Int /\ l \in Int
    <3>1. Funds[u] \in Nat
      BY FundsAssumption
    <3>2. QED  BY <1>3, <2>6, <3>1, LedgerTypes, CostTypes DEF LedgerInv
  <2>8. available[u] = n + a - b - d
    BY <2>6 DEF LedgerInv, Balance
  <2>9. available'[u] = (n + a - b - d) - k - l
    BY <1>3, <1>4, <2>6, <2>8 DEF CostOn
  <2>10. Balance(u)' = n + a - b - (d + (k + l))
    BY <1>4, <1>11, <1>12, <2>5, <2>6 DEF Balance, CostTo
  <2>11. QED  BY <2>7, <2>9, <2>10
<1>15. available' = [u \in Users |-> Balance(u)']
  BY <1>4, <1>14
<1>16. QED  BY <1>10, <1>11, <1>13, <1>15 DEF LedgerInv

\* A batch of redemptions.
LEMMA RedeemLedger ==
  ASSUME ControlInv, LedgerInv, AmmStands, RfqStands, NEW m \in Markets, RedeemBatchOf(m)
  PROVE  LedgerInv'
<1>1. PICK S : /\ S \subseteq Unpaid /\ \A x \in S : x.market = m
               /\ escrow' = escrow - Totals(S)
               /\ available' = [u \in Users |-> available[u] + PaidTo(u, S)]
               /\ treasury' = treasury + PaidTo(Treasury, S)
               /\ redeemed' = redeemed \cup S
  BY DEF RedeemBatchOf, kSubset, Unredeemed, Unpaid, Positions
<1>2. result[m] # Null /\ UNCHANGED <<result, rfqFills, ammQuotes, pool>>
  BY DEF RedeemBatchOf, ammVars, rfqVars
<1>3. Executed' = Executed
  BY <1>2 DEF Executed
<1>4. Positions' = Positions
  BY <1>2, <1>3, PositionsMove DEF Positions
<1>5. redeemed' \subseteq Positions' /\ \A x \in redeemed' : result'[x.market] # Null
  BY <1>1, <1>2, <1>4 DEF LedgerInv, Unpaid
<1>6. /\ redeemed \cap S = {} /\ IsFiniteSet(redeemed) /\ IsFiniteSet(S) /\ S \subseteq Positions
      /\ redeemed \subseteq Positions
  <2>1. IsFiniteSet(redeemed) /\ IsFiniteSet(Unpaid)
    BY LedgerTypes DEF LedgerInv
  <2>2. QED  BY <1>1, <2>1, FS_Subset DEF Unpaid, LedgerInv
<1>7. (escrow = SumFunctionOnSet(Worth(Unpaid), Unpaid))'
  <2>1. PICK U, V : U = Unpaid /\ V = Unpaid'
    OBVIOUS
  <2>2. V \cup S = U /\ V \cap S = {}
    BY <1>1, <1>4, <2>1 DEF Unpaid
  <2>3. PICK f, g, h : f = Worth(V) /\ g = Worth(S) /\ h = Worth(U)
    OBVIOUS
  <2>4. /\ \A x \in V : f[x] \in Int /\ h[x] = f[x]
        /\ \A x \in S : g[x] \in Int /\ h[x] = g[x]
    <3>1. \A x \in U : x.total \in Int
      BY <2>1, PositionTerms DEF Unpaid
    <3>2. QED  BY <2>2, <2>3, <3>1 DEF Worth
  <2>5. IsFiniteSet(V)
    <3>1. IsFiniteSet(U) /\ V \subseteq U
      BY <2>1, <2>2, LedgerTypes DEF LedgerInv
    <3>2. QED  BY <3>1, FS_Subset
  <2>6. /\ SumFunctionOnSet(h, V \cup S) = SumFunctionOnSet(f, V) + SumFunctionOnSet(g, S)
        /\ SumFunctionOnSet(f, V) \in Int /\ SumFunctionOnSet(g, S) \in Int
    <3>1. Joins(h, f, V, g, S)
      BY <1>6, <2>2, <2>4, <2>5 DEF Joins
    <3>2. QED  BY <3>1, SumUnion
  <2>7. escrow = SumFunctionOnSet(h, U) /\ Totals(S) = SumFunctionOnSet(g, S)
    BY <2>1, <2>3, WorthTotals DEF LedgerInv
  <2>8. escrow' = SumFunctionOnSet(f, V)
    <3>1. PICK e, a, b : e = escrow /\ a = SumFunctionOnSet(f, V) /\ b = SumFunctionOnSet(g, S)
      OBVIOUS
    <3>2. e = a + b /\ a \in Int /\ b \in Int /\ escrow' = e - b
      BY <1>1, <2>2, <2>6, <2>7, <3>1
    <3>3. e - b = a
      BY <3>2
    <3>4. QED  BY <3>1, <3>2, <3>3
  <2>9. SumFunctionOnSet(Worth(Unpaid), Unpaid)' = SumFunctionOnSet(f, V)
    BY <2>1, <2>3 DEF Worth
  <2>10. QED  BY <2>8, <2>9
<1>8. ASSUME NEW u
      PROVE  /\ SumFunctionOnSet(Paid(u, redeemed), redeemed)'
                  = SumFunctionOnSet(Paid(u, redeemed), redeemed) + PaidTo(u, S)
             /\ SumFunctionOnSet(Paid(u, redeemed), redeemed) \in Int /\ PaidTo(u, S) \in Int
  <2>1. PICK f, g, h : f = Paid(u, redeemed) /\ g = Paid(u, S) /\ h = Paid(u, redeemed)'
    OBVIOUS
  <2>2. \A x : PaidOf(u, x)' = PaidOf(u, x)
    BY <1>2 DEF PaidOf, BuyerPayout
  <2>3. \A x \in redeemed \cup S : h[x] = PaidOf(u, x) /\ PaidOf(u, x) \in Int
    <3>1. \A x \in redeemed \cup S : h[x] = PaidOf(u, x)'
      BY <1>1, <2>1 DEF Paid
    <3>2. QED  BY <1>6, <2>2, <3>1, PaidNat
  <2>4. /\ \A x \in redeemed : f[x] \in Int /\ h[x] = f[x]
        /\ \A x \in S : g[x] \in Int /\ h[x] = g[x]
    BY <2>1, <2>3 DEF Paid
  <2>5. /\ SumFunctionOnSet(h, redeemed \cup S) = SumFunctionOnSet(f, redeemed) + SumFunctionOnSet(g, S)
        /\ SumFunctionOnSet(f, redeemed) \in Int /\ SumFunctionOnSet(g, S) \in Int
    <3>1. PICK R : R = redeemed
      OBVIOUS
    <3>2. /\ SumFunctionOnSet(h, R \cup S) = SumFunctionOnSet(f, R) + SumFunctionOnSet(g, S)
          /\ SumFunctionOnSet(f, R) \in Int /\ SumFunctionOnSet(g, S) \in Int
      <4>1. Joins(h, f, R, g, S)
        BY <1>6, <2>4, <3>1 DEF Joins
      <4>2. QED  BY <4>1, SumUnion
    <3>3. QED  BY <3>1, <3>2
  <2>6. PaidTo(u, S) = SumFunctionOnSet(g, S)
    BY <2>1, PaidTotals
  <2>7. SumFunctionOnSet(Paid(u, redeemed), redeemed)' = SumFunctionOnSet(h, redeemed \cup S)
    BY <1>1, <2>1
  <2>8. QED  BY <2>1, <2>5, <2>6, <2>7
<1>9. /\ AmmCosts' = AmmCosts /\ UserCosts' = UserCosts /\ Funding' = Funding
      /\ (\A u : ExecutedBy(u)' = ExecutedBy(u)) /\ \A u : FillCosts(u)' = FillCosts(u)
  BY <1>2, <1>3, CostsKept, FillCostsKept DEF Funding
<1>10. treasury' = Reserve'
  <2>1. PICK a, b, d, k : /\ a = SumFunctionOnSet(Funding, Pools) /\ b = SumFunctionOnSet(Paid(Treasury, redeemed), redeemed)
                          /\ d = SumFunctionOnSet(AmmCosts, Executed) /\ k = PaidTo(Treasury, S)
    OBVIOUS
  <2>2. a \in Int /\ b \in Int /\ d \in Int /\ k \in Int
    BY <1>8, <2>1, LedgerTypes DEF LedgerInv
  <2>3. Reserve' = a + (b + k) - d
    BY <1>3, <1>8, <1>9, <2>1 DEF Reserve
  <2>4. treasury' = (a + b - d) + k
    BY <1>1, <2>1 DEF LedgerInv, Reserve
  <2>5. QED  BY <2>2, <2>3, <2>4
<1>11. ASSUME NEW u \in Users PROVE available'[u] = Balance(u)'
  <2>1. PICK n, a, b, d, k : /\ a = SumFunctionOnSet(Paid(u, redeemed), redeemed) /\ n = Funds[u]
                             /\ b = SumFunctionOnSet(UserCosts, ExecutedBy(u))
                             /\ d = SumFunctionOnSet(FillCosts(u), rfqFills) /\ k = PaidTo(u, S)
    OBVIOUS
  <2>2. n \in Int /\ a \in Int /\ b \in Int /\ d \in Int /\ k \in Int
    <3>1. Funds[u] \in Nat
      BY FundsAssumption
    <3>2. QED  BY <1>8, <2>1, <3>1, LedgerTypes DEF LedgerInv
  <2>3. available[u] = n + a - b - d
    BY <2>1 DEF LedgerInv, Balance
  <2>4. available'[u] = (n + a - b - d) + k
    BY <1>1, <2>1, <2>3
  <2>5. Balance(u)' = n + (a + k) - b - d
    BY <1>2, <1>8, <1>9, <2>1 DEF Balance
  <2>6. QED  BY <2>2, <2>4, <2>5
<1>12. available' = [u \in Users |-> Balance(u)']
  BY <1>1, <1>11
<1>13. QED  BY <1>5, <1>7, <1>10, <1>12 DEF LedgerInv

\* Every step.
LEMMA LedgerStep ==
  ASSUME ControlInv, LedgerInv, [LiquidityNext]_liquidityVars
  PROVE  LedgerInv'
<1>1. AmmStands /\ RfqStands
  BY ControlStep
<1>2. CASE UNCHANGED liquidityVars
  <2>1. Quiet
    BY <1>2, QuietAmm DEF liquidityVars, ledger, rfqVars
  <2>2. QED  BY <1>1, <2>1, QuietLedger
<1>3. CASE LiquidityNext
  BY <1>1, <1>3, QuietStep, QuietLedger, CommitLedger, AcceptLedger, FundLedger, ResultLedger, RedeemLedger
<1>4. QED  BY <1>2, <1>3

\* At first.
LEMMA LedgerInit == ASSUME LiquidityInit PROVE LedgerInv
<1>1. /\ ammQuotes = <<>> /\ rfqFills = {} /\ redeemed = {} /\ available = Funds /\ escrow = 0 /\ treasury = 0
      /\ pool = [p \in Pools |-> NoPool]
  BY DEF LiquidityInit, BookInit, AmmInit, RfqInit
<1>2. Positions = {} /\ Unpaid = {} /\ Executed = {} /\ \A u : ExecutedBy(u) = {}
  BY <1>1 DEF Positions, Unpaid, AmmPositions, RfqPositions, Executed, ExecutedBy
<1>3. SumFunctionOnSet(Worth(Unpaid), Unpaid) = 0 /\ SumFunctionOnSet(AmmCosts, Executed) = 0
  BY <1>2, SumEmpty
<1>4. \A u : /\ SumFunctionOnSet(Paid(u, redeemed), redeemed) = 0
             /\ SumFunctionOnSet(UserCosts, ExecutedBy(u)) = 0
             /\ SumFunctionOnSet(FillCosts(u), rfqFills) = 0
  BY <1>1, <1>2, SumEmpty
<1>5. SumFunctionOnSet(Funding, Pools) = 0
  <2>1. \A p \in Pools : Funding[p] = 0
    BY <1>1 DEF Funding, NoPool
  <2>2. QED  BY <2>1, PoolsAssumption, SumZero
<1>6. treasury = Reserve
  BY <1>1, <1>3, <1>4, <1>5 DEF Reserve
<1>7. available = [u \in Users |-> Balance(u)]
  <2>1. \A u \in Users : Funds[u] \in Nat /\ Balance(u) = Funds[u] + 0 - 0 - 0
    BY <1>4, FundsAssumption DEF Balance
  <2>2. \A u \in Users : Balance(u) = Funds[u]
    BY <2>1
  <2>3. QED  BY <1>1, <2>2, FundsAssumption
<1>8. QED  BY <1>1, <1>2, <1>3, <1>6, <1>7 DEF LedgerInv

\* So money follows positions, always.
LEMMA LedgerHolds == LiquiditySpec => [](ControlInv /\ LedgerInv)
<1>1. LiquidityInit => LedgerInv
  BY LedgerInit
<1>2. ControlInv /\ LedgerInv /\ [LiquidityNext]_liquidityVars => LedgerInv'
  BY LedgerStep
<1>3. QED  BY <1>1, <1>2, ControlHolds, PTL DEF LiquiditySpec

\* The sums of the model: what pools are funded with, what the treasury and a user
\* put into executed quotes, and what a user put into fills.
LEMMA FundingTotals == MapThenSumSet(LAMBDA p : pool[p].funded, Pools) = SumFunctionOnSet(Funding, Pools)
<1> DEFINE F == Funding
           D(s) == s = [T \in SUBSET Pools |-> IF T = {} THEN 0 ELSE pool[Pick(T)].funded + s[T \ {Pick(T)}]]
           E(s) == Defines(s, F, Pools)
<1>1. MapThenSumSet(LAMBDA p : pool[p].funded, Pools) = (CHOOSE s : D(s))[Pools]
  BY DEF MapThenSumSet, MapThenFoldSet, Pick
<1>2. SumFunctionOnSet(F, Pools) = (CHOOSE s : E(s))[Pools]
  BY SumDef
<1>3. \A T \in SUBSET Pools : T # {} => F[Pick(T)] = pool[Pick(T)].funded
  BY PickIn DEF Funding
<1> HIDE DEF F
<1>4. ASSUME NEW s PROVE D(s) <=> E(s)
  BY <1>3 DEF Defines
<1> HIDE DEF D, E
<1>5. (CHOOSE s : D(s)) = (CHOOSE s : E(s))
  BY <1>4
<1>6. QED  BY <1>1, <1>2, <1>5 DEF F

\* What the treasury put into executed quotes.
LEMMA AmmTotals ==
  MapThenSumSet(LAMBDA q : ammQuotes[q].ammCollateral, Executed) = SumFunctionOnSet(AmmCosts, Executed)
<1> DEFINE F == AmmCosts
           S == Executed
           D(s) == s = [T \in SUBSET S |-> IF T = {} THEN 0 ELSE ammQuotes[Pick(T)].ammCollateral + s[T \ {Pick(T)}]]
           E(s) == Defines(s, F, S)
<1>1. MapThenSumSet(LAMBDA q : ammQuotes[q].ammCollateral, S) = (CHOOSE s : D(s))[S]
  BY DEF MapThenSumSet, MapThenFoldSet, Pick
<1>2. SumFunctionOnSet(F, S) = (CHOOSE s : E(s))[S]
  BY SumDef
<1>3. \A T \in SUBSET S : T # {} => F[Pick(T)] = ammQuotes[Pick(T)].ammCollateral
  BY PickIn DEF AmmCosts
<1> HIDE DEF F
<1>4. ASSUME NEW s PROVE D(s) <=> E(s)
  BY <1>3 DEF Defines
<1> HIDE DEF D, E
<1>5. (CHOOSE s : D(s)) = (CHOOSE s : E(s))
  BY <1>4
<1>6. QED  BY <1>1, <1>2, <1>5 DEF F

\* What a user put into them.
LEMMA UserTotals ==
  ASSUME NEW u
  PROVE  MapThenSumSet(LAMBDA q : UserTotal(ammQuotes[q]), ExecutedBy(u)) = SumFunctionOnSet(UserCosts, ExecutedBy(u))
<1> DEFINE F == UserCosts
           S == ExecutedBy(u)
           D(s) == s = [T \in SUBSET S |-> IF T = {} THEN 0 ELSE UserTotal(ammQuotes[Pick(T)]) + s[T \ {Pick(T)}]]
           E(s) == Defines(s, F, S)
<1>1. MapThenSumSet(LAMBDA q : UserTotal(ammQuotes[q]), S) = (CHOOSE s : D(s))[S]
  BY DEF MapThenSumSet, MapThenFoldSet, Pick
<1>2. SumFunctionOnSet(F, S) = (CHOOSE s : E(s))[S]
  BY SumDef
<1>3. \A T \in SUBSET S : T # {} => F[Pick(T)] = UserTotal(ammQuotes[Pick(T)])
  BY PickIn DEF UserCosts, ExecutedBy, Executed
<1> HIDE DEF F
<1>4. ASSUME NEW s PROVE D(s) <=> E(s)
  BY <1>3 DEF Defines
<1> HIDE DEF D, E
<1>5. (CHOOSE s : D(s)) = (CHOOSE s : E(s))
  BY <1>4
<1>6. QED  BY <1>1, <1>2, <1>5 DEF F

SidesCost(u, f) == MapThenSumSet(LAMBDA dir :
  IF SideOf(f.request, f.quote, dir) = u
    THEN FillCost(dir, requests[f.request].quantity, rfqQuotes[f.quote].price) ELSE 0,
  OrderSide)
FillsCost(u) == MapThenSumSet(LAMBDA f : SidesCost(u, f), rfqFills)
\* What a user put into a fill, on either side or both,
LEMMA SidesTotals ==
  ASSUME ControlInv, NEW u, NEW f, Known(f)
  PROVE  SidesCost(u, f) = CostTo(u, f)
<1> DEFINE F == [dir \in OrderSide |-> CostOn(dir, u, f)]
           V(dir) == IF SideOf(f.request, f.quote, dir) = u
                        THEN FillCost(dir, requests[f.request].quantity, rfqQuotes[f.quote].price) ELSE 0
           S == OrderSide
           D(s) == s = [T \in SUBSET S |-> IF T = {} THEN 0 ELSE V(Pick(T)) + s[T \ {Pick(T)}]]
           E(s) == Defines(s, F, S)
<1>1. MapThenSumSet(V, S) = (CHOOSE s : D(s))[S]
  BY DEF MapThenSumSet, MapThenFoldSet, Pick
<1>2. SumFunctionOnSet(F, S) = (CHOOSE s : E(s))[S]
  BY SumDef
<1>3. \A T \in SUBSET S : T # {} => F[Pick(T)] = V(Pick(T))
  BY PickIn DEF CostOn
<1>4. OrderSide = {"buy"} \cup {"sell"} /\ F["buy"] = CostOn("buy", u, f) /\ F["sell"] = CostOn("sell", u, f)
  BY DEF OrderSide
<1> HIDE DEF F, V
<1>5. ASSUME NEW s PROVE D(s) <=> E(s)
  BY <1>3 DEF Defines
<1> HIDE DEF D, E
<1>6. (CHOOSE s : D(s)) = (CHOOSE s : E(s))
  BY <1>5
<1> HIDE DEF S
<1>7. SumFunctionOnSet(F, S) = CostTo(u, f)
  <2>1. CostOn("buy", u, f) \in Int /\ CostOn("sell", u, f) \in Int
    BY CostTypes
  <2>2. SumFunctionOnSet(F, {"buy"}) = F["buy"]
    <3>1. SumFunctionOnSet(F, {} \cup {"buy"}) = F["buy"] + SumFunctionOnSet(F, {})
      BY <1>4, <2>1, SumAdd, FS_EmptySet
    <3>2. QED  BY <1>4, <2>1, <3>1, SumEmpty
  <2>3. SumFunctionOnSet(F, {"buy"} \cup {"sell"}) = F["sell"] + SumFunctionOnSet(F, {"buy"})
    <3>1. PICK B : B = {"buy"}
      OBVIOUS
    <3>2. IsFiniteSet(B) /\ "sell" \notin B /\ \A x \in B \cup {"sell"} : F[x] \in Int
      <4>1. IsFiniteSet({} \cup {"buy"})
        BY FS_EmptySet, FS_AddElement
      <4>2. QED  BY <1>4, <2>1, <3>1, <4>1
    <3>3. SumFunctionOnSet(F, B \cup {"sell"}) = F["sell"] + SumFunctionOnSet(F, B)
      BY <3>2, SumAdd
    <3>4. QED  BY <3>1, <3>3
  <2>4. QED  BY <1>4, <2>1, <2>2, <2>3 DEF S, CostTo
<1>8. MapThenSumSet(V, S) = CostTo(u, f)
  BY <1>1, <1>2, <1>6, <1>7
<1>9. QED  BY <1>8 DEF S, V, SidesCost

\* and into all fills.
LEMMA FillSums ==
  ASSUME ControlInv, NEW u
  PROVE  FillsCost(u) = SumFunctionOnSet(FillCosts(u), rfqFills)
<1> DEFINE F == FillCosts(u)
           V(f) == SidesCost(u, f)
           S == rfqFills
           D(s) == s = [T \in SUBSET S |-> IF T = {} THEN 0 ELSE V(Pick(T)) + s[T \ {Pick(T)}]]
           E(s) == Defines(s, F, S)
<1>0. \A f \in S : F[f] = V(f)
  <2>1. ASSUME NEW f \in S PROVE V(f) = CostTo(u, f)
    BY FillKnown, SidesTotals
  <2>2. QED  BY <2>1 DEF FillCosts
<1>1. MapThenSumSet(V, S) = (CHOOSE s : D(s))[S]
  <2> HIDE DEF V
  <2>1. QED  BY DEF MapThenSumSet, MapThenFoldSet, Pick
<1>2. SumFunctionOnSet(F, S) = (CHOOSE s : E(s))[S]
  BY SumDef
<1> HIDE DEF F, V
<1>3. \A T \in SUBSET S : T # {} => F[Pick(T)] = V(Pick(T))
  BY <1>0, PickIn
<1>4. ASSUME NEW s PROVE D(s) <=> E(s)
  BY <1>3 DEF Defines
<1> HIDE DEF D, E
<1>5. (CHOOSE s : D(s)) = (CHOOSE s : E(s))
  BY <1>4
<1>6. MapThenSumSet(V, S) = SumFunctionOnSet(F, S)
  BY <1>1, <1>2, <1>5
<1>7. QED  BY <1>6 DEF F, V, FillsCost

\* Money follows the positions.
LEMMA LedgerExplained == ASSUME ControlInv, LedgerInv PROVE LedgerFollowsPositions
<1>1. escrow = Totals((AmmPositions \cup RfqPositions) \ redeemed)
  BY WorthTotals DEF LedgerInv, Unpaid, Positions
<1>2. treasury = MapThenSumSet(LAMBDA p : pool[p].funded, Pools) + PaidTo(Treasury, redeemed)
        - MapThenSumSet(LAMBDA q : ammQuotes[q].ammCollateral,
            {q \in DOMAIN ammQuotes : ammQuotes[q].state = "executed"})
  BY FundingTotals, AmmTotals, PaidTotals DEF LedgerInv, Reserve, Executed
<1>3. ASSUME NEW u \in Users
      PROVE  available[u] = Funds[u] + PaidTo(u, redeemed)
       - MapThenSumSet(LAMBDA q : UserTotal(ammQuotes[q]),
           {q \in DOMAIN ammQuotes : ammQuotes[q].owner = u /\ ammQuotes[q].state = "executed"})
       - MapThenSumSet(LAMBDA f : MapThenSumSet(LAMBDA dir :
             IF SideOf(f.request, f.quote, dir) = u
               THEN FillCost(dir, requests[f.request].quantity, rfqQuotes[f.quote].price) ELSE 0,
             OrderSide), rfqFills)
  <2>1. available[u] = Balance(u)
    BY DEF LedgerInv
  <2>2. QED  BY <2>1, UserTotals, FillSums, PaidTotals DEF Balance, ExecutedBy, FillsCost, SidesCost
<1>4. QED  BY <1>1, <1>2, <1>3 DEF LedgerFollowsPositions

\* The market escrow, the treasury and every user's balance are what the positions made of them: money moves only with a position, its redemption or the funding of a pool.
THEOREM LedgerIsExplained == LiquiditySpec => []LedgerFollowsPositions
<1>1. ControlInv /\ LedgerInv => LedgerFollowsPositions
  BY LedgerExplained
<1>2. QED  BY <1>1, LedgerHolds, PTL

(***************************************************************************)
(* Capacity.                                                               *)
(***************************************************************************)
Losses == [p \in Pools |-> pool[p].loss]

\* Pool p has room for an execution of this size.
Fits(p, contracts, collateral) ==
  /\ pool[p].shares + contracts <= Limits[p].inventory /\ pool[p].subsidy + collateral <= Limits[p].subsidy
  /\ pool[p].loss + collateral <= Limits[p].loss /\ pool[p].subsidy + collateral <= pool[p].funded
PoolOK(p) ==
  /\ pool[p].shares <= Limits[p].inventory /\ pool[p].subsidy <= Limits[p].subsidy
  /\ pool[p].loss <= Limits[p].loss /\ pool[p].subsidy <= pool[p].funded
  /\ pool[p].subsidy = pool[p].loss /\ (pool[p].shares = 0 => pool[p].loss = 0)

\* What a session has checked still holds when it commits.
Covered(s) ==
  s.book # Null => LET quote == ammQuotes[s.of]
                   IN /\ Fits(quote.pool, quote.quantity, quote.ammCollateral)
                      /\ UserTotal(quote) <= available[quote.owner]

CapacityInv ==
  /\ \A p \in Pools : PoolOK(p)
  /\ SumFunctionOnSet(Losses, Pools) = SumFunctionOnSet(AmmCosts, Executed)
  /\ available \in [Users -> Nat]
  /\ \A c \in Connections : Covered(session[c])

\* A step that leaves what session d has checked as it is, or better.
Leaves(d) ==
  session[d].book # Null =>
    LET quote == ammQuotes[session[d].of]
        p == quote.pool
    IN /\ pool'[p].shares = pool[p].shares /\ pool'[p].subsidy = pool[p].subsidy
       /\ pool'[p].loss = pool[p].loss /\ pool[p].funded <= pool'[p].funded
       /\ pool'[p].funded \in Nat
       /\ available[quote.owner] <= available'[quote.owner] /\ available'[quote.owner] \in Nat

\* The quote of a session that has checked it.
LEMMA CheckedQuote ==
  ASSUME ControlInv, NEW d \in Connections, session[d].book # Null
  PROVE  LET quote == ammQuotes[session[d].of] IN
         /\ session[d].of \in DOMAIN ammQuotes /\ quote \in AmmQuote /\ quote.pool \in Pools
         /\ quote.owner \in Users /\ session[d].owner = quote.owner /\ session[d].book = quote.pool.market
         /\ session[d].op = "execute" /\ quote.state = "quoted"
<1>1. ExecutesOK(session[d]) /\ ChecksOK(session[d])
  BY DEF ControlInv, SessionsOK
<1>2. /\ session[d].of \in DOMAIN ammQuotes /\ session[d].owner = ammQuotes[session[d].of].owner
      /\ session[d].book = ammQuotes[session[d].of].pool.market /\ session[d].op = "execute"
      /\ ammQuotes[session[d].of].state = "quoted"
  BY <1>1 DEF ExecutesOK, ChecksOK
<1>3. ammQuotes[session[d].of] \in AmmQuote
  BY <1>2 DEF ControlInv, RowsOK
<1>4. QED  BY <1>2, <1>3 DEF AmmQuote

\* The numbers of a pool.
LEMMA PoolNats ==
  ASSUME ControlInv, NEW p \in Pools
  PROVE  /\ pool[p].shares \in Nat /\ pool[p].subsidy \in Nat /\ pool[p].loss \in Nat /\ pool[p].funded \in Nat
         /\ Limits[p].inventory \in Nat /\ Limits[p].subsidy \in Nat /\ Limits[p].loss \in Nat
BY PoolsAssumption DEF ControlInv, RowsOK, PoolRow

\* A check outlives a step that leaves its pool and its owner's money as they are.
LEMMA CoveredKept ==
  ASSUME ControlInv, CapacityInv, AmmStands, NEW d \in Connections, session'[d] = session[d], Leaves(d)
  PROVE  Covered(session[d])'
<1>1. SUFFICES ASSUME session[d].book # Null
               PROVE  Covered(session[d])'
  BY DEF Covered
<1>2. PICK i, quote, after, p : /\ i = session[d].of /\ quote = ammQuotes[i] /\ after = ammQuotes'[i] /\ p = quote.pool
  OBVIOUS
<1>3. /\ i \in DOMAIN ammQuotes /\ quote \in AmmQuote /\ p \in Pools /\ SameTerms(quote, after)
  BY <1>1, <1>2, CheckedQuote DEF AmmStands
<1>4. /\ after.pool = p /\ after.quantity = quote.quantity /\ after.ammCollateral = quote.ammCollateral
      /\ after.owner = quote.owner /\ UserTotal(after) = UserTotal(quote)
  BY <1>2, <1>3 DEF SameTerms, UserTotal
<1>5. Fits(p, quote.quantity, quote.ammCollateral) /\ UserTotal(quote) <= available[quote.owner]
  BY <1>1, <1>2 DEF CapacityInv, Covered
<1>6. /\ quote.quantity \in Nat /\ quote.ammCollateral \in Nat /\ UserTotal(quote) \in Nat
      /\ quote.owner \in Users
  BY <1>3 DEF AmmQuote, UserTotal
<1>7. (Fits(p, quote.quantity, quote.ammCollateral))'
  <2>1. PICK n, k, s, u, l, f, g : /\ n = quote.quantity /\ k = quote.ammCollateral /\ s = pool[p].shares /\ u = pool[p].subsidy
                             /\ l = pool[p].loss /\ f = pool[p].funded /\ g = pool'[p].funded
    OBVIOUS
  <2>2. pool'[p].shares = s /\ pool'[p].subsidy = u /\ pool'[p].loss = l /\ f <= g /\ g \in Nat
    BY <1>1, <1>2, <2>1 DEF Leaves
  <2>3. n \in Nat /\ k \in Nat /\ u \in Nat /\ f \in Nat /\ u + k <= f
    BY <1>3, <1>5, <1>6, <2>1, PoolNats DEF Fits
  <2>4. u + k <= g
    BY <2>2, <2>3
  <2>5. s + n <= Limits[p].inventory /\ u + k <= Limits[p].subsidy /\ l + k <= Limits[p].loss
    BY <1>5, <2>1 DEF Fits
  <2>6. /\ pool'[p].shares + n <= Limits[p].inventory /\ pool'[p].subsidy + k <= Limits[p].subsidy
        /\ pool'[p].loss + k <= Limits[p].loss /\ pool'[p].subsidy + k <= pool'[p].funded
    BY <2>1, <2>2, <2>4, <2>5
  <2>7. QED  BY <2>1, <2>6 DEF Fits
<1>8. UserTotal(quote) <= available'[quote.owner]
  <2>1. available[quote.owner] <= available'[quote.owner] /\ available'[quote.owner] \in Nat
    BY <1>1, <1>2 DEF Leaves
  <2>2. available[quote.owner] \in Nat
    BY <1>6 DEF CapacityInv
  <2>3. PICK a, b, n : a = available[quote.owner] /\ b = available'[quote.owner] /\ n = UserTotal(quote)
    OBVIOUS
  <2>4. QED  BY <1>5, <1>6, <2>1, <2>2, <2>3
<1>9. (Fits(after.pool, after.quantity, after.ammCollateral))'
  BY <1>4, <1>7 DEF Fits
<1>10. UserTotal(after) <= available'[after.owner]
  BY <1>4, <1>8
<1>11. ammQuotes'[session'[d].of] = after
  BY <1>2
<1>12. QED  BY <1>9, <1>10, <1>11 DEF Covered, Fits, UserTotal

\* Between two steps a session keeps its book, has just checked, or has none.
LEMMA SessionSteps ==
  ASSUME ControlInv, LiquidityNext, NEW d \in Connections, session'[d].book # Null
  PROVE  session'[d] = session[d] \/ CheckExecution(d)
<1> DEFINE I == Idle
<1>1. I.book = Null
  BY DEF Idle
<1> HIDE DEF I
<1>2. ASSUME NEW c \in Connections, EndCommand(c) PROVE session'[d] = session[d]
  <2>1. session' = [session EXCEPT ![c] = I]
    BY <1>2 DEF EndCommand, I
  <2>2. QED  BY <1>1, <2>1 DEF ControlInv, RowsOK
<1>3. ASSUME NEW c \in Connections, NEW op, NEW of, NEW m, BeginCommand(c, op, of, m)
      PROVE  session'[d] = session[d]
  <2>1. session' = [session EXCEPT ![c] =
                     [op |-> op, of |-> of, asOf |-> now, book |-> Null, owner |-> Null]]
    BY <1>3, BegunRow
  <2>2. QED  BY <2>1 DEF ControlInv, RowsOK
<1>4. ASSUME NEW c \in Connections, CheckExecution(c) PROVE session'[d] = session[d] \/ CheckExecution(d)
  <2>1. CASE c = d
    BY <1>4, <2>1
  <2>2. CASE c # d
    <3>1. session' = [session EXCEPT ![c].book = ammQuotes[session[c].of].pool.market,
                                     ![c].owner = ammQuotes[session[c].of].owner]
      BY <1>4 DEF CheckExecution
    <3>2. QED  BY <2>2, <3>1 DEF ControlInv, RowsOK
  <2>3. QED  BY <2>1, <2>2
<1>5. CASE AmmNext
  <2>1. CASE \/ \E p \in Pools, impact \in Impacts : ActivateAmm(p, impact)
             \/ \E p \in Pools, amount \in Fundings : FundAmm(p, amount)
             \/ \E p \in Pools, r \in References : RecordAmmReference(p, r)
    BY <2>1 DEF ActivateAmm, FundAmm, RecordAmmReference
  <2>2. CASE \E u \in Users, p \in Pools, dir \in OrderSide, contracts \in Sizes, cap \in LimitPrices :
               CreateAmmQuote(u, p, dir, contracts, cap)
    BY <2>2 DEF CreateAmmQuote
  <2>3. CASE \E c \in Connections, q \in DOMAIN ammQuotes : StartExecution(c, q)
    BY <1>3, <2>3 DEF StartExecution
  <2>4. CASE \E c \in Connections : CheckExecution(c)
    BY <1>4, <2>4
  <2>5. CASE \E c \in Connections : CommitExecution(c)
    BY <1>2, <2>5 DEF CommitExecution
  <2>6. QED  BY <1>5, <2>1, <2>2, <2>3, <2>4, <2>5 DEF AmmNext
<1>6. CASE RfqNext
  <2>1. CASE \E u \in Users, e \in Entities, m \in Markets, o \in Outcomes, dir \in RequestSides,
                contracts \in Sizes, expires \in Expiries : CreateRfqRequest(u, e, m, o, dir, contracts, expires)
    BY <2>1 DEF CreateRfqRequest
  <2>2. CASE \E c \in Connections, i \in DOMAIN requests : StartRfqQuote(c, i) \/ StartAcceptance(c, i)
    BY <1>3, <2>2 DEF StartRfqQuote, StartAcceptance
  <2>3. CASE \E c \in Connections, u \in Users, e \in Entities, price \in RfqPrices, expires \in Expiries :
               CreateRfqQuote(c, u, e, price, expires)
    BY <1>2, <2>3 DEF CreateRfqQuote
  <2>4. CASE \E c \in Connections, q \in DOMAIN rfqQuotes : AcceptRfqQuote(c, q)
    BY <1>2, <2>4 DEF AcceptRfqQuote
  <2>5. CASE \E i \in DOMAIN requests : CancelRfqRequest(i)
    BY <2>5 DEF CancelRfqRequest
  <2>6. QED  BY <1>6, <2>1, <2>2, <2>3, <2>4, <2>5 DEF RfqNext
<1>7. CASE \E c \in Connections : Rollback(c)
  BY <1>2, <1>7 DEF Rollback
<1>8. CASE \/ Tick \/ \E m \in Offered : HaltBook(m) \/ CloseBook(m) \/ RedeemBatchOf(m)
           \/ \E m \in Offered, r \in Results : FinalizeResolution(m, r)
  BY <1>8 DEF Tick, HaltBook, CloseBook, RedeemBatchOf, FinalizeResolution
<1>9. QED  BY <1>5, <1>6, <1>7, <1>8 DEF LiquidityNext

\* The checks before an execution.
LEMMA CheckCovers ==
  ASSUME ControlInv, CapacityInv, AmmStands, NEW d \in Connections, CheckExecution(d)
  PROVE  Covered(session[d])'
<1>1. PICK i, quote, p : i = session[d].of /\ quote = ammQuotes[i] /\ p = quote.pool
  OBVIOUS
<1>2. /\ session[d].op = "execute" /\ UNCHANGED <<pool, ammQuotes, available>>
      /\ WithinLimits(p, Exposed(p, quote.quantity, quote.ammCollateral))
      /\ available[quote.owner] >= UserTotal(quote)
  BY <1>1 DEF CheckExecution, ledger, ammVars
<1>3. i \in DOMAIN ammQuotes /\ quote \in AmmQuote
  <2>1. ExecutesOK(session[d])
    BY DEF ControlInv, SessionsOK
  <2>2. QED  BY <1>1, <1>2, <2>1 DEF ExecutesOK, ControlInv, RowsOK
<1>4. p \in Pools /\ quote.quantity \in Nat /\ quote.ammCollateral \in Nat /\ quote.owner \in Users /\ UserTotal(quote) \in Nat
  BY <1>1, <1>3 DEF AmmQuote, UserTotal
<1>5. Fits(p, quote.quantity, quote.ammCollateral)
  <2>1. PICK next : next = Exposed(p, quote.quantity, quote.ammCollateral)
    OBVIOUS
  <2>2. /\ next.shares = pool[p].shares + quote.quantity
        /\ next.subsidy = pool[p].subsidy + quote.ammCollateral
        /\ next.loss = pool[p].loss + quote.ammCollateral /\ next.funded = pool[p].funded
    BY <1>4, <2>1, ExposedFields DEF ControlInv
  <2>3. WithinLimits(p, next)
    BY <1>2, <2>1
  <2>4. QED  BY <2>2, <2>3 DEF WithinLimits, Fits
<1>6. session'[d].of = i
  <2>1. session' = [session EXCEPT ![d].book = quote.pool.market, ![d].owner = quote.owner]
    BY <1>1 DEF CheckExecution
  <2>2. session[d] \in SessionRow /\ session \in [Connections -> SessionRow]
    BY DEF ControlInv, RowsOK
  <2>3. PICK r, s, t : /\ r = session[d] /\ s = [r EXCEPT !.book = quote.pool.market]
                       /\ t = [s EXCEPT !.owner = quote.owner]
    OBVIOUS
  <2>4. session'[d] = t
    BY <2>1, <2>2, <2>3
  <2>5. t.of = s.of /\ s.of = r.of
    BY <2>2, <2>3 DEF SessionRow
  <2>6. QED  BY <1>1, <2>3, <2>4, <2>5
<1>7. UserTotal(quote) <= available[quote.owner]
  <2>1. available[quote.owner] \in Nat
    BY <1>4 DEF CapacityInv
  <2>2. PICK a, b : a = available[quote.owner] /\ b = UserTotal(quote)
    OBVIOUS
  <2>3. QED  BY <1>2, <1>4, <2>1, <2>2
<1>8. ammQuotes'[session'[d].of] = quote
  BY <1>1, <1>2, <1>6
<1>9. (Fits(p, quote.quantity, quote.ammCollateral))' /\ UserTotal(quote) <= available'[quote.owner]
  BY <1>2, <1>5, <1>7 DEF Fits
<1>10. QED  BY <1>1, <1>8, <1>9 DEF Covered, Fits, UserTotal

\* The sums of the losses while pools and executed quotes stay as they are.
LEMMA PoolsKept ==
  ASSUME ControlInv, CapacityInv, AmmStands, Executed' = Executed,
         \A p \in Pools : /\ pool'[p].shares = pool[p].shares /\ pool'[p].subsidy = pool[p].subsidy
                          /\ pool'[p].loss = pool[p].loss /\ pool[p].funded <= pool'[p].funded
                          /\ pool'[p].funded \in Nat
  PROVE  /\ \A p \in Pools : PoolOK(p)'
         /\ (SumFunctionOnSet(Losses, Pools) = SumFunctionOnSet(AmmCosts, Executed))'
<1>1. ASSUME NEW p \in Pools PROVE PoolOK(p)'
  <2>1. PICK u, f, g : u = pool[p].subsidy /\ f = pool[p].funded /\ g = pool'[p].funded
    OBVIOUS
  <2>2. u <= f /\ f <= g /\ u \in Nat /\ f \in Nat /\ g \in Nat
    BY <2>1, PoolNats DEF CapacityInv, PoolOK
  <2>3. u <= g
    BY <2>2
  <2>4. QED  BY <2>1, <2>3 DEF CapacityInv, PoolOK
<1>2. Losses' = Losses
  BY DEF Losses
<1>3. AmmCosts' = AmmCosts
  BY CostsKept
<1>4. QED  BY <1>1, <1>2, <1>3 DEF CapacityInv

\* Steps that execute nothing keep the capacity, whatever they fund or pay, as long as
\* the users whose quotes have been checked lose nothing.
PoolsStand ==
  \A p \in Pools : /\ pool'[p].shares = pool[p].shares /\ pool'[p].subsidy = pool[p].subsidy
                   /\ pool'[p].loss = pool[p].loss /\ pool[p].funded <= pool'[p].funded
                   /\ pool'[p].funded \in Nat
UsersStand ==
  /\ available' \in [Users -> Nat]
  /\ \A d \in Connections : session[d].book # Null /\ session[d].owner \in Users =>
       available[session[d].owner] <= available'[session[d].owner]

\* Steps that execute nothing keep the capacity.
LEMMA CapacityKept ==
  ASSUME ControlInv, CapacityInv, LiquidityNext, AmmStands, Executed' = Executed, PoolsStand, UsersStand
  PROVE  CapacityInv'
<1>1. /\ \A p \in Pools : PoolOK(p)'
      /\ (SumFunctionOnSet(Losses, Pools) = SumFunctionOnSet(AmmCosts, Executed))'
  BY PoolsKept DEF PoolsStand
<1>2. ASSUME NEW d \in Connections, session'[d].book # Null PROVE Covered(session[d])'
  <2>1. CASE session'[d] = session[d]
    <3>1. session[d].book # Null
      BY <1>2, <2>1
    <3>2. PICK quote, p : quote = ammQuotes[session[d].of] /\ p = quote.pool
      OBVIOUS
    <3>3. p \in Pools /\ quote.owner \in Users /\ session[d].owner = quote.owner
      BY <3>1, <3>2, CheckedQuote
    <3>4. available[quote.owner] <= available'[quote.owner] /\ available'[quote.owner] \in Nat
      BY <3>1, <3>3 DEF UsersStand
    <3>5. Leaves(d)
      BY <3>2, <3>3, <3>4 DEF Leaves, PoolsStand
    <3>6. QED  BY <2>1, <3>5, CoveredKept
  <2>2. CASE CheckExecution(d)
    BY <2>2, CheckCovers
  <2>3. QED  BY <1>2, <2>1, <2>2, SessionSteps
<1>3. \A d \in Connections : Covered(session[d])'
  <2> TAKE d \in Connections
  <2>1. CASE session'[d].book # Null
    BY <1>2, <2>1
  <2>2. CASE session'[d].book = Null
    BY <2>2 DEF Covered
  <2>3. QED  BY <2>1, <2>2
<1>4. QED  BY <1>1, <1>3 DEF CapacityInv, UsersStand

\* Users stand while nobody's balance changes,
LEMMA StandsSame ==
  ASSUME ControlInv, CapacityInv, UNCHANGED available
  PROVE  UsersStand
<1>1. \A u \in Users : available[u] \in Nat /\ available[u] <= available[u]
  BY DEF CapacityInv
<1>2. QED  BY <1>1 DEF UsersStand, CapacityInv

\* and pools while no exposure does.
LEMMA PoolsSame ==
  ASSUME ControlInv, SamePools
  PROVE  PoolsStand
<1>1. \A p \in Pools : pool[p].funded \in Nat /\ pool[p].funded <= pool[p].funded
  BY PoolNats
<1>2. QED  BY <1>1 DEF PoolsStand, SamePools, SameExposure

\* Funding makes room.
LEMMA FundCapacity ==
  ASSUME ControlInv, CapacityInv, LiquidityNext, AmmStands, NEW p \in Pools, NEW a \in Fundings, FundsPool(p, a)
  PROVE  CapacityInv'
<1>1. UNCHANGED available /\ Executed' = Executed
  BY DEF FundsPool, FundAmm, Executed
<1>2. PoolsStand
  <2> SUFFICES ASSUME NEW x \in Pools
               PROVE  /\ pool'[x].shares = pool[x].shares /\ pool'[x].subsidy = pool[x].subsidy
                      /\ pool'[x].loss = pool[x].loss /\ pool[x].funded <= pool'[x].funded
                      /\ pool'[x].funded \in Nat
    BY DEF PoolsStand
  <2>1. pool[x].funded \in Nat
    BY PoolNats
  <2>2. CASE x = p
    <3>1. PICK f, g : f = pool[x].funded /\ g = pool'[x].funded
      OBVIOUS
    <3>2. g = f + a /\ a \in Nat /\ f \in Nat
      BY <2>1, <2>2, <3>1, FundedPool
    <3>3. f <= g /\ g \in Nat
      BY <3>2
    <3>4. QED  BY <2>2, <3>1, <3>3, FundedPool
  <2>3. CASE x # p
    <3>1. pool'[x] = pool[x]
      BY <2>3, FundedPool
    <3>2. pool[x].funded <= pool[x].funded
      BY <2>1
    <3>3. QED  BY <2>1, <3>1, <3>2
  <2>4. QED  BY <2>2, <2>3
<1>3. QED  BY <1>1, <1>2, StandsSame, CapacityKept

\* An acceptance takes from two owners nobody else holds.
LEMMA AcceptCapacity ==
  ASSUME ControlInv, CapacityInv, LiquidityNext, AmmStands,
         NEW c \in Connections, NEW q \in DOMAIN rfqQuotes, Accepts(c, q)
  PROVE  CapacityInv'
<1>1. PICK i, n, x, y : /\ i = session[c].of /\ n = requests[i].quantity
                        /\ x = FillCost("buy", n, rfqQuotes[q].price) /\ y = FillCost("sell", n, rfqQuotes[q].price)
  OBVIOUS
<1>2. PICK buyer, seller : buyer = SideOf(i, q, "buy") /\ seller = SideOf(i, q, "sell")
  OBVIOUS
<1>3. /\ requests[i] \in RequestRow /\ rfqQuotes[q] \in RfqQuote /\ WithinPrecision(rfqQuotes[q].price)
      /\ rfqQuotes[q].owner # requests[i].owner
  BY <1>1, AcceptFacts DEF Accepts
<1>4. x \in Nat /\ y \in Nat
  <2>1. n \in Nat /\ rfqQuotes[q].price \in Price
    BY <1>1, <1>3 DEF RequestRow, RfqQuote
  <2>2. QED  BY <1>1, <1>3, <2>1, CostsType
<1>5. buyer \in Users /\ seller \in Users /\ buyer # seller
  BY <1>2, <1>3 DEF SideOf, RequestRow, RfqQuote, OrderSide
<1>6. /\ UNCHANGED ammVars
      /\ OwnerFree(buyer) /\ OwnerFree(seller) /\ available[buyer] >= x /\ available[seller] >= y
      /\ available' = [u \in Users |-> available[u] - (IF u = buyer THEN x ELSE 0)
                                                    - (IF u = seller THEN y ELSE 0)]
  BY <1>1, <1>2 DEF Accepts, AcceptRfqQuote, OrderSide
<1>7. \A u \in Users : available[u] \in Nat
  BY DEF CapacityInv
<1>8. ASSUME NEW u \in Users
      PROVE  available'[u] \in Nat /\ (u # buyer /\ u # seller => available'[u] = available[u])
  <2>1. PICK a : a = available[u]
    OBVIOUS
  <2>2. a \in Nat /\ available'[u] = a - (IF u = buyer THEN x ELSE 0) - (IF u = seller THEN y ELSE 0)
    BY <1>6, <1>7, <2>1
  <2>3. (u = buyer => a >= x) /\ (u = seller => a >= y)
    BY <1>6, <2>1
  <2>4. QED  BY <1>4, <1>5, <2>1, <2>2, <2>3
<1>9. UsersStand
  <2>1. \A d \in Connections : session[d].owner # buyer /\ session[d].owner # seller
    BY <1>6 DEF OwnerFree
  <2>2. available' \in [Users -> Nat]
    BY <1>6, <1>8
  <2>3. \A u \in Users : available[u] <= available[u]
    BY <1>7
  <2>4. QED  BY <1>8, <2>1, <2>2, <2>3 DEF UsersStand
<1>10. PoolsStand /\ Executed' = Executed
  <2>1. UNCHANGED <<pool, ammQuotes>>
    BY <1>6 DEF ammVars
  <2>2. SamePools
    BY <2>1 DEF SamePools, SameExposure
  <2>3. QED  BY <2>1, <2>2, PoolsSame DEF Executed
<1>11. QED  BY <1>9, <1>10, CapacityKept

\* A redemption pays, and takes from nobody.
LEMMA RedeemCapacity ==
  ASSUME ControlInv, LedgerInv, CapacityInv, LiquidityNext, AmmStands, NEW m \in Markets, RedeemBatchOf(m)
  PROVE  CapacityInv'
<1>1. PICK S : /\ S \subseteq Unpaid
               /\ available' = [u \in Users |-> available[u] + PaidTo(u, S)]
  BY DEF RedeemBatchOf, kSubset, Unredeemed, Unpaid, Positions
<1>2. UNCHANGED <<pool, ammQuotes>>
  BY DEF RedeemBatchOf, ammVars
<1>3. SamePools /\ Executed' = Executed
  BY <1>2 DEF SamePools, SameExposure, Executed
<1>4. ASSUME NEW u \in Users PROVE available'[u] \in Nat /\ available[u] <= available'[u]
  <2>1. IsFiniteSet(S) /\ S \subseteq Positions
    BY <1>1, LedgerTypes, FS_Subset DEF LedgerInv, Unpaid
  <2>2. \A x \in S : Paid(u, S)[x] \in Nat
    BY <2>1, PaidNat DEF Paid
  <2>3. PaidTo(u, S) \in Nat
    BY <2>1, <2>2, PaidTotals, SumNat
  <2>4. PICK a, k : a = available[u] /\ k = PaidTo(u, S)
    OBVIOUS
  <2>5. a \in Nat /\ k \in Nat /\ available'[u] = a + k
    BY <1>1, <2>3, <2>4 DEF CapacityInv
  <2>6. QED  BY <2>4, <2>5
<1>5. UsersStand
  BY <1>1, <1>4 DEF UsersStand
<1>6. QED  BY <1>3, <1>5, PoolsSame, CapacityKept

\* An execution adds the same to the losses of its pool and to the costs of the treasury.
LEMMA CommitLosses ==
  ASSUME ControlInv, CapacityInv, AmmStands, NEW c \in Connections, CommitExecution(c)
  PROVE  (SumFunctionOnSet(Losses, Pools) = SumFunctionOnSet(AmmCosts, Executed))'
<1>1. PICK q, quote, p, k, o : /\ q = session[c].of /\ quote = ammQuotes[q] /\ p = quote.pool
                               /\ k = quote.ammCollateral /\ o = quote.owner
  OBVIOUS
<1>2. /\ p \in Pools /\ pool'[p].loss = pool[p].loss + k /\ k \in Nat
      /\ \A x \in Pools : x # p => pool'[x] = pool[x]
  BY <1>1, CommitPool
<1>3. q \in DOMAIN ammQuotes /\ q \notin Executed /\ Executed' = Executed \cup {q}
  BY <1>1, CommitExecuted
<1>4. SumFunctionOnSet(AmmCosts, Executed)' = SumFunctionOnSet(AmmCosts, Executed) + k
  BY <1>1, <1>3, CommitSums
<1>5. PICK f, g : f = Losses /\ g = Losses'
  OBVIOUS
<1>6. /\ \A x \in Pools : f[x] = pool[x].loss /\ g[x] = pool'[x].loss
      /\ \A x \in Pools : pool[x].loss \in Nat
  BY <1>5, PoolNats DEF Losses
<1>7. /\ \A x \in Pools : f[x] \in Int /\ g[x] \in Int
      /\ g[p] = f[p] + k /\ \A x \in Pools \ {p} : g[x] = f[x]
  BY <1>2, <1>6
<1>8. SumFunctionOnSet(g, Pools) = SumFunctionOnSet(f, Pools) - f[p] + g[p]
  <2>1. IsFiniteSet(Pools)
    BY PoolsAssumption
  <2>2. QED  BY <1>2, <1>7, <2>1, SumUpdate
<1>9. PICK a, b, l : a = SumFunctionOnSet(f, Pools) /\ b = SumFunctionOnSet(g, Pools) /\ l = f[p]
  OBVIOUS
<1>10. a \in Int /\ l \in Int /\ b = a - l + (l + k)
  BY <1>2, <1>7, <1>8, <1>9, PoolsAssumption, SumType
<1>11. b = a + k
  BY <1>2, <1>10
<1>12. QED  BY <1>4, <1>5, <1>9, <1>11 DEF CapacityInv

\* An execution uses what was checked; others hold other books, so other pools, and other owners.
LEMMA CommitCapacity ==
  ASSUME ControlInv, CapacityInv, LiquidityNext, AmmStands, NEW c \in Connections, Commits(c)
  PROVE  CapacityInv'
<1>1. PICK q, quote, p, n, k : /\ q = session[c].of /\ quote = ammQuotes[q] /\ p = quote.pool
                               /\ n = quote.quantity /\ k = quote.ammCollateral
  OBVIOUS
<1>2. /\ quote \in AmmQuote /\ session[c].book # Null /\ session[c].book = p.market
      /\ session[c].owner = quote.owner /\ session[c].op = "execute"
  BY <1>1, CommitFacts DEF Commits
<1>3. /\ p \in Pools /\ n \in Nat \ {0} /\ k \in Nat
      /\ pool'[p].shares = pool[p].shares + n /\ pool'[p].subsidy = pool[p].subsidy + k
      /\ pool'[p].loss = pool[p].loss + k /\ pool'[p].funded = pool[p].funded
      /\ \A x \in Pools : x # p => pool'[x] = pool[x]
  BY <1>1, CommitPool DEF Commits
<1>4. Fits(p, n, k) /\ UserTotal(quote) <= available[quote.owner]
  BY <1>1, <1>2 DEF CapacityInv, Covered
<1>5. ASSUME NEW x \in Pools PROVE PoolOK(x)'
  <2>1. CASE x = p
    <3>1. PICK s, u, l, f : s = pool[p].shares /\ u = pool[p].subsidy /\ l = pool[p].loss /\ f = pool[p].funded
      OBVIOUS
    <3>2. s \in Nat /\ u \in Nat /\ l \in Nat /\ u = l
      BY <1>3, <3>1, PoolNats DEF CapacityInv, PoolOK
    <3>3. s + n # 0 /\ u + k = l + k
      BY <1>3, <3>2
    <3>4. QED  BY <1>3, <1>4, <2>1, <3>1, <3>3 DEF Fits, PoolOK
  <2>2. CASE x # p
    BY <1>3, <2>2 DEF CapacityInv, PoolOK
  <2>3. QED  BY <2>1, <2>2
<1>6. /\ available' = [available EXCEPT ![quote.owner] = @ - UserTotal(quote)]
      /\ quote.owner \in Users /\ UserTotal(quote) \in Nat
  BY <1>1, <1>2 DEF Commits, CommitExecution, AmmQuote, UserTotal
<1>7. \A u \in Users : available'[u] \in Nat /\ (u # quote.owner => available'[u] = available[u])
  <2> TAKE u \in Users
  <2>1. PICK a, b, t : a = available[u] /\ b = available'[u] /\ t = UserTotal(quote)
    OBVIOUS
  <2>2. a \in Nat
    BY <2>1 DEF CapacityInv
  <2>3. b = IF u = quote.owner THEN a - t ELSE a
    BY <1>6, <2>1 DEF CapacityInv
  <2>4. u = quote.owner => t <= a
    BY <1>4, <2>1
  <2>5. QED  BY <1>6, <2>1, <2>2, <2>3, <2>4
<1>8. available' \in [Users -> Nat]
  BY <1>6, <1>7 DEF CapacityInv
<1>9. ASSUME NEW d \in Connections, session'[d].book # Null PROVE Covered(session[d])'
  <2>1. d # c /\ session'[d] = session[d]
    <3>1. session'[c] = Idle /\ \A e \in Connections : e # c => session'[e] = session[e]
      BY EndedRow DEF Commits, CommitExecution, ControlInv
    <3>2. QED  BY <1>9, <3>1 DEF Idle
  <2>2. session[d].book # Null /\ Apart(session[c], session[d])
    BY <1>9, <2>1 DEF ControlInv, SessionsOK
  <2>3. PICK other, x : other = ammQuotes[session[d].of] /\ x = other.pool
    OBVIOUS
  <2>4. /\ other.owner \in Users /\ x \in Pools /\ session[d].owner = other.owner /\ session[d].book = x.market
    BY <2>2, <2>3, CheckedQuote
  <2>5. x # p /\ other.owner # quote.owner
    BY <1>2, <2>2, <2>4 DEF Apart
  <2>6. /\ pool'[x] = pool[x] /\ available'[other.owner] = available[other.owner]
        /\ available[other.owner] \in Nat /\ pool[x].funded \in Nat
    BY <1>3, <1>7, <2>4, <2>5, PoolNats DEF CapacityInv
  <2>7. available[other.owner] <= available[other.owner] /\ pool[x].funded <= pool[x].funded
    BY <2>6
  <2>8. Leaves(d)
    BY <2>3, <2>6, <2>7 DEF Leaves
  <2>9. QED  BY <2>1, <2>8, CoveredKept
<1>10. \A d \in Connections : Covered(session[d])'
  <2> TAKE d \in Connections
  <2>1. CASE session'[d].book # Null
    BY <1>9, <2>1
  <2>2. CASE session'[d].book = Null
    BY <2>2 DEF Covered
  <2>3. QED  BY <2>1, <2>2
<1>11. (SumFunctionOnSet(Losses, Pools) = SumFunctionOnSet(AmmCosts, Executed))'
  BY CommitLosses DEF Commits
<1>12. QED  BY <1>5, <1>8, <1>10, <1>11 DEF CapacityInv

\* Each step.
LEMMA CapacityStep ==
  ASSUME ControlInv, LedgerInv, CapacityInv, [LiquidityNext]_liquidityVars
  PROVE  CapacityInv'
<1>1. AmmStands
  BY ControlStep
<1>2. CASE UNCHANGED liquidityVars
  <2>1. UNCHANGED <<pool, ammQuotes, available, session>>
    BY <1>2 DEF liquidityVars, ammVars, ledger
  <2>2. Losses' = Losses /\ AmmCosts' = AmmCosts /\ Executed' = Executed
    BY <2>1 DEF Losses, AmmCosts, Executed
  <2>3. \A p \in Pools : PoolOK(p)' <=> PoolOK(p)
    BY <2>1 DEF PoolOK
  <2>4. \A c \in Connections : Covered(session[c])' <=> Covered(session[c])
    BY <2>1 DEF Covered, Fits, UserTotal
  <2>5. QED  BY <2>1, <2>2, <2>3, <2>4 DEF CapacityInv
<1>3. CASE LiquidityNext
  <2>1. CASE Quiet
    <3>1. Executed' = Executed /\ UNCHANGED available /\ SamePools
      BY <2>1 DEF Quiet
    <3>2. QED  BY <1>1, <1>3, <3>1, PoolsSame, StandsSame, CapacityKept
  <2>2. CASE \E c \in Connections : Commits(c)
    BY <1>1, <1>3, <2>2, CommitCapacity
  <2>3. CASE \E c \in Connections, q \in DOMAIN rfqQuotes : Accepts(c, q)
    BY <1>1, <1>3, <2>3, AcceptCapacity
  <2>4. CASE \E p \in Pools, a \in Fundings : FundsPool(p, a)
    BY <1>1, <1>3, <2>4, FundCapacity
  <2>5. CASE \E m \in Markets, r \in Results : FinalizeResolution(m, r)
    <3>1. UNCHANGED <<pool, ammQuotes, available>>
      BY <2>5 DEF FinalizeResolution, ammVars, ledger
    <3>2. SamePools /\ Executed' = Executed
      BY <3>1 DEF SamePools, SameExposure, Executed
    <3>3. QED  BY <1>1, <1>3, <3>1, <3>2, PoolsSame, StandsSame, CapacityKept
  <2>6. CASE \E m \in Markets : RedeemBatchOf(m)
    BY <1>1, <1>3, <2>6, RedeemCapacity
  <2>7. QED  BY <1>3, <2>1, <2>2, <2>3, <2>4, <2>5, <2>6, QuietStep
<1>4. QED  BY <1>2, <1>3

\* At first pools are empty.
LEMMA CapacityInit == ASSUME LiquidityInit PROVE CapacityInv
<1>1. /\ ammQuotes = <<>> /\ available = Funds /\ pool = [p \in Pools |-> NoPool]
      /\ session = [c \in Connections |-> Idle]
  BY DEF LiquidityInit, BookInit, AmmInit
<1>2. \A p \in Pools : /\ pool[p].shares = 0 /\ pool[p].subsidy = 0 /\ pool[p].loss = 0 /\ pool[p].funded = 0
  BY <1>1 DEF NoPool
<1>3. \A p \in Pools : PoolOK(p)
  <2> TAKE p \in Pools
  <2>1. 0 <= Limits[p].inventory /\ 0 <= Limits[p].subsidy /\ 0 <= Limits[p].loss
    BY PoolsAssumption
  <2>2. QED  BY <1>2, <2>1 DEF PoolOK
<1>4. Executed = {}
  BY <1>1 DEF Executed
<1>5. SumFunctionOnSet(AmmCosts, Executed) = 0
  BY <1>4, SumEmpty
<1>6. SumFunctionOnSet(Losses, Pools) = 0
  <2>1. \A p \in Pools : Losses[p] = 0
    BY <1>2 DEF Losses
  <2>2. QED  BY <2>1, PoolsAssumption, SumZero
<1>7. \A c \in Connections : Covered(session[c])
  BY <1>1 DEF Idle, Covered
<1>8. QED  BY <1>1, <1>3, <1>5, <1>6, <1>7, FundsAssumption DEF CapacityInv

\* So pools stay within their limits, always.
LEMMA CapacityHolds == LiquiditySpec => [](ControlInv /\ LedgerInv /\ CapacityInv)
<1>1. LiquidityInit => CapacityInv
  BY CapacityInit
<1>2. ControlInv /\ LedgerInv /\ CapacityInv /\ [LiquidityNext]_liquidityVars => CapacityInv'
  BY CapacityStep
<1>3. QED  BY <1>1, <1>2, LedgerHolds, PTL DEF LiquiditySpec

\* The published limits of the pools that have traded.
Traded      == {p \in Pools : pool[p].shares > 0}
LossLimits  == [p \in Pools |-> Limits[p].loss]
LossBounds  == [p \in Pools |-> IF p \in Traded THEN Limits[p].loss ELSE 0]

\* The limits of the pools that have traded, summed.
LEMMA LimitTotals == MapThenSumSet(LAMBDA p : Limits[p].loss, Traded) = SumFunctionOnSet(LossLimits, Traded)
<1> DEFINE F == LossLimits
           S == Traded
           D(s) == s = [T \in SUBSET S |-> IF T = {} THEN 0 ELSE Limits[Pick(T)].loss + s[T \ {Pick(T)}]]
           E(s) == Defines(s, F, S)
<1>1. MapThenSumSet(LAMBDA p : Limits[p].loss, S) = (CHOOSE s : D(s))[S]
  BY DEF MapThenSumSet, MapThenFoldSet, Pick
<1>2. SumFunctionOnSet(F, S) = (CHOOSE s : E(s))[S]
  BY SumDef
<1>3. \A T \in SUBSET S : T # {} => F[Pick(T)] = Limits[Pick(T)].loss
  BY PickIn DEF LossLimits, Traded
<1> HIDE DEF F
<1>4. ASSUME NEW s PROVE D(s) <=> E(s)
  BY <1>3 DEF Defines
<1> HIDE DEF D, E
<1>5. (CHOOSE s : D(s)) = (CHOOSE s : E(s))
  BY <1>4
<1>6. QED  BY <1>1, <1>2, <1>5 DEF F

\* The losses of all pools are within the limits of those that have traded.
LEMMA LossesBounded ==
  ASSUME ControlInv, CapacityInv
  PROVE  /\ SumFunctionOnSet(Losses, Pools) <= SumFunctionOnSet(LossLimits, Traded)
         /\ SumFunctionOnSet(LossLimits, Traded) \in Int /\ SumFunctionOnSet(Losses, Pools) \in Int
<1>1. PICK P, A, f, g, h : P = Pools /\ A = Traded /\ f = Losses /\ g = LossBounds /\ h = LossLimits
  OBVIOUS
<1>2. IsFiniteSet(P) /\ A \in SUBSET P /\ IsFiniteSet(A) /\ IsFiniteSet(P \ A)
  <2>1. IsFiniteSet(P) /\ A \in SUBSET P
    BY <1>1, PoolsAssumption DEF Traded
  <2>2. QED  BY <2>1, FS_Subset
<1>3. \A p \in P : f[p] \in Int /\ g[p] \in Int /\ f[p] <= g[p]
  <2> TAKE p \in P
  <2>1. /\ pool[p].loss \in Nat /\ pool[p].shares \in Nat /\ Limits[p].loss \in Nat /\ PoolOK(p)
        /\ f[p] = pool[p].loss /\ g[p] = IF pool[p].shares > 0 THEN Limits[p].loss ELSE 0
    BY <1>1, PoolNats DEF CapacityInv, Losses, LossBounds, Traded
  <2>2. QED  BY <2>1 DEF PoolOK
<1>4. SumFunctionOnSet(f, P) <= SumFunctionOnSet(g, P)
  BY <1>2, <1>3, SumLeq
<1>5. SumFunctionOnSet(g, P) = SumFunctionOnSet(g, A) + SumFunctionOnSet(g, P \ A)
  <2>1. \A p \in P : g[p] \in Int
    BY <1>3
  <2>2. QED  BY <1>2, <2>1, SumSplit
<1>6. SumFunctionOnSet(g, P \ A) = 0
  <2>1. \A p \in P \ A : g[p] = 0
    BY <1>1 DEF LossBounds
  <2>2. QED  BY <1>2, <2>1, SumZero
<1>7. SumFunctionOnSet(g, A) = SumFunctionOnSet(h, A) /\ SumFunctionOnSet(h, A) \in Int
  <2>1. \A p \in A : h[p] \in Int /\ g[p] = h[p]
    BY <1>1, <1>2, PoolNats DEF LossBounds, LossLimits
  <2>2. QED  BY <1>2, <2>1, SumEqual, SumType
<1>8. SumFunctionOnSet(f, P) \in Int
  <2>1. \A p \in P : f[p] \in Int
    BY <1>3
  <2>2. QED  BY <1>2, <2>1, SumType
<1>9. QED  BY <1>1, <1>4, <1>5, <1>6, <1>7, <1>8

\* The treasury's balance is its funding and payouts less those losses.
LEMMA TreasurySafe ==
  ASSUME ControlInv, LedgerInv, CapacityInv
  PROVE  LossWithinLimits
<1>1. PICK a, b, d, l : /\ a = SumFunctionOnSet(Funding, Pools) /\ b = SumFunctionOnSet(Paid(Treasury, redeemed), redeemed)
                        /\ d = SumFunctionOnSet(AmmCosts, Executed) /\ l = SumFunctionOnSet(LossLimits, Traded)
  OBVIOUS
<1>2. a \in Int /\ b \in Nat /\ d \in Int
  BY <1>1, LedgerTypes DEF LedgerInv
<1>3. d <= l /\ l \in Int
  BY <1>1, LossesBounded DEF CapacityInv
<1>4. treasury = a + b - d
  BY <1>1 DEF LedgerInv, Reserve
<1>5. treasury + l >= a
  BY <1>2, <1>3, <1>4
<1>6. QED  BY <1>1, <1>5, LimitTotals, FundingTotals DEF LossWithinLimits, Traded

\* Whatever was quoted before other executions, and however markets end, the treasury
\* loses at most the published loss limits of the pools that have traded: the check and
\* the commit of an execution are two steps, and the treasury itself has no lock.
THEOREM LossesWithinLimits == LiquiditySpec => []LossWithinLimits
<1>1. ControlInv /\ LedgerInv /\ CapacityInv => LossWithinLimits
  BY TreasurySafe
<1>2. QED  BY <1>1, CapacityHolds, PTL

\* Fees are never negative.
LEMMA FeesStep ==
  ASSUME ControlInv, fees \in Nat, [LiquidityNext]_liquidityVars
  PROVE  fees' \in Nat
<1>1. CASE UNCHANGED liquidityVars
  BY <1>1 DEF liquidityVars, ledger
<1>2. CASE \E c \in Connections : CommitExecution(c)
  <2>1. PICK c \in Connections : CommitExecution(c)
    BY <1>2
  <2>2. PICK fee : fee = ammQuotes[session[c].of].fee
    OBVIOUS
  <2>3. fees' = fees + fee
    BY <2>1, <2>2 DEF CommitExecution
  <2>4. fee \in Nat
    BY <2>1, <2>2, CommitFacts DEF AmmQuote
  <2>5. QED  BY <2>3, <2>4
<1>3. CASE \E c \in Connections, q \in DOMAIN rfqQuotes : AcceptRfqQuote(c, q)
  <2>1. PICK c \in Connections, q \in DOMAIN rfqQuotes : AcceptRfqQuote(c, q)
    BY <1>3
  <2>2. PICK n, p, x, y : /\ n = requests[session[c].of].quantity /\ p = rfqQuotes[q].price
                          /\ x = ExecutionFee("buy", n, p) /\ y = ExecutionFee("sell", n, p)
    OBVIOUS
  <2>3. fees' = fees + x + y
    BY <2>1, <2>2 DEF AcceptRfqQuote
  <2>4. x \in Nat /\ y \in Nat
    <3>1. n \in Nat /\ p \in Price /\ WithinPrecision(p)
      BY <2>1, <2>2, AcceptFacts DEF RequestRow, RfqQuote
    <3>2. QED  BY <2>2, <3>1, CostsType
  <2>5. QED  BY <2>3, <2>4
<1>4. CASE AmmNext
  <2>1. CASE \/ \E p \in Pools, impact \in Impacts : ActivateAmm(p, impact)
             \/ \E p \in Pools, amount \in Fundings : FundAmm(p, amount)
             \/ \E p \in Pools, r \in References : RecordAmmReference(p, r)
    BY <2>1 DEF ActivateAmm, FundAmm, RecordAmmReference, ledger
  <2>2. CASE \E u \in Users, p \in Pools, dir \in OrderSide, contracts \in Sizes, cap \in LimitPrices :
               CreateAmmQuote(u, p, dir, contracts, cap)
    BY <2>2 DEF CreateAmmQuote, ledger
  <2>3. CASE \/ \E c \in Connections, q \in DOMAIN ammQuotes : StartExecution(c, q)
             \/ \E c \in Connections : CheckExecution(c)
    BY <2>3 DEF StartExecution, CheckExecution, ledger
  <2>4. QED  BY <1>2, <1>4, <2>1, <2>2, <2>3 DEF AmmNext
<1>5. CASE RfqNext
  <2>1. CASE \E u \in Users, e \in Entities, m \in Markets, o \in Outcomes, dir \in RequestSides,
                contracts \in Sizes, expires \in Expiries : CreateRfqRequest(u, e, m, o, dir, contracts, expires)
    BY <2>1 DEF CreateRfqRequest, ledger
  <2>2. CASE \E c \in Connections, i \in DOMAIN requests : StartRfqQuote(c, i) \/ StartAcceptance(c, i)
    BY <2>2 DEF StartRfqQuote, StartAcceptance, ledger
  <2>3. CASE \E c \in Connections, u \in Users, e \in Entities, price \in RfqPrices, expires \in Expiries :
               CreateRfqQuote(c, u, e, price, expires)
    BY <2>3 DEF CreateRfqQuote, ledger
  <2>4. CASE \E i \in DOMAIN requests : CancelRfqRequest(i)
    BY <2>4 DEF CancelRfqRequest, ledger
  <2>5. QED  BY <1>3, <1>5, <2>1, <2>2, <2>3, <2>4 DEF RfqNext
<1>6. CASE \E c \in Connections : Rollback(c)
  BY <1>6 DEF Rollback, ledger
<1>7. CASE \/ Tick \/ \E m \in Offered : HaltBook(m) \/ CloseBook(m) \/ RedeemBatchOf(m)
           \/ \E m \in Offered, r \in Results : FinalizeResolution(m, r)
  BY <1>7 DEF Tick, HaltBook, CloseBook, RedeemBatchOf, FinalizeResolution, ledger
<1>8. QED  BY <1>1, <1>4, <1>5, <1>6, <1>7 DEF LiquidityNext

\* So fees are a natural number, always.
LEMMA FeesHold == LiquiditySpec => [](fees \in Nat)
<1>1. LiquidityInit => fees \in Nat
  BY DEF LiquidityInit, BookInit
<1>2. ControlInv /\ fees \in Nat /\ [LiquidityNext]_liquidityVars => (fees \in Nat)'
  BY FeesStep
<1>3. QED  BY <1>1, <1>2, ControlHolds, PTL DEF LiquiditySpec

\* The treasury pays what pools were funded with, no more.
LEMMA TreasuryNat ==
  ASSUME ControlInv, LedgerInv, CapacityInv
  PROVE  treasury \in Nat /\ escrow \in Nat
<1>1. PICK a, b, d : /\ a = SumFunctionOnSet(Funding, Pools) /\ b = SumFunctionOnSet(Paid(Treasury, redeemed), redeemed)
                     /\ d = SumFunctionOnSet(Losses, Pools)
  OBVIOUS
<1>2. a \in Int /\ b \in Nat /\ d \in Int /\ treasury = a + b - d
  BY <1>1, LedgerTypes, LossesBounded DEF LedgerInv, Reserve, CapacityInv
<1>3. d <= a
  <2>1. \A p \in Pools : Losses[p] \in Int /\ Funding[p] \in Int /\ Losses[p] <= Funding[p]
    BY PoolNats DEF CapacityInv, PoolOK, Losses, Funding
  <2>2. QED  BY <1>1, <2>1, PoolsAssumption, SumLeq
<1>4. treasury \in Nat
  BY <1>2, <1>3
<1>5. escrow \in Nat
  <2>1. \A x \in Unpaid : Worth(Unpaid)[x] \in Nat
    BY PositionTerms DEF Worth, Unpaid
  <2>2. IsFiniteSet(Unpaid)
    BY LedgerTypes DEF LedgerInv
  <2>3. QED  BY <2>1, <2>2, SumNat DEF LedgerInv
<1>6. QED  BY <1>4, <1>5

\* No balance is ever negative, the treasury's included, and no pool is ever over one of
\* its limits or over its funding.
THEOREM NeverOverdrawn == LiquiditySpec => []LiquidityTypeOK
<1>1. ControlInv /\ LedgerInv /\ CapacityInv /\ fees \in Nat => LiquidityTypeOK
  <2> SUFFICES ASSUME ControlInv, LedgerInv, CapacityInv, fees \in Nat
               PROVE  LiquidityTypeOK
    OBVIOUS
  <2>1. now \in 0..Horizon /\ liquidity \in Programs /\ status \in [Markets -> {"open", "halted"}]
    BY DEF ControlInv, RowsOK
  <2>2. \A p \in Pools : WithinLimits(p, pool[p])
    BY DEF CapacityInv, PoolOK, WithinLimits
  <2>3. QED  BY <2>1, <2>2, TreasuryNat DEF LiquidityTypeOK, CapacityInv
<1>2. QED  BY <1>1, CapacityHolds, FeesHold, PTL
=============================================================================
