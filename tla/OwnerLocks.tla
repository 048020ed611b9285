------------------------------- MODULE OwnerLocks -------------------------------
(***************************************************************************)
(* The locks the trading transactions of one asset take, and the order in  *)
(* which they take them: the row lock of a book, the advisory lock of the  *)
(* asset's market escrow and the advisory locks of owners.  Clob.tla takes *)
(* the transactions as atomic; this module is about their waiting for each *)
(* other.                                                                  *)
(*                                                                         *)
(* Every lock is held until the transaction ends, and a lock a transaction *)
(* already holds is granted again at once.  The row locks of orders and    *)
(* reservations are left out: they are taken under their book's lock or    *)
(* their owner's.  Shared locks (FOR SHARE) never conflict with each other *)
(* and are left out too.                                                   *)
(***************************************************************************)
EXTENDS Naturals, Sequences, FiniteSets

CONSTANTS
  Transactions,  \* database connections that run one command at a time
  Owners,        \* accounts, compared as the code sorts their identifiers
  Books,         \* books of the asset, one per market
  Fillings       \* most fills one command makes, redeems or cancels

NoBook == "no book"
ASSUME OwnersAssumption == Owners \subseteq Nat
ASSUME LocksAssumption == IsFiniteSet(Transactions) /\ NoBook \notin Books /\ Fillings \in Nat

VARIABLES
  plan,  \* the locks a transaction has still to take, in order
  book,  \* the book a running transaction works on, NoBook when it has ended
  held   \* the locks each transaction holds

lockVars == <<plan, book, held>>

Running(t) == book[t] # NoBook

BookRow(b) == [lock |-> "clob_markets", of |-> b]
Owner(o)   == [lock |-> "owner", of |-> o]
Escrow     == [lock |-> "market_escrow", of |-> 0]

(* for (const owner of [buyer, seller].sort()) lockOwnerAsset              *)
SortedPair(o, p) == IF o < p THEN <<Owner(o), Owner(p)>> ELSE <<Owner(p), Owner(o)>>

Strings(S) == UNION {[1..n -> S] : n \in 0..Fillings}
Pairs == {p \in Owners \X Owners : p[1] # p[2]}
PairLocks(pairs) == [i \in 1..(2 * Len(pairs)) |->
  LET p == pairs[(i + 1) \div 2]
  IN SortedPair(p[1], p[2])[IF i % 2 = 1 THEN 1 ELSE 2]]

(* Mutant: submitOrder reads the book without FOR UPDATE.                   *)
SubmitPlansUnlocked(b) ==
  UNION {{<<Owner(a)>> \o PairLocks([i \in DOMAIN ms |-> <<a, ms[i]>>]) :
            ms \in Strings(Owners \ {a})} : a \in Owners}

(* submitOrder: the book, the actor's reservation, then the two owners of   *)
(* each fill, in the order the fills are made.                              *)
SubmitPlans(b) ==
  UNION {{<<BookRow(b), Owner(a)>> \o PairLocks([i \in DOMAIN ms |-> <<a, ms[i]>>]) :
            ms \in Strings(Owners \ {a})} : a \in Owners}

(* cancelOrder: the book, then the owner of the order.                      *)
CancelPlans(b) == {<<BookRow(b), Owner(o)>> : o \in Owners}

(* closeResolutionBook: the book, then the owner of each order it cancels,  *)
(* in the order of the book.                                                *)
ClosePlans(b) == {<<BookRow(b)>> \o [i \in DOMAIN os |-> Owner(os[i])] : os \in Strings(Owners)}

(* redeemBatch: the book, then for each fill the escrow of the asset and    *)
(* the two owners of the fill.                                              *)
RedeemPlans(b) == {<<BookRow(b), Escrow>> \o PairLocks(ps) : ps \in Strings(Pairs) \ {<<>>}}

LocksInit ==
  /\ plan = [t \in Transactions |-> <<>>]
  /\ book = [t \in Transactions |-> NoBook]
  /\ held = [t \in Transactions |-> {}]

Begin(t, b) ==
  /\ ~Running(t)
  /\ \E p \in SubmitPlans(b) \cup CancelPlans(b) \cup ClosePlans(b) \cup RedeemPlans(b) :
       plan' = [plan EXCEPT ![t] = p]
  /\ book' = [book EXCEPT ![t] = b]
  /\ UNCHANGED held

WaitsFor(t, u) == t # u /\ plan[t] # <<>> /\ Head(plan[t]) \in held[u]
Waiting(t) == \E u \in Transactions : WaitsFor(t, u)

Acquire(t) ==
  /\ plan[t] # <<>> /\ ~Waiting(t)
  /\ held' = [held EXCEPT ![t] = @ \cup {Head(plan[t])}]
  /\ plan' = [plan EXCEPT ![t] = Tail(@)]
  /\ UNCHANGED book

End(t) ==
  /\ plan' = [plan EXCEPT ![t] = <<>>]
  /\ book' = [book EXCEPT ![t] = NoBook]
  /\ held' = [held EXCEPT ![t] = {}]

Commit(t) == Running(t) /\ plan[t] = <<>> /\ End(t)

(* Mutant: only the wait for a row lock times out.                          *)
RollBackRowWait(t) == Waiting(t) /\ Head(plan[t]).lock = "clob_markets" /\ End(t)

(* A lock wait ends in a rollback after lock_timeout (55P03), or at once    *)
(* when the database finds the wait to be circular (40P01).                 *)
RollBack(t) == Waiting(t) /\ End(t)

LocksNext ==
  \/ \E t \in Transactions, b \in Books : Begin(t, b)
  \/ \E t \in Transactions : Acquire(t) \/ Commit(t) \/ RollBack(t)

LocksSpec == LocksInit /\ [][LocksNext]_lockVars

(* A transaction that can take its next lock, commit or time out does.      *)
Fairness == \A t \in Transactions : WF_lockVars(Acquire(t) \/ Commit(t) \/ RollBack(t))
FairLocksSpec == LocksSpec /\ Fairness

-----------------------------------------------------------------------------
Lock == {BookRow(b) : b \in Books} \cup {Owner(o) : o \in Owners} \cup {Escrow}

(* Plans are sequences of locks, only running transactions hold locks, and  *)
(* no lock has two holders.                                                 *)
LocksTypeOK ==
  /\ plan \in [Transactions -> Seq(Lock)]
  /\ book \in [Transactions -> Books \cup {NoBook}]
  /\ held \in [Transactions -> SUBSET Lock]
  /\ \A t \in Transactions : ~Running(t) => plan[t] = <<>> /\ held[t] = {}
  /\ \A t, u \in Transactions : t # u => held[t] \cap held[u] = {}

Deadlocked(D) == D # {} /\ \A t \in D : \E u \in D : WaitsFor(t, u)

(* Commands on one book never wait for each other in a circle: a circle of  *)
(* waiting transactions spans at least two books, because each command      *)
(* locks its book before any owner.                                         *)
DeadlocksSpanBooks ==
  \A D \in SUBSET Transactions : Deadlocked(D) => Cardinality({book[t] : t \in D}) > 1

(* Every command ends, by its commit or by a rollback the client may retry. *)
EveryCommandEnds == \A t \in Transactions : Running(t) ~> ~Running(t)
=============================================================================
