------------------------------- MODULE PriceTime -------------------------------
(***************************************************************************)
(* Price-time matching (matchPriceTime of trading/model.ts) in closed      *)
(* form.  Orders are records with at least the fields side, price,         *)
(* remaining and seq.                                                      *)
(***************************************************************************)
EXTENDS Integers, FiniteSets, Functions

\* Mutant: an equal price does not trade.
CrossesStrictly(side, limit, makerPrice) ==
  IF side = "buy" THEN limit > makerPrice ELSE limit < makerPrice

Crosses(side, limit, makerPrice) ==
  IF side = "buy" THEN limit >= makerPrice ELSE limit <= makerPrice

\* Mutant: time priority without price priority.
BeforeByTimeOnly(side, a, b) == a.seq < b.seq

\* Maker a is matched before maker b by an incoming order on this side.
Before(side, a, b) ==
  \/ a.price # b.price /\ Crosses(side, b.price, a.price)
  \/ a.price = b.price /\ a.seq < b.seq

Depth(book, S) == SumFunctionOnSet([m \in S |-> book[m].remaining], S)

AheadOf(side, book, makers, m) == {n \in makers : Before(side, book[n], book[m])}

\* Quantity each maker gives when the incoming quantity is handed out in
\* priority order: what the makers ahead leave, up to its own remainder.
MatchPriceTime(side, quantity, book, makers) ==
  [m \in makers |->
     LET left == quantity - Depth(book, AheadOf(side, book, makers, m))
     IN  IF left <= 0 THEN 0
         ELSE IF left < book[m].remaining THEN left ELSE book[m].remaining]
================================================================================
