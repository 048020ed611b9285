----------------------------- MODULE LiquidityBook -----------------------------
(***************************************************************************)
(* What the AMM (Amm.tla) and the institutional quotes (Rfq.tla) share:    *)
(* the clock, the books of one asset, one per market, the ledger accounts  *)
(* both post to, and the database sessions.                                *)
(*                                                                         *)
(* A command that reads something before it waits for a lock is modelled   *)
(* in steps: its session remembers what it read, the time above all, which *)
(* the code takes once, when the request arrives.  A session holds at most *)
(* one book row and one owner's advisory lock between two of its steps;    *)
(* every other command is one step, possible only when the locks it needs  *)
(* are free.  user_reserved is left out: each execution reserves what it   *)
(* consumes in the same transaction.                                       *)
(***************************************************************************)
EXTENDS ClobMath, Sequences, FiniteSetsExt

CONSTANTS
  Users, Markets, Outcomes,
  Programs,      \* the liquidity programmes terms may publish, by market
  Cutoff,        \* trading_cutoff of every market; they open at 0
  Funds,         \* what each user has available at first
  Sizes,         \* contracts a quote may be asked for
  Connections,   \* database sessions that run commands in steps
  Horizon        \* last tick of the clock, bounds the runs

ASSUME MarketsAssumption ==
  Programs \subseteq [Markets -> SUBSET {"amm", "rfq"}] /\ Cutoff \in Nat \ {0} /\ Horizon \in Nat
ASSUME FundsAssumption == Funds \in [Users -> Nat]
ASSUME SizesAssumption == Sizes \subseteq Nat \ {0}

VARIABLES
  now,
  liquidity, \* what the published terms of each market enable: "amm", "rfq"
  status,    \* clob_markets.status of each market's book
  session,   \* what each session is doing, and the locks it holds
  available, \* ledger bucket user_available
  escrow,    \* ledger bucket market_escrow
  fees,      \* ledger bucket protocol_fee
  treasury   \* ledger bucket liquidity_reserve, shared by the pools of all markets

market == <<liquidity, status>>
ledger == <<available, escrow, fees, treasury>>

Null == "null"
Idle == [op |-> "idle", of |-> 0, asOf |-> 0, book |-> Null, owner |-> Null]

(* A command begins.  One that arrives after the cutoff or finds the market *)
(* halted would only wait and fail: neither condition is ever undone.       *)
BeginCommand(c, op, of, m) ==
  /\ session[c] = Idle /\ now < Cutoff /\ status[m] = "open"
  /\ session' = [session EXCEPT ![c] = [Idle EXCEPT !.op = op, !.of = of, !.asOf = now]]
EndCommand(c) == session' = [session EXCEPT ![c] = Idle]

(* Mutant: the book is read without FOR UPDATE.                             *)
BookReadable(m) == TRUE

(* The rows and advisory locks that no other session holds.                 *)
BookFree(m) == \A c \in Connections : session[c].book # m
OwnerFree(u) == \A c \in Connections : session[c].owner # u

BookInit ==
  /\ now = 0 /\ liquidity \in Programs /\ status = [m \in Markets |-> "open"]
  /\ session = [c \in Connections |-> Idle]
  /\ available = Funds /\ escrow = 0 /\ fees = 0 /\ treasury = 0

Tick == now < Horizon /\ now' = now + 1 /\ UNCHANGED <<market, session, ledger>>

(* A transaction rolls back when one of its conditions fails, when a lock   *)
(* is not granted in time, or when the server stops.                        *)
Rollback(c) == session[c] # Idle /\ EndCommand(c) /\ UNCHANGED <<now, market, ledger>>

(* haltClob: an approver stops one book; pools and requests stay as they    *)
(* are.                                                                     *)
HaltBook(m) ==
  /\ status[m] = "open" /\ BookFree(m)
  /\ status' = [status EXCEPT ![m] = "halted"]
  /\ UNCHANGED <<now, liquidity, session, ledger>>
===============================================================================
