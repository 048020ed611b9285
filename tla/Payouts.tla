-------------------------------- MODULE Payouts --------------------------------
(***************************************************************************)
(* What a withdrawal promises, whatever rail it takes: the amount leaves   *)
(* the wallet when it is asked for, it is either given back or written off *)
(* the books, never both, and it is paid at most once and never after it   *)
(* was given back.  Requests, providers, operators, retries and restarts   *)
(* are details of the implementation (module Withdrawals).                 *)
(***************************************************************************)
EXTENDS Naturals

CONSTANTS
  Owners,  \* accounts
  Ids,     \* withdrawals
  Amounts  \* amounts moved

VARIABLES
  wallet,    \* what each owner may spend
  books,     \* what the backend says is in custody
  requests,  \* each withdrawal: none, asked, returned or closed
  payments   \* payments that left custody for each withdrawal

vars == <<wallet, books, requests, payments>>

None == [status |-> "none"]
Request(w, status) == requests[w] # None /\ requests[w].status = status

Init ==
  /\ wallet = [o \in Owners |-> 0] /\ books = 0
  /\ requests = [w \in Ids |-> None] /\ payments = [w \in Ids |-> 0]

Deposit(o, amount) ==
  /\ wallet' = [wallet EXCEPT ![o] = @ + amount] /\ books' = books + amount
  /\ UNCHANGED <<requests, payments>>

Ask(w, o, amount) ==
  /\ requests[w] = None /\ wallet[o] >= amount
  /\ requests' = [requests EXCEPT ![w] = [status |-> "asked", owner |-> o, amount |-> amount]]
  /\ wallet' = [wallet EXCEPT ![o] = @ - amount]
  /\ UNCHANGED <<books, payments>>

(* Only what was not paid is given back, and then it never is.              *)
Return(w) ==
  /\ Request(w, "asked") /\ payments[w] = 0
  /\ requests' = [requests EXCEPT ![w].status = "returned"]
  /\ wallet' = [wallet EXCEPT ![requests[w].owner] = @ + requests[w].amount]
  /\ UNCHANGED <<books, payments>>

Send(w) ==
  /\ Request(w, "asked") \/ Request(w, "closed")
  /\ payments[w] = 0 /\ payments' = [payments EXCEPT ![w] = 1]
  /\ UNCHANGED <<wallet, books, requests>>

Close(w) ==
  /\ Request(w, "asked") /\ books >= requests[w].amount
  /\ requests' = [requests EXCEPT ![w].status = "closed"]
  /\ books' = books - requests[w].amount
  /\ UNCHANGED <<wallet, payments>>

Next ==
  \/ \E o \in Owners, amount \in Amounts : Deposit(o, amount)
                                           \/ \E w \in Ids : Ask(w, o, amount)
  \/ \E w \in Ids : Return(w) \/ Send(w) \/ Close(w)

Spec == Init /\ [][Next]_vars
=============================================================================
