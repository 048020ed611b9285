---------------------------- MODULE IdentityBase ----------------------------
(***************************************************************************)
(* What the identity handlers share: the clock, the verification provider, *)
(* which keeps one pending code per destination whatever the code is for,  *)
(* and the requests that are under way.  A handler calls a provider in the *)
(* middle, inside its transaction (contact codes, identity sessions) or    *)
(* outside of it (password resets), so it is modelled in steps; work[r]    *)
(* keeps what request r has read and, with it, the row it holds.           *)
(***************************************************************************)
EXTENDS Naturals, FiniteSets, Sequences, FiniteSetsExt

CONSTANTS
  Accounts,    \* the accounts; each has an email address and a phone of its own
  Requests,    \* requests that may be under way at a time
  None,        \* no row, no work, no answer
  CodeLife,    \* 10 minutes, the life of a code
  MaxAttempts, \* 5 local attempts per code
  MaxClock,    \* bound on the clock
  MaxCrashes   \* bound on the requests that are lost half way

ASSUME AccountsAssumption == IsFiniteSet(Accounts)
ASSUME LifeAssumption == CodeLife \in Nat \ {0} /\ MaxAttempts \in Nat \ {0}

VARIABLES
  clock,
  code,    \* code[a, ch]: the provider holds a code for that address
  work,    \* work[r]: what request r is in the middle of, or None
  crashes  \* requests lost half way; their transaction leaves nothing

base == <<clock, code, work, crashes>>

Channels == {"email", "phone"}

\* No request means no work, never the work of sending a code.
ASSUME NoneAssumption ==
  None \notin [op : {"send"}, to : Accounts \X Channels, at : Nat, state : {"pending", "delivery_uncertain"}]

BaseInit ==
  /\ clock = 0 /\ crashes = 0
  /\ code = [d \in Accounts \X Channels |-> FALSE]
  /\ work = [r \in Requests |-> None]

Busy(op) == {work[r] : r \in {q \in Requests : work[q] # None /\ work[q].op \in op}}

Start(r, what) == work[r] = None /\ work' = [work EXCEPT ![r] = what]
Done(r) == work' = [work EXCEPT ![r] = None]

\* The provider's answer to a code: right at most once, "expired" when it knows of none.
Answers(d) == IF code[d] THEN {"approved", "pending"} ELSE {"expired"}
Answered(d, answer) == code' = [code EXCEPT ![d] = @ /\ answer # "approved"]

\* The process stops, or the transaction is given up, after the provider was called.
Lost(r) ==
  /\ work[r] # None /\ crashes < MaxCrashes
  /\ Done(r) /\ crashes' = crashes + 1
  /\ UNCHANGED <<clock, code>>

Tick == /\ clock < MaxClock /\ clock' = clock + 1
        /\ UNCHANGED <<code, work, crashes>>
=============================================================================
