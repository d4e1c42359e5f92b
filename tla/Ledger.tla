------------------------------- MODULE Ledger -------------------------------
(***************************************************************************)
(* What the wallet promises its owner (docstring of wallet_service.py,     *)
(* lines 4-9): a balance moves only together with a new ledger row, the    *)
(* row continues from the balance the previous row ended with, rows are    *)
(* never edited or deleted, and the balance is never negative.             *)
(*                                                                         *)
(* This is the abstract specification; the modules that move money map     *)
(* their wallets to it.                                                    *)
(***************************************************************************)
EXTENDS Integers, Sequences

CONSTANTS
    Owners,     \* the users whose wallets are considered
    Amounts     \* the sums one posting may move

VARIABLES
    balance,    \* balance[u]: the current balance of owner u
    entries     \* entries[u]: the sequence of postings of owner u

Entry == [before : Nat, after : Nat]

LedgerTypeOK ==
    /\ balance \in [Owners -> Nat]
    /\ entries \in [Owners -> Seq(Entry)]

LedgerInit ==
    /\ balance = [u \in Owners |-> 0]
    /\ entries = [u \in Owners |-> <<>>]

\* One posting: the balance of u becomes b, recorded as a step from the old one.
Record(u, b) ==
    /\ balance' = [balance EXCEPT ![u] = b]
    /\ entries' = [entries EXCEPT ![u] =
                       Append(@, [before |-> balance[u], after |-> b])]

Deposit(u, a) == Record(u, balance[u] + a)

Withdraw(u, a) == balance[u] >= a /\ Record(u, balance[u] - a)

LedgerNext == \E u \in Owners, a \in Amounts : Deposit(u, a) \/ Withdraw(u, a)

LedgerSpec == LedgerInit /\ [][LedgerNext]_<<balance, entries>>
=============================================================================
