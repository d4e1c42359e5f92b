--------------------------- MODULE WalletService ----------------------------
(***************************************************************************)
(* app/services/wallet_service.py: the only code that moves a Toman        *)
(* balance.  A row of the wallets table and the rows of                    *)
(* wallet_transactions of one user are wallet[u] and ledger[u].            *)
(*                                                                         *)
(* Both operations lock the wallet row, read the balance from the object   *)
(* the session holds, write the new balance and a ledger row, and commit.  *)
(* The lock makes the whole operation one step.  What it does not do is    *)
(* refresh an object the session had loaded before: the session factory    *)
(* is built with expire_on_commit=False (database/base.py:26-30) and the   *)
(* SELECT ... FOR UPDATE carries no populate_existing, so a wallet that    *)
(* UserService.get_or_create loaded earlier keeps the balance it had then. *)
(* Every operation therefore takes `seen', the balance in the session:     *)
(* wallet[u] for a session that had not loaded the wallet, and the         *)
(* remembered value for one that had.                                      *)
(***************************************************************************)
EXTENDS Integers, Sequences

CONSTANTS
    Users,      \* the registered users, each with one wallet
    Refs        \* what a ledger row may refer to (orders, deposit requests)

VARIABLES
    wallet,     \* wallets.balance
    ledger      \* wallet_transactions of each user, oldest first

walletVars == <<wallet, ledger>>

TxTypes == {"DEPOSIT", "PURCHASE", "BONUS", "REFUND", "TOURNAMENT_ENTRY", "TOURNAMENT_PRIZE"}

Row == [type : TxTypes, ref : Refs, amount : Int, before : Int, after : Int]

WalletInit ==
    /\ wallet = [u \in Users |-> 0]
    /\ ledger = [u \in Users |-> <<>>]

\* The common tail of credit and debit: write seen + amount, add the row, commit.
Post(u, seen, amount, type, ref) ==
    /\ wallet' = [wallet EXCEPT ![u] = seen + amount]
    /\ ledger' = [ledger EXCEPT ![u] =
                     Append(@, [type |-> type, ref |-> ref, amount |-> amount,
                                before |-> seen, after |-> seen + amount])]

Credit(u, seen, amount, type, ref) ==
    /\ amount > 0
    /\ Post(u, seen, amount, type, ref)

\* Mutant of Debit: the balance is not compared with the amount.
DebitUnchecked(u, seen, amount, type, ref) ==
    /\ amount > 0
    /\ Post(u, seen, -amount, type, ref)

Debit(u, seen, amount, type, ref) ==
    /\ amount > 0
    /\ seen >= amount
    /\ Post(u, seen, -amount, type, ref)

-----------------------------------------------------------------------------
\* The balance a user's i-th row should continue from.
PreviousAfter(rows, i) == IF i = 1 THEN 0 ELSE rows[i - 1].after

\* The balance the ledger of u ends with.
LedgerBalance(u) == PreviousAfter(ledger[u], Len(ledger[u]) + 1)

\* The rows of u that are of a type and refer to an order or deposit request.
RowsFor(u, type, ref) ==
    {i \in DOMAIN ledger[u] : ledger[u][i].type = type /\ ledger[u][i].ref = ref}
=============================================================================
