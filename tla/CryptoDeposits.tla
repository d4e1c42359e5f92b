--------------------------- MODULE CryptoDeposits ---------------------------
(***************************************************************************)
(* app/services/crypto_deposit_service.py and crypto_wallet_service.py: a  *)
(* wallet of coins (TRX) charged through an order at the provider.         *)
(*                                                                         *)
(* A webhook is never believed: with the order's row locked the provider   *)
(* is asked once more.  The credit is idempotent by the reference of its   *)
(* ledger row, and its commit gives the lock back before the order is      *)
(* VERIFIED in a second transaction.  No handler calls this service at     *)
(* this commit, and every call of its provider raises                      *)
(* ProviderNotConfiguredError: the module models the service for the       *)
(* provider it is written for.                                             *)
(*                                                                         *)
(* External: the provider, from how the code reads its answers.            *)
(***************************************************************************)
EXTENDS Integers, Sequences

CONSTANTS
    CoinOrders,     \* order_id of the rows of crypto_deposit_orders
    Holders,        \* the users
    Holder,         \* Holder[o]: the user the order is for
    Quotes          \* the coins a quote may be for

ASSUME CryptoAssumption ==
    /\ Holder \in [CoinOrders -> Holders]
    /\ Quotes \subseteq Nat \ {0}

VARIABLES
    order,          \* the order's row: its status and crypto_amount
    callbacks,      \* the webhooks that wait for the provider, holding their order's
                    \* lock, or for their second commit; an order has at most one of each
    coins,          \* crypto_wallets.balance
    coinLedger      \* crypto_wallet_transactions of a user, oldest first

cryptoVars == <<order, callbacks, coins, coinLedger>>

OrderState == [status : {"none", "PENDING_PAYMENT", "FAILED", "VERIFIED"}, amount : Nat]

Callback == [o : CoinOrders, at : {"verifying", "credited"}]

CoinRow == [ref : CoinOrders, amount : Nat, before : Nat, after : Nat]

CryptoInit ==
    /\ order = [o \in CoinOrders |-> [status |-> "none", amount |-> 0]]
    /\ callbacks = {}
    /\ coins = [u \in Holders |-> 0]
    /\ coinLedger = [u \in Holders |-> <<>>]

\* create_deposit_request: the row is flushed as CREATED while the provider is asked and
\* committed with its quote; a failure rolls it back.
CreateDepositRequest(o, quote) ==
    /\ order[o].status = "none"
    /\ order' = [order EXCEPT ![o] = [status |-> "PENDING_PAYMENT", amount |-> quote]]
    /\ UNCHANGED <<callbacks, coins, coinLedger>>

\* _find_existing: the rows of an order in its holder's ledger.
CoinRows(o) == {i \in DOMAIN coinLedger[Holder[o]] : coinLedger[Holder[o]][i].ref = o}

\* CryptoWalletService.credit for a reference that is not in the ledger; the wallet row
\* of a user is added with the first credit.
CreditCoins(o, amount) ==
    LET u == Holder[o]
    IN  /\ amount > 0
        /\ coins' = [coins EXCEPT ![u] = @ + amount]
        /\ coinLedger' = [coinLedger EXCEPT ![u] =
                             Append(@, [ref |-> o, amount |-> amount, before |-> coins[u],
                                        after |-> coins[u] + amount])]

\* _get_locked_by_provider_order_id gets the row.
Unlocked(o) == \A c \in callbacks : ~(c.o = o /\ c.at = "verifying")

\* handle_webhook with a valid signature locks the order and asks the provider; one for
\* a VERIFIED order, or for an order nobody knows, changes nothing.
HandleWebhook(o) ==
    /\ order[o].status \notin {"none", "VERIFIED"}
    /\ Unlocked(o)
    /\ callbacks' = callbacks \cup {[o |-> o, at |-> "verifying"]}
    /\ UNCHANGED <<order, coins, coinLedger>>

PutOrder(o, status) == order' = [order EXCEPT ![o].status = status]

\* verify_deposit answers: the deposit is not there; it is and was credited before; or
\* it is, and the credit commits.
VerifyAnswers(c, verified) ==
    LET o == c.o
    IN  /\ c.at = "verifying"
        /\ \/ /\ ~verified
              /\ PutOrder(o, "FAILED")
              /\ callbacks' = callbacks \ {c}
              /\ UNCHANGED <<coins, coinLedger>>
           \/ /\ verified
              /\ CoinRows(o) # {}
              /\ PutOrder(o, "VERIFIED")
              /\ callbacks' = callbacks \ {c}
              /\ UNCHANGED <<coins, coinLedger>>
           \/ /\ verified
              /\ CoinRows(o) = {}
              /\ CreditCoins(o, order[o].amount)
              /\ callbacks' = (callbacks \ {c}) \cup {[o |-> o, at |-> "credited"]}
              /\ UNCHANGED order

\* The second commit of mark_verified_and_credit.
MarkVerified(c) ==
    /\ c.at = "credited"
    /\ Unlocked(c.o)
    /\ PutOrder(c.o, "VERIFIED")
    /\ callbacks' = callbacks \ {c}
    /\ UNCHANGED <<coins, coinLedger>>

\* A webhook ends early: the provider or the database fails, another order's first
\* credit added the user's wallet row at the same time, or the process stops.
CallbackStops(c) ==
    /\ callbacks' = callbacks \ {c}
    /\ UNCHANGED <<order, coins, coinLedger>>

-----------------------------------------------------------------------------
CryptoStart ==
    \E o \in CoinOrders :
        \/ \E quote \in Quotes : CreateDepositRequest(o, quote)
        \/ HandleWebhook(o)

CryptoStep ==
    \E c \in callbacks :
        \/ \E verified \in BOOLEAN : VerifyAnswers(c, verified)
        \/ MarkVerified(c)
        \/ CallbackStops(c)
=============================================================================
