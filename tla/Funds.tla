------------------------------- MODULE Funds --------------------------------
(***************************************************************************)
(* The Toman wallet charged through Tronado and spent on tournaments, and  *)
(* the coin wallet beside it: Payments, CryptoDeposits and Tournament in   *)
(* one process and one database.  Payments and tournaments move the same   *)
(* wallets; everything else they keep is their own.                        *)
(*                                                                         *)
(* Bounds, of the model and not of the code: MaxRequests requests start,   *)
(* and at most MaxOverlap of them are in progress at once.                 *)
(***************************************************************************)
EXTENDS Payments, CryptoDeposits, Tournament

CONSTANTS
    Opening,        \* Opening[u]: what a wallet holds at first, from an approved deposit
    Earlier,        \* the deposit request of that row
    MaxRequests,
    MaxOverlap

ASSUME FundsAssumption ==
    /\ Holders = Users
    /\ Opening \in [Users -> Nat \ {0}]
    /\ Earlier \in Refs \ (Payments \cup Tournaments)
    /\ Payments \cap Tournaments = {}
    /\ CoinOrders \cap Payments = {}

VARIABLE requests   \* how many requests have started

vars == <<walletVars, paymentVars, cryptoVars, tournamentVars, requests>>

InProgress == Cardinality(hooks) + Cardinality(callbacks) + Len(calls)

Init ==
    /\ wallet = Opening
    /\ ledger = [u \in Users |-> <<[type |-> "DEPOSIT", ref |-> Earlier, amount |-> Opening[u],
                                    before |-> 0, after |-> Opening[u]]>>]
    /\ PaymentsInit
    /\ CryptoInit
    /\ TournamentInit
    /\ requests = 0

PayersPart(A) == A /\ UNCHANGED <<cryptoVars, tournamentVars>>
HoldersPart(A) == A /\ UNCHANGED <<walletVars, paymentVars, tournamentVars>>
PlayersPart(A) == A /\ UNCHANGED <<paymentVars, cryptoVars>>

\* A user, an admin or the provider starts something.
Start ==
    /\ requests < MaxRequests
    /\ InProgress < MaxOverlap
    /\ requests' = requests + 1
    /\ PayersPart(PaymentsStart) \/ HoldersPart(CryptoStart) \/ PlayersPart(TournamentStart)

Step ==
    /\ UNCHANGED requests
    /\ PayersPart(PaymentsStep) \/ HoldersPart(CryptoStep) \/ PlayersPart(TournamentStep)

Next == Start \/ Step

Spec == Init /\ [][Next]_vars

-----------------------------------------------------------------------------
FundsRow ==
    [type : {"DEPOSIT", "TOURNAMENT_ENTRY", "TOURNAMENT_PRIZE", "REFUND"}, ref : Refs,
     amount : Int, before : Nat, after : Nat]

\* Every column keeps its range; in particular no wallet is overdrawn.
FundsTypeOK ==
    /\ wallet \in [Users -> Nat]
    /\ ledger \in [Users -> Seq(FundsRow)]
    /\ payment \in [Payments -> Payment]
    /\ hooks \subseteq Hook
    /\ order \in [CoinOrders -> OrderState]
    /\ callbacks \subseteq Callback
    /\ coins \in [Users -> Nat]
    /\ coinLedger \in [Users -> Seq(CoinRow)]
    /\ tournament \in [Tournaments -> TournamentRow]
    /\ entrants \in [Tournaments -> Seq(Users)]
    /\ calls \in Seq(Call)
    /\ disturbed \subseteq Tournaments

-----------------------------------------------------------------------------
(* Both kinds of payment, seen as the bills of PaymentPromise.             *)

Bill == Payments \cup CoinOrders

SumOf(rows, bill) ==
    SumFunctionOnSet([i \in DOMAIN rows |-> IF rows[i].ref = bill THEN rows[i].amount ELSE 0],
                     DOMAIN rows)

Promise == INSTANCE PaymentPromise WITH
    Bills    <- Bill,
    Sums     <- Sums \cup Told \cup Quotes,
    due      <- [b \in Bill |-> IF b \in Payments THEN payment[b].amount ELSE order[b].amount],
    credited <- [b \in Bill |-> IF b \in Payments THEN SumOf(ledger[Payer[b]], b)
                                ELSE SumOf(coinLedger[Holder[b]], b)],
    settled  <- [b \in Bill |-> IF b \in Payments THEN payment[b].status = "PAID"
                                ELSE order[b].status = "VERIFIED"]

\* Toman payments and coin orders keep the promise of PaymentPromise through duplicated,
\* late and contradictory webhooks, and through a stop between the two commits of a
\* credited one (payment_service.py:137-158, crypto_deposit_service.py:112-135).
PaymentsKeepPromise == Promise!PromiseSpec
=============================================================================
