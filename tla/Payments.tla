------------------------------ MODULE Payments ------------------------------
(***************************************************************************)
(* app/services/payment_service.py: a Toman wallet charged through         *)
(* Tronado, with the webhook endpoint of main.py in front of it.           *)
(*                                                                         *)
(* The provider reports on a payment as often as it likes, in any order    *)
(* and with any verdict, also after the payment is settled; a request that *)
(* ends in an exception is answered with 400 and sent again.  Every        *)
(* webhook runs in a session of its own.  It locks the payment's row, and  *)
(* the lock is released by the commit INSIDE WalletService.credit, so the  *)
(* status PAID is written in a second transaction: another webhook, or a   *)
(* stop of the process, can come between the two.                          *)
(*                                                                         *)
(* External: the provider, from how the code reads its answers.            *)
(***************************************************************************)
EXTENDS WalletService

CONSTANTS
    Payments,   \* payment_id of the rows of payment_transactions
    Payer,      \* Payer[p]: the user the payment is for
    Sums        \* the sums a user may ask to pay

ASSUME PaymentsAssumption ==
    /\ Payments \subseteq Refs
    /\ Payer \in [Payments -> Users]
    /\ Sums \subseteq Nat \ {0}

VARIABLES
    payment,    \* the payment's row: status, amount_toman, provider_reference known
    hooks       \* the webhooks that wait for the provider, holding their payment's
                \* lock, or for their second commit; a payment has at most one of each

paymentVars == <<payment, hooks>>

PaymentStatuses == {"none", "PENDING", "FAILED", "REJECTED", "UNDERPAID", "PAID"}

Payment == [status : PaymentStatuses, amount : Nat, known : BOOLEAN]

\* A report the provider does not put a sum in, or an answer without one.
Unsaid == 0

\* The sums the provider may report: too little, what was asked, or more.
Told == {s + d : s \in Sums, d \in {-1, 0, 1}} \ {Unsaid}

\* What a webhook's event says: not paid (for good: OrderStatusID 40 or 200, or not
\* yet), or paid, with or without UserPaidTomanAmount; `names' if it carries an OrderID.
Reports ==
    [verdict : {"refused", "open"}, toman : {Unsaid}, names : BOOLEAN]
        \cup [verdict : {"paid"}, toman : {Unsaid} \cup Told, names : BOOLEAN]

Hook == [p : Payments, at : {"asking", "credited"}, known : BOOLEAN]

PaymentsInit ==
    /\ payment = [p \in Payments |-> [status |-> "none", amount |-> 0, known |-> FALSE]]
    /\ hooks = {}

\* create_tronado_wallet_deposit: the row is only flushed while the provider is asked
\* for a quote, so other sessions first see it with the outcome.
CreateTronadoDeposit(p, sum, quoted) ==
    /\ payment[p].status = "none"
    /\ payment' = [payment EXCEPT ![p] = [status |-> IF quoted THEN "PENDING" ELSE "FAILED",
                                          amount |-> sum, known |-> quoted]]
    /\ UNCHANGED <<walletVars, hooks>>

\* Mutant of Credited: the status of the row stands for the ledger.
CreditedByStatus(p) == payment[p].status = "PAID"

\* A row of wallet_transactions has reference_id payment:<id>.
Credited(p) == RowsFor(Payer[p], "DEPOSIT", p) # {}

\* SELECT ... FOR UPDATE gets the row: no webhook that waits for the provider holds it.
Lockable(p) == \A h \in hooks : ~(h.p = p /\ h.at = "asking")

PutStatus(p, status, known) ==
    payment' = [payment EXCEPT ![p].status = status, ![p].known = known]

\* The end of a webhook that knows the sum: too little; credited by an earlier webhook;
\* or a credit, whose commit gives the lock back before the status is written.  `rest'
\* are the other webhooks.
Settle(p, toman, known, rest) ==
    \/ /\ toman < payment[p].amount
       /\ PutStatus(p, "UNDERPAID", known)
       /\ hooks' = rest
       /\ UNCHANGED walletVars
    \/ /\ toman >= payment[p].amount
       /\ Credited(p)
       /\ PutStatus(p, "PAID", known)
       /\ hooks' = rest
       /\ UNCHANGED walletVars
    \/ /\ toman >= payment[p].amount
       /\ ~Credited(p)
       /\ Credit(Payer[p], wallet[Payer[p]], toman, "DEPOSIT", p)
       /\ PutStatus(p, payment[p].status, known)
       /\ hooks' = rest \cup {[p |-> p, at |-> "credited", known |-> known]}

\* handle_tronado_webhook up to its first await with the row locked, or to its end.  An
\* unknown payment, and one that is PAID, change nothing; a paid report without a sum
\* and without any reference to ask the provider with ends in an exception.
HandleTronadoWebhook(p, report) ==
    LET known == payment[p].known \/ report.names
    IN  /\ payment[p].status \notin {"none", "PAID"}
        /\ Lockable(p)
        /\ \/ /\ report.verdict # "paid"
              /\ PutStatus(p, IF report.verdict = "refused" THEN "REJECTED" ELSE "PENDING",
                           known)
              /\ UNCHANGED <<walletVars, hooks>>
           \/ /\ report.verdict = "paid"
              /\ report.toman # Unsaid
              /\ Settle(p, report.toman, known, hooks)
           \/ /\ report.verdict = "paid"
              /\ report.toman = Unsaid
              /\ known
              /\ hooks' = hooks \cup {[p |-> p, at |-> "asking", known |-> known]}
              /\ UNCHANGED <<walletVars, payment>>

\* provider.get_status answers with a sum; without one the webhook ends in an exception.
StatusArrives(h, toman) ==
    /\ h.at = "asking"
    /\ toman # Unsaid
    /\ Settle(h.p, toman, h.known, hooks \ {h})

\* The second commit of a webhook that credited the wallet.
MarkPaid(h) ==
    /\ h.at = "credited"
    /\ Lockable(h.p)
    /\ PutStatus(h.p, "PAID", payment[h.p].known)
    /\ hooks' = hooks \ {h}
    /\ UNCHANGED walletVars

\* A webhook ends early: the provider does not answer, the database fails, the request
\* is dropped or the process stops.  What it has not committed is rolled back.
HookStops(h) ==
    /\ hooks' = hooks \ {h}
    /\ UNCHANGED <<walletVars, payment>>

-----------------------------------------------------------------------------
PaymentsStart ==
    \E p \in Payments :
        \/ \E sum \in Sums, quoted \in BOOLEAN : CreateTronadoDeposit(p, sum, quoted)
        \/ \E report \in Reports : HandleTronadoWebhook(p, report)

PaymentsStep ==
    \E h \in hooks :
        \/ \E toman \in Told : StatusArrives(h, toman)
        \/ MarkPaid(h)
        \/ HookStops(h)

-----------------------------------------------------------------------------
\* However the webhooks come, a payment has at most one row in its payer's ledger, of at
\* least the sum it asked for, and it is PAID only with that row
\* (payment_service.py:137-140; docstring of tronado_webhook, main.py:99-101).
PaidOnce ==
    \A p \in Payments :
        /\ \A i, j \in RowsFor(Payer[p], "DEPOSIT", p) : i = j
        /\ \A i \in RowsFor(Payer[p], "DEPOSIT", p) :
               ledger[Payer[p]][i].amount >= payment[p].amount
        /\ payment[p].status = "PAID" => Credited(p)
=============================================================================
