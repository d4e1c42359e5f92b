--------------------------- MODULE PaymentPromise ---------------------------
(***************************************************************************)
(* What a payment through an outside provider promises its payer, however  *)
(* often, late or contradictorily the provider reports: the sum of a       *)
(* payment reaches the wallet at most once, it is never less than what the *)
(* payment asked for, and a payment is called settled only after its sum   *)
(* has reached the wallet, and then for good.  (Comments of                *)
(* payment_service.py:137-140, crypto_deposit_service.py:113-117 and       *)
(* main.py:99-101.)                                                        *)
(*                                                                         *)
(* This is the abstract specification; Funds maps the Toman payments and   *)
(* the coin orders to it.                                                  *)
(***************************************************************************)
EXTENDS Naturals

CONSTANTS
    Bills,      \* the payments considered
    Sums        \* the sums a payment may ask for or bring

VARIABLES
    due,        \* due[b]: the sum bill b asks for; 0 while there is no bill
    credited,   \* credited[b]: the sum that reached the payer's wallet for b
    settled     \* settled[b]: b is reported as paid

promiseVars == <<due, credited, settled>>

PromiseInit ==
    /\ due = [b \in Bills |-> 0]
    /\ credited = [b \in Bills |-> 0]
    /\ settled = [b \in Bills |-> FALSE]

Issue(b, sum) ==
    /\ due[b] = 0
    /\ due' = [due EXCEPT ![b] = sum]
    /\ UNCHANGED <<credited, settled>>

CreditBill(b, sum) ==
    /\ due[b] > 0
    /\ sum >= due[b]
    /\ credited[b] = 0
    /\ credited' = [credited EXCEPT ![b] = sum]
    /\ UNCHANGED <<due, settled>>

SettleBill(b) ==
    /\ credited[b] > 0
    /\ settled' = [settled EXCEPT ![b] = TRUE]
    /\ UNCHANGED <<due, credited>>

PromiseNext ==
    \E b \in Bills :
        \/ \E sum \in Sums : Issue(b, sum) \/ CreditBill(b, sum)
        \/ SettleBill(b)

PromiseSpec == PromiseInit /\ [][PromiseNext]_promiseVars
=============================================================================
