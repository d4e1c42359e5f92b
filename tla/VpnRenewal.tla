------------------------------ MODULE VpnRenewal ----------------------------
(***************************************************************************)
(* Renewing a delivered VPN service with the wallet.  The bot offers two   *)
(* ways, and both are modelled:                                            *)
(*                                                                         *)
(*   Via[r] = "quote"  the button of one service (handlers/orders.py,      *)
(*       handle_vpn_renew_confirm): VPNRenewalService.renew_service debits *)
(*       the wallet, resets the traffic, extends the account with a single *)
(*       call each, and refunds on a ProviderError;                        *)
(*   Via[r] = "order"  the button of the list of services                  *)
(*       (handle_my_vpn_service_renew_execute): try_auto_renew_vpn debits  *)
(*       the wallet for an order row, then extends the account and resets  *)
(*       the traffic with retries (VPNProvisioningService.renew_service).  *)
(*                                                                         *)
(* A renewal r is one press of a confirmation button.  No guard keeps two  *)
(* of them apart.  Its session holds the user's wallet and the service's   *)
(* row as it loaded them (see WalletService).  The account of a service    *)
(* has the name of the service; time is counted in days.                   *)
(***************************************************************************)
EXTENDS WalletService, VpnPanels, FiniteSets

CONSTANTS
    Services,       \* delivered services, with their vpn_services rows
    Renewals,       \* presses of a confirmation button
    TopUps,         \* deposit requests that are credited meanwhile
    Owner,          \* Owner[s]: vpn_services.user_id
    PanelOf,        \* PanelOf[s]: vpn_services.panel_id
    FirstExpire,    \* FirstExpire[s]: when the service expires at first
    ServiceOf,      \* ServiceOf[r]: the service a button was shown for
    Via,            \* Via[r]: "quote" or "order"
    Price,          \* Price[r]: the price, which the "order" way takes undiscounted
    Days,           \* Days[s]: products.vpn_duration_days
    HasLimit,       \* the services whose product has a data limit
    Credited,       \* Credited[d]: whom a deposit request is credited to
    Sum,            \* Sum[d]: its amount
    LastDay,        \* bound on the time, for the model checker
    MaxAborts       \* bound on the sessions that die

ASSUME RenewalAssumption ==
    /\ Accounts = Services
    /\ Refs = Renewals \cup TopUps
    /\ Owner \in [Services -> Users]
    /\ PanelOf \in [Services -> Panels]
    /\ FirstExpire \in [Services -> Nat \ {0}]
    /\ ServiceOf \in [Renewals -> Services]
    /\ Via \in [Renewals -> {"quote", "order"}]
    /\ Price \in [Renewals -> Nat \ {0}]
    /\ Days \in [Services -> Nat \ {0}]
    /\ HasLimit \subseteq Services
    /\ Credited \in [TopUps -> Users]
    /\ Sum \in [TopUps -> Nat \ {0}]
    /\ LastDay \in Nat
    /\ MaxAborts \in Nat

VARIABLES
    kind,           \* vpn_panels.panel_type, which never changes
    now,            \* today
    row,            \* row[s]: vpn_services.expire_at
    order,          \* orders.status of a renewal's order row, or "none"
    topup,          \* deposit requests that are credited
    pc,             \* where the session of a renewal is
    held,           \* the balance and the expiry as the session has them
    tries,          \* calls made so far of the operation the session retries
    extended,       \* history: renewals whose new expiry was stored in the row
    overlapped,     \* history: services renewed by two sessions at a time
    aborts          \* sessions that died so far

rowVars     == <<row, extended>>
sessionVars == <<pc, held, tries>>
otherVars   == <<kind, now, topup, overlapped, aborts>>

vars == <<walletVars, panelVars, rowVars, order, sessionVars, otherVars>>

\* "lost" is the end of a session by an exception nobody expects.
Steps == {"idle", "opened", "loaded", "charged", "modifying", "resetting", "waiting",
          "failed", "extended", "stored", "refunded", "done", "dead", "lost"}

\* The steps in which a session has loaded the service and not yet stored its expiry.
Holding == {"loaded", "charged", "modifying", "resetting", "waiting", "extended"}

Init ==
    /\ WalletInit
    /\ panel = [q \in Panels |-> "ACTIVE"]
    /\ remote = [q \in Panels |-> [s \in Services |->
                    IF PanelOf[s] = q THEN FirstExpire[s] ELSE 0]]
    /\ kind \in [Panels -> {"MARZBAN", "SANAEI"}]
    /\ now = 1
    /\ row = FirstExpire
    /\ order = [r \in Renewals |-> "none"]
    /\ topup = {}
    /\ pc = [r \in Renewals |-> "idle"]
    /\ held = [r \in Renewals |-> [balance |-> 0, expire |-> 0]]
    /\ tries = [r \in Renewals |-> 0]
    /\ extended = {}
    /\ overlapped = {}
    /\ aborts = 0

-----------------------------------------------------------------------------
User(r) == Owner[ServiceOf[r]]
PanelFor(r) == PanelOf[ServiceOf[r]]

Goto(r, step) == pc' = [pc EXCEPT ![r] = step]

Larger(m, n) == IF m > n THEN m ELSE n

\* Mutant of NewExpire: the days that are left are not kept.
FromToday(s, expire) == now + Days[s]

\* The days are added to the expiry the session knows, or to today if that has passed.
NewExpire(s, expire) == Larger(expire, now) + Days[s]

\* The handler's get_or_create loads the user and the wallet ...
Open(r) ==
    /\ pc[r] = "idle"
    /\ held' = [held EXCEPT ![r].balance = wallet[User(r)]]
    /\ Goto(r, "opened")
    /\ UNCHANGED <<walletVars, panelVars, rowVars, order, tries, otherVars>>

\* ... and the service function the service; "quote" checks the panel before it charges.
LoadService(r) ==
    LET s == ServiceOf[r]
    IN  /\ pc[r] = "opened"
        /\ IF Via[r] = "quote" /\ panel[PanelFor(r)] # "ACTIVE"
           THEN /\ Goto(r, "done")
                /\ UNCHANGED <<held, overlapped>>
           ELSE /\ Goto(r, "loaded")
                /\ held' = [held EXCEPT ![r].expire = row[s]]
                /\ overlapped' = overlapped \cup
                     {x \in {s} : \E y \in Renewals : ServiceOf[y] = s /\ pc[y] \in Holding}
        /\ UNCHANGED <<walletVars, panelVars, rowVars, order, tries, kind, now, topup, aborts>>

\* "quote" debits and, with no await before the panel is called, computes the expiry.
ChargeQuote(r) ==
    /\ pc[r] = "loaded"
    /\ Via[r] = "quote"
    /\ Debit(User(r), held[r].balance, Price[r], "PURCHASE", r)
    /\ held' = [held EXCEPT ![r] = [balance |-> @.balance - Price[r],
                                    expire |-> NewExpire(ServiceOf[r], @.expire)]]
    /\ Goto(r, "resetting")
    /\ UNCHANGED <<panelVars, rowVars, order, tries, otherVars>>

\* "order" commits the order row with the debit.
ChargeOrder(r) ==
    /\ pc[r] = "loaded"
    /\ Via[r] = "order"
    /\ Debit(User(r), held[r].balance, Price[r], "PURCHASE", r)
    /\ held' = [held EXCEPT ![r].balance = @ - Price[r]]
    /\ order' = [order EXCEPT ![r] = "PENDING"]
    /\ Goto(r, "charged")
    /\ UNCHANGED <<panelVars, rowVars, tries, otherVars>>

\* InsufficientBalanceError: nothing is kept.
Refuse(r) ==
    /\ pc[r] = "loaded"
    /\ held[r].balance < Price[r]
    /\ Goto(r, "done")
    /\ UNCHANGED <<walletVars, panelVars, rowVars, order, held, tries, otherVars>>

\* VPNProvisioningService.renew_service looks for the panel only now, the order being paid.
OpenPanel(r) ==
    /\ pc[r] = "charged"
    /\ IF panel[PanelFor(r)] = "ACTIVE"
       THEN /\ Goto(r, "modifying")
            /\ held' = [held EXCEPT ![r].expire = NewExpire(ServiceOf[r], @)]
       ELSE /\ Goto(r, "failed")
            /\ UNCHANGED held
    /\ UNCHANGED <<walletVars, panelVars, rowVars, order, tries, otherVars>>

-----------------------------------------------------------------------------
(* Calls to the panel.                                                     *)

\* "order" retries after a delay what the panel could not do just now; "quote" never does.
Retries(r, answer) == Via[r] = "order" /\ TryAgain(tries[r], answer)

\* Mutant of GiveUp: the error of the last attempt is logged and forgotten.
GiveUpSilently(r) == Goto(r, "extended")

\* The error of the last attempt reaches the handler of ProviderError.
GiveUp(r) == Goto(r, "failed")

\* What follows a successful modify_user: "quote" has reset the traffic before.
AfterModify(r) ==
    IF Via[r] = "order" /\ ServiceOf[r] \in HasLimit THEN "resetting" ELSE "extended"

ModifyAttempt(r, answer) ==
    /\ pc[r] = "modifying"
    /\ ModifyUser(PanelFor(r), ServiceOf[r], held[r].expire, answer)
    /\ \/ /\ answer = "ok"
          /\ Goto(r, AfterModify(r))
          /\ tries' = [tries EXCEPT ![r] = 0]
       \/ /\ Retries(r, answer)
          /\ Goto(r, "waiting")
          /\ tries' = [tries EXCEPT ![r] = Attempt(@)]
       \/ /\ answer # "ok"
          /\ ~Retries(r, answer)
          /\ GiveUp(r)
          /\ UNCHANGED tries
    /\ UNCHANGED <<walletVars, panel, rowVars, order, held, otherVars>>

\* The delay before the next attempt to extend the account is over.
WakeUp(r) ==
    /\ pc[r] = "waiting"
    /\ Goto(r, "modifying")
    /\ UNCHANGED <<walletVars, panelVars, rowVars, order, held, tries, otherVars>>

\* "quote" resets first and ignores what the panel returns.
ResetFirst(r, answer) ==
    /\ pc[r] = "resetting"
    /\ Via[r] = "quote"
    /\ IF answer = "ok" THEN Goto(r, "modifying") ELSE Goto(r, "failed")
    /\ UNCHANGED <<walletVars, panelVars, rowVars, order, held, tries, otherVars>>

\* "order" resets last, best effort.  Its retries change nothing the model knows, so the
\* answer is that of the last of them.  The account as the panel returns it replaces what
\* modify_user returned; but the reset_traffic that counts in marzban.py (217-218, it
\* hides the one of line 207) returns None, and the line after it raises AttributeError.
ResetLast(r, answer) ==
    /\ pc[r] = "resetting"
    /\ Via[r] = "order"
    /\ \/ /\ answer = "ok"
          /\ kind[PanelFor(r)] = "MARZBAN"
          /\ Goto(r, "lost")
          /\ UNCHANGED held
       \/ /\ answer = "ok"
          /\ kind[PanelFor(r)] = "SANAEI"
          /\ Goto(r, "extended")
          /\ held' = [held EXCEPT ![r].expire = remote[PanelFor(r)][ServiceOf[r]]]
       \/ /\ answer # "ok"
          /\ Goto(r, "extended")
          /\ UNCHANGED held
    /\ UNCHANGED <<walletVars, panelVars, rowVars, order, tries, otherVars>>

-----------------------------------------------------------------------------
\* The row of the service is committed with what the panel answered.
Store(r) ==
    /\ pc[r] = "extended"
    /\ row' = [row EXCEPT ![ServiceOf[r]] = held[r].expire]
    /\ extended' = extended \cup {r}
    /\ Goto(r, IF Via[r] = "order" THEN "stored" ELSE "done")
    /\ UNCHANGED <<walletVars, panelVars, order, held, tries, otherVars>>

CompleteOrder(r) ==
    /\ pc[r] = "stored"
    /\ order' = [order EXCEPT ![r] = "COMPLETED"]
    /\ Goto(r, "done")
    /\ UNCHANGED <<walletVars, panelVars, rowVars, held, tries, otherVars>>

\* Mutant of Refund: the wallet is taken as it was before the debit.
RefundOnOldBalance(r) ==
    /\ pc[r] = "failed"
    /\ Credit(User(r), held[r].balance + Price[r], Price[r], "REFUND", r)
    /\ held' = [held EXCEPT ![r].balance = @ + Price[r]]
    /\ Goto(r, IF Via[r] = "order" THEN "refunded" ELSE "done")
    /\ UNCHANGED <<panelVars, rowVars, order, tries, otherVars>>

\* The refund commits by itself; the order's status follows in a commit of its own.
Refund(r) ==
    /\ pc[r] = "failed"
    /\ Credit(User(r), held[r].balance, Price[r], "REFUND", r)
    /\ held' = [held EXCEPT ![r].balance = @ + Price[r]]
    /\ Goto(r, IF Via[r] = "order" THEN "refunded" ELSE "done")
    /\ UNCHANGED <<panelVars, rowVars, order, tries, otherVars>>

MarkRefunded(r) ==
    /\ pc[r] = "refunded"
    /\ order' = [order EXCEPT ![r] = "REFUNDED"]
    /\ Goto(r, "done")
    /\ UNCHANGED <<walletVars, panelVars, rowVars, held, tries, otherVars>>

\* The process stops, or the database fails, between two steps.
Abort(r) ==
    /\ pc[r] \notin {"idle", "done", "dead", "lost"}
    /\ aborts < MaxAborts
    /\ aborts' = aborts + 1
    /\ Goto(r, "dead")
    /\ UNCHANGED <<walletVars, panelVars, rowVars, order, held, tries, kind, now, topup,
                   overlapped>>

\* DepositService.approve, which loads the wallet under its lock.
TopUp(d) ==
    /\ d \notin topup
    /\ topup' = topup \cup {d}
    /\ Credit(Credited[d], wallet[Credited[d]], Sum[d], "DEPOSIT", d)
    /\ UNCHANGED <<panelVars, rowVars, order, sessionVars, kind, now, overlapped, aborts>>

AdminPanels(q) ==
    /\ ToggleStatus(q)
    /\ UNCHANGED <<walletVars, rowVars, order, sessionVars, otherVars>>

Tick ==
    /\ now < LastDay
    /\ now' = now + 1
    /\ UNCHANGED <<walletVars, panelVars, rowVars, order, sessionVars, kind, topup, overlapped,
                   aborts>>

SessionStep(r) ==
    \/ LoadService(r)
    \/ ChargeQuote(r)
    \/ ChargeOrder(r)
    \/ Refuse(r)
    \/ OpenPanel(r)
    \/ \E answer \in Answers :
          ModifyAttempt(r, answer) \/ ResetFirst(r, answer) \/ ResetLast(r, answer)
    \/ WakeUp(r)
    \/ Store(r)
    \/ CompleteOrder(r)
    \/ Refund(r)
    \/ MarkRefunded(r)
    \/ Abort(r)

Next ==
    \/ \E r \in Renewals : Open(r) \/ SessionStep(r)
    \/ \E d \in TopUps : TopUp(d)
    \/ \E q \in Panels : AdminPanels(q)
    \/ Tick

Spec == Init /\ [][Next]_vars

\* A session that has started goes on: every call ends with an answer or a timeout.
FairSpec == Spec /\ \A r \in Renewals : WF_vars(SessionStep(r))

-----------------------------------------------------------------------------
(* Properties.                                                             *)

\* The types of the state of renewals.
RenewalTypeOK ==
    /\ wallet \in [Users -> Nat]
    /\ ledger \in [Users -> Seq(Row)]
    /\ panel \in [Panels -> PanelStatuses]
    /\ remote \in [Panels -> [Services -> Nat]]
    /\ kind \in [Panels -> {"MARZBAN", "SANAEI"}]
    /\ now \in Nat
    /\ row \in [Services -> Nat]
    /\ order \in [Renewals -> {"none", "PENDING", "COMPLETED", "REFUNDED"}]
    /\ topup \subseteq TopUps
    /\ pc \in [Renewals -> Steps]
    /\ held \in [Renewals -> [balance : Nat, expire : Nat]]
    /\ tries \in [Renewals -> 0..(MaxAttempts - 1)]
    /\ extended \subseteq Renewals
    /\ overlapped \subseteq Services
    /\ aborts \in Nat

ChargesOf(r) == RowsFor(User(r), "PURCHASE", r)
RefundsOf(r) == RowsFor(User(r), "REFUND", r)

\* Every refund row of r returns exactly what a charge row of r took: same sum, and it
\* leads back to the balance the session had before it paid.
RefundUndoesCharge(r) ==
    \A j \in RefundsOf(r) : \E i \in ChargesOf(r) :
        /\ i < j
        /\ ledger[User(r)][j].amount = -ledger[User(r)][i].amount
        /\ ledger[User(r)][j].before = ledger[User(r)][i].after

\* A renewal is charged at most once and refunded at most once, and when its session has
\* come to its end the customer has either paid and the longer expiry is stored, or has
\* his money back, or was never charged (vpn_renewal_service.py:81-84,
\* auto_delivery_service.py:101-104).  An order row says the same as the ledger.
PaidOrRefunded ==
    \A r \in Renewals :
        /\ \A i, j \in ChargesOf(r) : i = j
        /\ \A i, j \in RefundsOf(r) : i = j
        /\ RefundUndoesCharge(r)
        /\ r \in extended => ChargesOf(r) # {} /\ RefundsOf(r) = {}
        /\ pc[r] = "done" =>
              \/ r \in extended
              \/ ChargesOf(r) = {}
              \/ RefundsOf(r) # {}
        /\ order[r] = "COMPLETED" => r \in extended
        /\ order[r] = "REFUNDED" => RefundsOf(r) # {}
        /\ pc[r] = "done" => order[r] # "PENDING"

\* While its renewals do not overlap, a service never shows a later expiry than its panel
\* has, and every renewal that was paid and not refunded adds its full number of days
\* (vpn_provisioning_service.py:174-176, vpn_renewal_service.py:101-102).
PaidDaysKept ==
    \A s \in Services \ overlapped :
        /\ row[s] <= remote[PanelOf[s]][s]
        /\ row[s] >= FirstExpire[s]
                     + Days[s] * Cardinality({r \in extended : ServiceOf[r] = s})

\* Whatever the panel answers, a session that was paid comes to its end
\* (core/retry.py:39-46): there is no answer that keeps it retrying.
RenewalEnds ==
    \A r \in Renewals : pc[r] = "modifying" ~> pc[r] \in {"done", "dead", "lost"}

\* What the comment at vpn_provisioning_service.py:191-194 says: the reset of the traffic
\* is best effort, it never makes a renewal fail that the panel has accepted.
ResetNeverFailsRenewal ==
    \A r \in Renewals : pc[r] = "lost" => r \in extended
=============================================================================
