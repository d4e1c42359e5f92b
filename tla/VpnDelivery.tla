----------------------------- MODULE VpnDelivery ----------------------------
(***************************************************************************)
(* Automatic delivery of paid VPN orders: try_auto_deliver_vpn             *)
(* (auto_delivery_service.py) and VPNProvisioningService.provision_for_user*)
(* with its retries and its fail-over from panel to panel.                 *)
(*                                                                         *)
(* An order of this module has been paid and waits for delivery: it is the *)
(* state "placed" of module Shop, whose step DeliverVpn this module        *)
(* refines.  Expiry dates play no part here: an account that exists        *)
(* expires at 1.                                                           *)
(***************************************************************************)
EXTENDS VpnPanels, FiniteSets

CONSTANTS
    Orders,         \* paid orders of VPN products
    NoPanel,        \* an order without a vpn_services row
    Name,           \* Name[o]: prefix_user_second, the account asked for
    Priority,       \* Priority[q]: vpn_panels.priority
    MaxAborts       \* bound on the sessions that die, for the model checker

ASSUME DeliveryAssumption ==
    /\ NoPanel \notin Panels
    /\ Name \in [Orders -> Accounts]
    /\ Priority \in [Panels -> Int]
    /\ MaxAborts \in Nat

VARIABLES
    status,         \* orders.status
    service,        \* the panel of the vpn_services row of an order, or NoPanel
    pc,             \* where the delivering session is
    at,             \* the panel it talks to
    left,           \* the panels it has still to try
    tries,          \* calls made to that panel
    made,           \* history: panels on which a call of the session created an account
    doubt,          \* history: sessions whose call took effect and was answered by an error
    aborts          \* sessions that died so far

deliveryVars == <<status, service, pc, at, left, tries, made, doubt, aborts>>

vars == <<panelVars, deliveryVars>>

Steps == {"idle", "creating", "waiting", "created", "saved", "done", "dead"}

Init ==
    /\ panel = [q \in Panels |-> "absent"]
    /\ remote = [q \in Panels |-> [a \in Accounts |-> 0]]
    /\ status = [o \in Orders |-> "WAITING_ADMIN"]
    /\ service = [o \in Orders |-> NoPanel]
    /\ pc = [o \in Orders |-> "idle"]
    /\ at = [o \in Orders |-> NoPanel]
    /\ left = [o \in Orders |-> {}]
    /\ tries = [o \in Orders |-> 0]
    /\ made = [o \in Orders |-> {}]
    /\ doubt = {}
    /\ aborts = 0

-----------------------------------------------------------------------------
\* The panels of the lowest priority number; among them the cached health and the id
\* decide, here anything may.
Preferred(S) == {q \in S : \A p \in S : Priority[q] <= Priority[p]}

\* The loop over the panels goes on with the panels S, or ends in NoAvailablePanelError,
\* which leaves the order to the admins.
NextPanel(o, S) ==
    \/ /\ S = {}
       /\ pc' = [pc EXCEPT ![o] = "done"]
       /\ UNCHANGED <<at, left, tries>>
    \/ \E q \in Preferred(S) :
          /\ pc' = [pc EXCEPT ![o] = "creating"]
          /\ at' = [at EXCEPT ![o] = q]
          /\ left' = [left EXCEPT ![o] = S \ {q}]
          /\ tries' = [tries EXCEPT ![o] = 0]

Deliver(o) ==
    /\ pc[o] = "idle"
    /\ NextPanel(o, {q \in Panels : panel[q] = "ACTIVE"})
    /\ UNCHANGED <<panelVars, status, service, made, doubt, aborts>>

\* One call of create_user, and what the loops make of its answer.
CreateAttempt(o, answer) ==
    /\ pc[o] = "creating"
    /\ CreateUser(at[o], Name[o], 1, answer)
    /\ IF remote' = remote
       THEN UNCHANGED <<made, doubt>>
       ELSE /\ made' = [made EXCEPT ![o] = @ \cup {at[o]}]
            /\ doubt' = IF answer = "ok" THEN doubt ELSE doubt \cup {o}
    /\ \/ /\ answer = "ok"
          /\ pc' = [pc EXCEPT ![o] = "created"]
          /\ UNCHANGED <<at, left, tries>>
       \/ /\ TryAgain(tries[o], answer)
          /\ pc' = [pc EXCEPT ![o] = "waiting"]
          /\ tries' = [tries EXCEPT ![o] = Attempt(@)]
          /\ UNCHANGED <<at, left>>
       \/ /\ answer # "ok"
          /\ ~TryAgain(tries[o], answer)
          /\ NextPanel(o, left[o])
    /\ UNCHANGED <<panel, status, service, aborts>>

\* The delay before the next attempt is over.
WakeUp(o) ==
    /\ pc[o] = "waiting"
    /\ pc' = [pc EXCEPT ![o] = "creating"]
    /\ UNCHANGED <<panelVars, status, service, at, left, tries, made, doubt, aborts>>

\* Mutant of SaveService: the loop is not left after the service is stored.
SaveAndGoOn(o) ==
    /\ pc[o] = "created"
    /\ panel[at[o]] # "deleted"
    /\ service' = [service EXCEPT ![o] = at[o]]
    /\ IF left[o] = {}
       THEN pc' = [pc EXCEPT ![o] = "saved"] /\ UNCHANGED <<at, left, tries>>
       ELSE NextPanel(o, left[o])
    /\ UNCHANGED <<panelVars, status, made, doubt, aborts>>

\* The vpn_services row is committed; its foreign key needs the panel's row.
SaveService(o) ==
    /\ pc[o] = "created"
    /\ panel[at[o]] # "deleted"
    /\ service' = [service EXCEPT ![o] = at[o]]
    /\ pc' = [pc EXCEPT ![o] = "saved"]
    /\ UNCHANGED <<panelVars, status, at, left, tries, made, doubt, aborts>>

\* The panel was deleted after it was picked: IntegrityError, which nobody catches.
SaveFails(o) ==
    /\ pc[o] = "created"
    /\ panel[at[o]] = "deleted"
    /\ pc' = [pc EXCEPT ![o] = "dead"]
    /\ UNCHANGED <<panelVars, status, service, at, left, tries, made, doubt, aborts>>

Complete(o) ==
    /\ pc[o] = "saved"
    /\ status' = [status EXCEPT ![o] = "COMPLETED"]
    /\ pc' = [pc EXCEPT ![o] = "done"]
    /\ UNCHANGED <<panelVars, service, at, left, tries, made, doubt, aborts>>

\* The process stops, or the session meets an exception that is not a ProviderError.
Abort(o) ==
    /\ pc[o] \in {"creating", "waiting", "created", "saved"}
    /\ aborts < MaxAborts
    /\ aborts' = aborts + 1
    /\ pc' = [pc EXCEPT ![o] = "dead"]
    /\ UNCHANGED <<panelVars, status, service, at, left, tries, made, doubt>>

\* Mutant of AdminPanels: a panel is deleted without regard to the services on it.
AdminPanelsUnchecked(q) ==
    /\ CreatePanel(q) \/ ToggleStatus(q) \/ DeletePanel(q, FALSE)
    /\ UNCHANGED deliveryVars

AdminPanels(q) ==
    /\ \/ CreatePanel(q)
       \/ ToggleStatus(q)
       \/ DeletePanel(q, \E o \in Orders : service[o] = q)
    /\ UNCHANGED deliveryVars

SessionStep(o) ==
    \/ \E answer \in Answers : CreateAttempt(o, answer)
    \/ WakeUp(o)
    \/ SaveService(o)
    \/ SaveFails(o)
    \/ Complete(o)
    \/ Abort(o)

Next ==
    \/ \E o \in Orders : Deliver(o) \/ SessionStep(o)
    \/ \E q \in Panels : AdminPanels(q)

Spec == Init /\ [][Next]_vars

\* A session that talks to a panel goes on: every call ends with an answer or a timeout.
FairSpec == Spec /\ \A o \in Orders : WF_vars(SessionStep(o))

-----------------------------------------------------------------------------
(* Properties.                                                             *)

\* The types of the state of provisioning.
DeliveryTypeOK ==
    /\ panel \in [Panels -> PanelStatuses]
    /\ remote \in [Panels -> [Accounts -> Nat]]
    /\ status \in [Orders -> {"WAITING_ADMIN", "COMPLETED"}]
    /\ service \in [Orders -> Panels \cup {NoPanel}]
    /\ pc \in [Orders -> Steps]
    /\ at \in [Orders -> Panels \cup {NoPanel}]
    /\ left \in [Orders -> SUBSET Panels]
    /\ tries \in [Orders -> 0..(MaxAttempts - 1)]
    /\ made \in [Orders -> SUBSET Panels]
    /\ doubt \subseteq Orders
    /\ aborts \in Nat

\* A delivered order has a service; every service has its account on a panel whose row
\* still exists, an account that its own session created and that no other service uses,
\* although orders of one user in one second ask for the same name
\* (vpn_provisioning_service.py:105) and panels are deleted meanwhile.
ServiceHasOwnAccount ==
    \A o \in Orders :
        /\ status[o] = "COMPLETED" => service[o] # NoPanel
        /\ service[o] # NoPanel =>
              /\ panel[service[o]] # "deleted"
              /\ remote[service[o]][Name[o]] # 0
              /\ service[o] \in made[o]
              /\ \A x \in Orders \ {o} : Name[x] = Name[o] => service[x] # service[o]

\* An account nobody was told of remains on a panel only if the panel answered the call
\* that created it by an error, or the session died: retries and fail-over alone never
\* leave a second account behind (vpn_provisioning_service.py:108-146).
OrphanOnlyAfterDoubt ==
    \A o \in Orders : (pc[o] = "done" /\ o \notin doubt) => made[o] \subseteq {service[o]}

\* Every delivery comes to an end: the attempts on a panel and the panels to try run out
\* (core/retry.py:39-46), so that the customer gets his service or the admins the order.
DeliveryEnds ==
    \A o \in Orders : pc[o] = "creating" ~> pc[o] \in {"done", "dead"}
=============================================================================
