--------------------------- MODULE DeliveryProofs ---------------------------
(***************************************************************************)
(* Proofs about VpnDelivery, for every set of orders, panels and account   *)
(* names, any priorities and any number of attempts.                       *)
(***************************************************************************)
EXTENDS VpnDelivery, FiniteSetTheorems, TLAPS

USE DeliveryAssumption, PanelsAssumption

\* The steps of a session that talks, or has talked, to a panel.
Busy == {"creating", "waiting", "created", "saved"}

\* What a session made exists, is its own as long as no answer was lost, and ends up in
\* the service's row.
OrderOK(o) ==
    /\ pc[o] \in Busy => at[o] \in Panels
    /\ status[o] = "COMPLETED" => service[o] # NoPanel
    /\ \A q \in made[o] : remote[q][Name[o]] # 0
    /\ service[o] # NoPanel => service[o] \in made[o] /\ panel[service[o]] # "deleted"
    /\ pc[o] = "created" => at[o] \in made[o]
    /\ pc[o] = "saved" => service[o] = at[o]
    /\ o \notin doubt =>
          /\ pc[o] \in {"idle", "creating", "waiting"} => made[o] = {}
          /\ pc[o] \in {"created", "saved"} => made[o] \subseteq {at[o]}
          /\ pc[o] = "done" => made[o] \subseteq {service[o]}

\* No two orders made the same account.
Apart ==
    \A o, x \in Orders : (o # x /\ Name[o] = Name[x]) => made[o] \cap made[x] = {}

DeliveryInv == DeliveryTypeOK /\ Apart /\ \A o \in Orders : OrderOK(o)

-----------------------------------------------------------------------------
(* Panels and steps of the loops.                                          *)

\* Creating an account leaves the panels' accounts well typed, takes no account away, and
\* changes at most the one that was asked for, which did not exist.
LEMMA CreateUserEffect ==
    ASSUME remote \in [Panels -> [Accounts -> Nat]],
           NEW q \in Panels, NEW a \in Accounts, NEW answer, CreateUser(q, a, 1, answer)
    PROVE  /\ remote' \in [Panels -> [Accounts -> Nat]]
           /\ \A p \in Panels, b \in Accounts : remote[p][b] # 0 => remote'[p][b] # 0
           /\ remote' # remote => remote[q][a] = 0 /\ remote'[q][a] # 0
           /\ answer = "ok" => remote' # remote
<1>1. CASE remote' = remote
  <2>1. answer # "ok"
    BY <1>1 DEF CreateUser, Call
  <2> QED
    BY <1>1, <2>1
<1>2. CASE remote' # remote
  <2>1. remote[q][a] = 0 /\ remote' = [remote EXCEPT ![q][a] = 1]
    BY <1>2 DEF CreateUser, Call
  <2> QED
    BY <1>2, <2>1
<1> QED
  BY <1>1, <1>2

\* The loop over the panels goes on with one of S, or is over.
LEMMA NextPanelEffect ==
    ASSUME DeliveryTypeOK, NEW o \in Orders, NEW S \in SUBSET Panels, NextPanel(o, S)
    PROVE  /\ pc' \in [Orders -> Steps]
           /\ at' \in [Orders -> Panels \cup {NoPanel}]
           /\ left' \in [Orders -> SUBSET Panels]
           /\ tries' \in [Orders -> 0..(MaxAttempts - 1)]
           /\ pc'[o] \in {"creating", "done"}
           /\ pc'[o] = "creating" => at'[o] \in Panels
           /\ \A x \in Orders \ {o} : pc'[x] = pc[x] /\ at'[x] = at[x]
<1>1. CASE S = {} /\ pc' = [pc EXCEPT ![o] = "done"] /\ UNCHANGED <<at, left, tries>>
  BY <1>1 DEF DeliveryTypeOK, Steps
<1>2. ASSUME NEW q \in Preferred(S),
             pc' = [pc EXCEPT ![o] = "creating"],
             at' = [at EXCEPT ![o] = q],
             left' = [left EXCEPT ![o] = S \ {q}],
             tries' = [tries EXCEPT ![o] = 0]
      PROVE  /\ pc' \in [Orders -> Steps]
             /\ at' \in [Orders -> Panels \cup {NoPanel}]
             /\ left' \in [Orders -> SUBSET Panels]
             /\ tries' \in [Orders -> 0..(MaxAttempts - 1)]
             /\ pc'[o] \in {"creating", "done"}
             /\ pc'[o] = "creating" => at'[o] \in Panels
             /\ \A x \in Orders \ {o} : pc'[x] = pc[x] /\ at'[x] = at[x]
  <2>1. q \in Panels
    BY DEF Preferred
  <2>2. 0 \in 0..(MaxAttempts - 1)
    OBVIOUS
  <2> QED
    BY <1>2, <2>1, <2>2 DEF DeliveryTypeOK, Steps
<1> QED
  BY <1>1, <1>2 DEF NextPanel

\* An order that a step leaves alone stays as it is.
LEMMA OthersKept ==
    ASSUME DeliveryTypeOK, NEW x \in Orders, OrderOK(x),
           pc'[x] = pc[x], at'[x] = at[x], status'[x] = status[x],
           service'[x] = service[x], made'[x] = made[x], x \in doubt' <=> x \in doubt,
           \A p \in Panels, b \in Accounts : remote[p][b] # 0 => remote'[p][b] # 0,
           service[x] # NoPanel /\ panel[service[x]] # "deleted"
               => panel'[service[x]] # "deleted"
    PROVE  OrderOK(x)'
BY DEF OrderOK, DeliveryTypeOK

-----------------------------------------------------------------------------
(* The steps.                                                              *)

LEMMA DeliverStep ==
    ASSUME DeliveryInv, NEW o \in Orders, Deliver(o)
    PROVE  DeliveryInv'
<1> DEFINE Active == {q \in Panels : panel[q] = "ACTIVE"}
<1>1. NextPanel(o, Active) /\ pc[o] = "idle"
  BY DEF Deliver
<1>2. UNCHANGED <<panelVars, status, service, made, doubt, aborts>>
  BY DEF Deliver
<1>3. /\ pc' \in [Orders -> Steps]
      /\ at' \in [Orders -> Panels \cup {NoPanel}]
      /\ left' \in [Orders -> SUBSET Panels]
      /\ tries' \in [Orders -> 0..(MaxAttempts - 1)]
      /\ pc'[o] \in {"creating", "done"}
      /\ pc'[o] = "creating" => at'[o] \in Panels
      /\ \A x \in Orders \ {o} : pc'[x] = pc[x] /\ at'[x] = at[x]
  BY <1>1, NextPanelEffect DEF DeliveryInv
<1>4. DeliveryTypeOK'
  BY <1>2, <1>3 DEF DeliveryInv, DeliveryTypeOK, panelVars
<1>5. Apart'
  BY <1>2 DEF DeliveryInv, Apart
<1>6. OrderOK(o)'
  BY <1>1, <1>2, <1>3 DEF DeliveryInv, OrderOK, Busy, panelVars
<1>7. ASSUME NEW x \in Orders \ {o} PROVE OrderOK(x)'
  BY <1>2, <1>3, OthersKept DEF DeliveryInv, panelVars
<1> QED
  BY <1>4, <1>5, <1>6, <1>7 DEF DeliveryInv

\* One call of create_user: the accounts, the history and the three ways to go on.
LEMMA CreateAttemptStep ==
    ASSUME DeliveryInv, NEW o \in Orders, NEW answer \in Answers, CreateAttempt(o, answer)
    PROVE  DeliveryInv'
<1> DEFINE q == at[o]
           a == Name[o]
<1>1. pc[o] = "creating" /\ q \in Panels /\ a \in Accounts
  BY DEF CreateAttempt, DeliveryInv, OrderOK, Busy
<1>2. UNCHANGED <<panel, status, service, aborts>>
  BY DEF CreateAttempt
<1>3. /\ remote' \in [Panels -> [Accounts -> Nat]]
      /\ \A p \in Panels, b \in Accounts : remote[p][b] # 0 => remote'[p][b] # 0
      /\ remote' # remote => remote[q][a] = 0 /\ remote'[q][a] # 0
      /\ answer = "ok" => remote' # remote
  BY <1>1, CreateUserEffect DEF CreateAttempt, DeliveryInv, DeliveryTypeOK
<1>4. \/ remote' = remote /\ made' = made /\ doubt' = doubt
      \/ /\ remote' # remote
         /\ made' = [made EXCEPT ![o] = @ \cup {q}]
         /\ doubt' = IF answer = "ok" THEN doubt ELSE doubt \cup {o}
  BY DEF CreateAttempt
<1>5. /\ made' \in [Orders -> SUBSET Panels]
      /\ doubt' \subseteq Orders
      /\ \A x \in Orders \ {o} : made'[x] = made[x] /\ (x \in doubt' <=> x \in doubt)
  <2>1. made \in [Orders -> SUBSET Panels] /\ doubt \subseteq Orders
    BY DEF DeliveryInv, DeliveryTypeOK
  <2>2. CASE made' = made /\ doubt' = doubt
    BY <2>1, <2>2
  <2>3. CASE /\ made' = [made EXCEPT ![o] = @ \cup {q}]
             /\ doubt' = IF answer = "ok" THEN doubt ELSE doubt \cup {o}
    <3>1. made[o] \cup {q} \in SUBSET Panels
      BY <1>1, <2>1
    <3>2. doubt' \subseteq Orders /\ \A x \in Orders \ {o} : x \in doubt' <=> x \in doubt
      BY <2>1, <2>3
    <3>3. made' \in [Orders -> SUBSET Panels] /\ \A x \in Orders \ {o} : made'[x] = made[x]
      BY <2>1, <2>3, <3>1
    <3> QED
      BY <3>2, <3>3
  <2> QED
    BY <1>4, <2>2, <2>3
<1>6. /\ pc' \in [Orders -> Steps]
      /\ at' \in [Orders -> Panels \cup {NoPanel}]
      /\ left' \in [Orders -> SUBSET Panels]
      /\ tries' \in [Orders -> 0..(MaxAttempts - 1)]
      /\ IF answer = "ok" THEN pc'[o] = "created" /\ at'[o] = q
         ELSE /\ pc'[o] \in {"waiting", "creating", "done"}
              /\ pc'[o] # "done" => at'[o] \in Panels
      /\ \A x \in Orders \ {o} : pc'[x] = pc[x] /\ at'[x] = at[x]
  <2>1. CASE /\ answer = "ok"
             /\ pc' = [pc EXCEPT ![o] = "created"]
             /\ UNCHANGED <<at, left, tries>>
    BY <2>1 DEF DeliveryInv, DeliveryTypeOK, Steps
  <2>2. CASE /\ TryAgain(tries[o], answer)
             /\ pc' = [pc EXCEPT ![o] = "waiting"]
             /\ tries' = [tries EXCEPT ![o] = Attempt(@)]
             /\ UNCHANGED <<at, left>>
    <3>1. Attempt(tries[o]) \in 0..(MaxAttempts - 1) /\ answer # "ok"
      BY <2>2 DEF TryAgain, Attempt, DeliveryInv, DeliveryTypeOK
    <3> QED
      BY <1>1, <2>2, <3>1 DEF DeliveryInv, DeliveryTypeOK, Steps
  <2>3. CASE answer # "ok" /\ NextPanel(o, left[o])
    <3>1. left[o] \in SUBSET Panels
      BY DEF DeliveryInv, DeliveryTypeOK
    <3> QED
      BY <2>3, <3>1, NextPanelEffect DEF DeliveryInv
  <2> QED
    BY <2>1, <2>2, <2>3 DEF CreateAttempt
<1>7. DeliveryTypeOK'
  BY <1>2, <1>3, <1>5, <1>6 DEF DeliveryInv, DeliveryTypeOK
<1>8. Apart'
  <2>1. CASE made' = made
    BY <2>1 DEF DeliveryInv, Apart
  <2>2. CASE remote[q][a] = 0 /\ made' = [made EXCEPT ![o] = @ \cup {q}]
    <3>1. \A x \in Orders : Name[x] = a => q \notin made[x]
      BY <2>2 DEF DeliveryInv, OrderOK
    <3> QED
      BY <2>2, <3>1 DEF DeliveryInv, DeliveryTypeOK, Apart
  <2> QED
    BY <1>3, <1>4, <2>1, <2>2
<1>9. OrderOK(o)'
  <2>1. made[o] \subseteq Panels /\ \A p \in made[o] : remote'[p][a] # 0
    BY <1>1, <1>3 DEF DeliveryInv, DeliveryTypeOK, OrderOK
  <2>2. \A p \in made'[o] : remote'[p][a] # 0
    BY <1>3, <1>4, <2>1 DEF DeliveryInv, DeliveryTypeOK
  <2>3. made[o] \subseteq made'[o] /\ (answer = "ok" => q \in made'[o])
    BY <1>3, <1>4 DEF DeliveryInv, DeliveryTypeOK
  <2>4. o \notin doubt' => made[o] = {} /\ (answer # "ok" => made'[o] = {})
    BY <1>1, <1>4 DEF DeliveryInv, OrderOK
  <2>5. o \notin doubt' => made'[o] \subseteq {q}
    BY <1>4, <2>4 DEF DeliveryInv, DeliveryTypeOK
  <2> QED
    BY <1>1, <1>2, <1>6, <2>2, <2>3, <2>4, <2>5 DEF DeliveryInv, OrderOK, Busy
<1>10. ASSUME NEW x \in Orders \ {o} PROVE OrderOK(x)'
  BY <1>2, <1>3, <1>5, <1>6, OthersKept DEF DeliveryInv
<1> QED
  BY <1>7, <1>8, <1>9, <1>10 DEF DeliveryInv

\* The steps that only move the session, its row and its order.
LEMMA SessionStepKeeps ==
    ASSUME DeliveryInv, NEW o \in Orders,
           \/ WakeUp(o) \/ SaveService(o) \/ SaveFails(o) \/ Complete(o) \/ Abort(o)
    PROVE  DeliveryInv'
<1>1. /\ UNCHANGED <<panelVars, at, left, tries, made, doubt>>
      /\ \A x \in Orders \ {o} : /\ pc'[x] = pc[x] /\ status'[x] = status[x]
                                 /\ service'[x] = service[x]
  BY DEF WakeUp, SaveService, SaveFails, Complete, Abort, DeliveryInv, DeliveryTypeOK
<1>2. DeliveryTypeOK' /\ OrderOK(o)'
  <2>1. CASE WakeUp(o)
    BY <2>1 DEF WakeUp, DeliveryInv, DeliveryTypeOK, OrderOK, Busy, Steps, panelVars
  <2>2. CASE SaveService(o)
    <3>1. DeliveryTypeOK'
      BY <2>2 DEF SaveService, DeliveryInv, DeliveryTypeOK, OrderOK, Busy, Steps, panelVars
    <3>2. OrderOK(o)'
      BY <2>2 DEF SaveService, DeliveryInv, DeliveryTypeOK, OrderOK, Busy, panelVars
    <3> QED
      BY <3>1, <3>2
  <2>3. CASE SaveFails(o)
    BY <2>3 DEF SaveFails, DeliveryInv, DeliveryTypeOK, OrderOK, Busy, Steps, panelVars
  <2>4. CASE Complete(o)
    <3>1. DeliveryTypeOK'
      BY <2>4 DEF Complete, DeliveryInv, DeliveryTypeOK, Steps, panelVars
    <3>2. OrderOK(o)'
      BY <2>4 DEF Complete, DeliveryInv, DeliveryTypeOK, OrderOK, Busy, panelVars
    <3> QED
      BY <3>1, <3>2
  <2>5. CASE Abort(o)
    BY <2>5 DEF Abort, DeliveryInv, DeliveryTypeOK, OrderOK, Busy, Steps, panelVars
  <2> QED
    BY <2>1, <2>2, <2>3, <2>4, <2>5
<1>3. Apart'
  BY <1>1 DEF DeliveryInv, Apart
<1>4. ASSUME NEW x \in Orders \ {o} PROVE OrderOK(x)'
  BY <1>1, OthersKept DEF DeliveryInv, panelVars
<1> QED
  BY <1>2, <1>3, <1>4 DEF DeliveryInv

\* An administrator adds, switches or deletes a panel: no service loses its own.
LEMMA AdminPanelsStep ==
    ASSUME DeliveryInv, NEW q \in Panels, AdminPanels(q)
    PROVE  DeliveryInv'
<1>1. UNCHANGED deliveryVars /\ remote' = remote
  BY DEF AdminPanels, CreatePanel, ToggleStatus, DeletePanel
<1>2. panel' \in [Panels -> PanelStatuses]
  BY DEF AdminPanels, CreatePanel, ToggleStatus, DeletePanel, DeliveryInv, DeliveryTypeOK,
         PanelStatuses
<1>3. \A x \in Orders :
         service[x] # NoPanel /\ panel[service[x]] # "deleted"
            => panel'[service[x]] # "deleted"
  BY DEF AdminPanels, CreatePanel, ToggleStatus, DeletePanel, DeliveryInv, DeliveryTypeOK
<1>4. DeliveryTypeOK' /\ Apart'
  BY <1>1, <1>2 DEF DeliveryInv, DeliveryTypeOK, Apart, deliveryVars
<1>5. ASSUME NEW x \in Orders PROVE OrderOK(x)'
  BY <1>1, <1>3, OthersKept DEF DeliveryInv, deliveryVars
<1> QED
  BY <1>4, <1>5 DEF DeliveryInv

-----------------------------------------------------------------------------
LEMMA DeliveryInit == Init => DeliveryInv
BY DEF Init, DeliveryInv, DeliveryTypeOK, Apart, OrderOK, Busy, Steps, PanelStatuses

LEMMA DeliveryStep == DeliveryInv /\ [Next]_vars => DeliveryInv'
<1> SUFFICES ASSUME DeliveryInv, [Next]_vars PROVE DeliveryInv'
  OBVIOUS
<1>1. ASSUME NEW o \in Orders, Deliver(o) PROVE DeliveryInv'
  BY <1>1, DeliverStep
<1>2. ASSUME NEW o \in Orders, SessionStep(o) PROVE DeliveryInv'
  BY <1>2, CreateAttemptStep, SessionStepKeeps DEF SessionStep
<1>3. ASSUME NEW q \in Panels, AdminPanels(q) PROVE DeliveryInv'
  BY <1>3, AdminPanelsStep
<1>4. CASE UNCHANGED vars
  BY <1>4 DEF vars, panelVars, deliveryVars, DeliveryInv, DeliveryTypeOK, Apart, OrderOK
<1> QED
  BY <1>1, <1>2, <1>3, <1>4 DEF Next

LEMMA DeliveryInvariant == Spec => []DeliveryInv
BY DeliveryInit, DeliveryStep, PTL DEF Spec

\* Every variable of the delivery keeps its type; in particular no panel is called more
\* often than the retry helper allows.
THEOREM DeliveryTypes == Spec => []DeliveryTypeOK
<1>1. DeliveryInv => DeliveryTypeOK
  BY DEF DeliveryInv
<1> QED
  BY <1>1, DeliveryInvariant, PTL

\* Services have accounts of their own: whatever panels are tried, switched and deleted,
\* a delivered order has an account it created on a panel whose row exists, and two orders
\* that ask for one name never share it.
THEOREM ServicesOwnTheirAccounts == Spec => []ServiceHasOwnAccount
<1>1. DeliveryInv => ServiceHasOwnAccount
  BY DEF DeliveryInv, DeliveryTypeOK, Apart, OrderOK, ServiceHasOwnAccount
<1> QED
  BY <1>1, DeliveryInvariant, PTL

\* Retries and fail-over leave a second account behind only after a lost answer.
THEOREM OrphansNeedDoubt == Spec => []OrphanOnlyAfterDoubt
<1>1. DeliveryInv => OrphanOnlyAfterDoubt
  BY DEF DeliveryInv, OrderOK, OrphanOnlyAfterDoubt
<1> QED
  BY <1>1, DeliveryInvariant, PTL

-----------------------------------------------------------------------------
(* What DeliveryEnds rests on.  A delivery has a set of panels to try and  *)
(* a number of steps for the panel it is at; each of its steps takes a     *)
(* panel away or lowers the number, and nobody else touches either.        *)

\* An attempt, and the pause after a failed one, count for each attempt the helper has left.
StepsAt(o) ==
    CASE pc[o] = "waiting"  -> 2 * (MaxAttempts - tries[o]) + 4
      [] pc[o] = "creating" -> 2 * (MaxAttempts - tries[o]) + 3
      [] pc[o] = "created"  -> 2
      [] pc[o] = "saved"    -> 1
      [] OTHER              -> 0

\* A delivery can only try finitely many panels, and only so often each.
Countable(o) == IsFiniteSet(left[o]) /\ StepsAt(o) \in Nat

\* The panel is given up, or stays and has fewer steps left.
Closer(o) ==
    \/ Cardinality(left'[o]) < Cardinality(left[o])
    \/ left'[o] = left[o] /\ StepsAt(o)' < StepsAt(o)

\* A delivery's own step brings it closer to its end; any other step leaves it where it is.
RunsOut(o) ==
    /\ SessionStep(o) => Closer(o)
    /\ pc[o] # "idle" /\ ~SessionStep(o) => left'[o] = left[o] /\ StepsAt(o)' = StepsAt(o)

\* There are only as many panels as the admins have made.
PanelsFinite ==
    /\ IsFiniteSet({q \in Panels : panel[q] # "absent"})
    /\ \A o \in Orders : IsFiniteSet(left[o])

LEMMA StepsAreNat ==
    ASSUME DeliveryTypeOK, NEW o \in Orders
    PROVE  /\ StepsAt(o) \in Nat
           /\ pc[o] = "waiting" => StepsAt(o) = 2 * (MaxAttempts - tries[o]) + 4
           /\ pc[o] = "creating" => StepsAt(o) = 2 * (MaxAttempts - tries[o]) + 3
           /\ pc[o] = "created" => StepsAt(o) = 2
           /\ pc[o] = "saved" => StepsAt(o) = 1
           /\ pc[o] \in {"idle", "done", "dead"} => StepsAt(o) = 0
<1>1. tries[o] \in 0..(MaxAttempts - 1) /\ pc[o] \in Steps
  BY DEF DeliveryTypeOK
<1>2. /\ pc[o] = "waiting" => StepsAt(o) = 2 * (MaxAttempts - tries[o]) + 4
      /\ pc[o] = "creating" => StepsAt(o) = 2 * (MaxAttempts - tries[o]) + 3
      /\ pc[o] = "created" => StepsAt(o) = 2
      /\ pc[o] = "saved" => StepsAt(o) = 1
      /\ pc[o] \in {"idle", "done", "dead"} => StepsAt(o) = 0
  BY DEF StepsAt
<1>3. StepsAt(o) \in Nat
  <2>1. 2 * (MaxAttempts - tries[o]) + 4 \in Nat /\ 2 * (MaxAttempts - tries[o]) + 3 \in Nat
    BY <1>1
  <2> QED
    BY <1>1, <1>2, <2>1 DEF Steps
<1> QED
  BY <1>2, <1>3

LEMMA StepsWillBe ==
    ASSUME DeliveryTypeOK', NEW o \in Orders
    PROVE  /\ StepsAt(o)' \in Nat
           /\ pc'[o] = "waiting" => StepsAt(o)' = 2 * (MaxAttempts - tries'[o]) + 4
           /\ pc'[o] = "creating" => StepsAt(o)' = 2 * (MaxAttempts - tries'[o]) + 3
           /\ pc'[o] = "created" => StepsAt(o)' = 2
           /\ pc'[o] = "saved" => StepsAt(o)' = 1
           /\ pc'[o] \in {"idle", "done", "dead"} => StepsAt(o)' = 0
<1>1. tries'[o] \in 0..(MaxAttempts - 1) /\ pc'[o] \in Steps
  BY DEF DeliveryTypeOK
<1>2. /\ pc'[o] = "waiting" => StepsAt(o)' = 2 * (MaxAttempts - tries'[o]) + 4
      /\ pc'[o] = "creating" => StepsAt(o)' = 2 * (MaxAttempts - tries'[o]) + 3
      /\ pc'[o] = "created" => StepsAt(o)' = 2
      /\ pc'[o] = "saved" => StepsAt(o)' = 1
      /\ pc'[o] \in {"idle", "done", "dead"} => StepsAt(o)' = 0
  BY DEF StepsAt
<1>3. StepsAt(o)' \in Nat
  <2>1. 2 * (MaxAttempts - tries'[o]) + 4 \in Nat /\ 2 * (MaxAttempts - tries'[o]) + 3 \in Nat
    BY <1>1
  <2> QED
    BY <1>1, <1>2, <2>1 DEF Steps
<1> QED
  BY <1>2, <1>3

\* Going on to the next panel takes it out of those that are left.
LEMMA NextPanelCloser ==
    ASSUME DeliveryTypeOK, DeliveryTypeOK', NEW o \in Orders, IsFiniteSet(left[o]),
           pc[o] = "creating", NextPanel(o, left[o])
    PROVE  Closer(o)
<1>1. CASE pc' = [pc EXCEPT ![o] = "done"] /\ UNCHANGED <<at, left, tries>>
  <2>1. pc'[o] = "done" /\ left'[o] = left[o]
    BY <1>1 DEF DeliveryTypeOK
  <2>2. StepsAt(o)' = 0
    BY <2>1, StepsWillBe
  <2>3. StepsAt(o) >= 3 /\ StepsAt(o) \in Nat
    <3>1. StepsAt(o) = 2 * (MaxAttempts - tries[o]) + 3 /\ tries[o] \in 0..(MaxAttempts - 1)
      BY StepsAreNat DEF DeliveryTypeOK
    <3> QED
      BY <3>1, StepsAreNat
  <2> QED
    BY <2>1, <2>2, <2>3 DEF Closer
<1>2. ASSUME NEW q \in Preferred(left[o]), left' = [left EXCEPT ![o] = left[o] \ {q}]
      PROVE  Closer(o)
  <2>1. left'[o] = left[o] \ {q} /\ q \in left[o]
    BY <1>2 DEF DeliveryTypeOK, Preferred
  <2>2. Cardinality(left'[o]) = Cardinality(left[o]) - 1 /\ Cardinality(left[o]) \in Nat
    BY <2>1, FS_RemoveElement, FS_CardinalityType
  <2> QED
    BY <2>2 DEF Closer
<1> QED
  BY <1>1, <1>2 DEF NextPanel

LEMMA SessionCloser ==
    ASSUME DeliveryTypeOK, DeliveryTypeOK', NEW o \in Orders, IsFiniteSet(left[o]),
           SessionStep(o)
    PROVE  Closer(o)
<1>1. tries[o] \in 0..(MaxAttempts - 1) /\ tries'[o] \in 0..(MaxAttempts - 1)
  BY DEF DeliveryTypeOK
<1>2. /\ StepsAt(o)' \in Nat
      /\ pc'[o] = "waiting" => StepsAt(o)' = 2 * (MaxAttempts - tries'[o]) + 4
      /\ pc'[o] = "creating" => StepsAt(o)' = 2 * (MaxAttempts - tries'[o]) + 3
      /\ pc'[o] = "created" => StepsAt(o)' = 2
      /\ pc'[o] = "saved" => StepsAt(o)' = 1
      /\ pc'[o] \in {"idle", "done", "dead"} => StepsAt(o)' = 0
  BY StepsWillBe
<1>3. ASSUME NEW answer \in Answers, CreateAttempt(o, answer) PROVE Closer(o)
  <2>1. pc[o] = "creating" /\ StepsAt(o) = 2 * (MaxAttempts - tries[o]) + 3
    BY <1>3, StepsAreNat DEF CreateAttempt
  <2>2. CASE pc' = [pc EXCEPT ![o] = "created"] /\ UNCHANGED <<at, left, tries>>
    <3>1. pc'[o] = "created" /\ left'[o] = left[o]
      BY <2>2 DEF DeliveryTypeOK
    <3>2. StepsAt(o)' = 2
      BY <1>2, <3>1
    <3> QED
      BY <1>1, <2>1, <3>1, <3>2 DEF Closer
  <2>3. CASE /\ pc' = [pc EXCEPT ![o] = "waiting"]
             /\ tries' = [tries EXCEPT ![o] = Attempt(@)]
             /\ UNCHANGED <<at, left>>
    <3>1. pc'[o] = "waiting" /\ left'[o] = left[o] /\ tries'[o] = tries[o] + 1
      BY <2>3 DEF DeliveryTypeOK, Attempt
    <3>2. StepsAt(o)' = 2 * (MaxAttempts - tries'[o]) + 4
      BY <1>2, <3>1
    <3> QED
      BY <1>1, <2>1, <3>1, <3>2 DEF Closer
  <2>4. CASE NextPanel(o, left[o])
    BY <2>1, <2>4, NextPanelCloser
  <2> QED
    BY <1>3, <2>2, <2>3, <2>4 DEF CreateAttempt
<1>4. CASE WakeUp(o)
  <2>1. pc[o] = "waiting" /\ pc'[o] = "creating" /\ left'[o] = left[o] /\ tries'[o] = tries[o]
    BY <1>4 DEF WakeUp, DeliveryTypeOK
  <2>2. StepsAt(o) = 2 * (MaxAttempts - tries[o]) + 4
    BY <2>1, StepsAreNat
  <2>3. StepsAt(o)' = 2 * (MaxAttempts - tries[o]) + 3
    BY <1>2, <2>1
  <2> QED
    BY <1>1, <2>1, <2>2, <2>3 DEF Closer
<1>5. CASE SaveService(o) \/ SaveFails(o) \/ Complete(o)
  <2>1. /\ left'[o] = left[o]
        /\ \/ pc[o] = "created" /\ pc'[o] \in {"saved", "dead"}
           \/ pc[o] = "saved" /\ pc'[o] = "done"
    BY <1>5 DEF SaveService, SaveFails, Complete, DeliveryTypeOK
  <2>2. /\ pc[o] = "created" => StepsAt(o) = 2
        /\ pc[o] = "saved" => StepsAt(o) = 1
    BY StepsAreNat
  <2> QED
    BY <1>2, <2>1, <2>2 DEF Closer
<1>6. CASE Abort(o)
  <2>1. left'[o] = left[o] /\ pc'[o] = "dead" /\ pc[o] \in {"creating", "waiting", "created", "saved"}
    BY <1>6 DEF Abort, DeliveryTypeOK
  <2>2. StepsAt(o)' = 0
    BY <1>2, <2>1
  <2>3. StepsAt(o) > 0
    <3>1. /\ pc[o] = "waiting" => StepsAt(o) = 2 * (MaxAttempts - tries[o]) + 4
          /\ pc[o] = "creating" => StepsAt(o) = 2 * (MaxAttempts - tries[o]) + 3
          /\ pc[o] = "created" => StepsAt(o) = 2
          /\ pc[o] = "saved" => StepsAt(o) = 1
      BY StepsAreNat
    <3> QED
      BY <1>1, <2>1, <3>1
  <2> QED
    BY <2>1, <2>2, <2>3 DEF Closer
<1> QED
  BY <1>3, <1>4, <1>5, <1>6 DEF SessionStep

\* A step that leaves the session of o where it is.
LEMMA NotCloser ==
    ASSUME NEW o \in Orders, pc'[o] = pc[o], left'[o] = left[o], tries'[o] = tries[o]
    PROVE  left'[o] = left[o] /\ StepsAt(o)' = StepsAt(o)
BY DEF StepsAt

LEMMA OthersUntouched ==
    ASSUME DeliveryTypeOK, NEW o \in Orders, NEW x \in Orders \ {o}, Deliver(x) \/ SessionStep(x)
    PROVE  pc'[o] = pc[o] /\ left'[o] = left[o] /\ tries'[o] = tries[o]
<1>1. ASSUME NEW S, NextPanel(x, S)
      PROVE  pc'[o] = pc[o] /\ left'[o] = left[o] /\ tries'[o] = tries[o]
  BY <1>1 DEF NextPanel, DeliveryTypeOK
<1>2. CASE Deliver(x)
  BY <1>1, <1>2 DEF Deliver
<1>3. ASSUME NEW answer \in Answers, CreateAttempt(x, answer)
      PROVE  pc'[o] = pc[o] /\ left'[o] = left[o] /\ tries'[o] = tries[o]
  BY <1>1, <1>3 DEF CreateAttempt, DeliveryTypeOK
<1>4. CASE WakeUp(x) \/ SaveService(x) \/ SaveFails(x) \/ Complete(x) \/ Abort(x)
  BY <1>4 DEF WakeUp, SaveService, SaveFails, Complete, Abort, DeliveryTypeOK
<1> QED
  BY <1>2, <1>3, <1>4 DEF SessionStep

\* The panels to try are among those that have been made.
LEMMA NextPanelFinite ==
    ASSUME DeliveryTypeOK, PanelsFinite, NEW x \in Orders, NEW S, IsFiniteSet(S), NextPanel(x, S)
    PROVE  \A o \in Orders : IsFiniteSet(left'[o])
<1>1. CASE UNCHANGED left
  BY <1>1 DEF PanelsFinite
<1>2. ASSUME NEW q, left' = [left EXCEPT ![x] = S \ {q}]
      PROVE  \A o \in Orders : IsFiniteSet(left'[o])
  <2>1. IsFiniteSet(S \ {q})
    BY FS_Subset
  <2>2. \A o \in Orders : left'[o] = IF o = x THEN S \ {q} ELSE left[o]
    BY <1>2 DEF DeliveryTypeOK
  <2> QED
    BY <2>1, <2>2 DEF PanelsFinite
<1> QED
  BY <1>1, <1>2 DEF NextPanel

LEMMA PanelsStayFinite ==
    ASSUME DeliveryTypeOK, PanelsFinite, [Next]_vars
    PROVE  PanelsFinite'
<1> DEFINE Made == {q \in Panels : panel[q] # "absent"}
<1>1. ASSUME UNCHANGED panel, \A o \in Orders : IsFiniteSet(left'[o]) PROVE PanelsFinite'
  BY <1>1 DEF PanelsFinite
<1>2. ASSUME UNCHANGED left, NEW q \in Panels, {p \in Panels : panel'[p] # "absent"} \subseteq Made \cup {q}
      PROVE  PanelsFinite'
  <2>1. IsFiniteSet(Made \cup {q})
    BY FS_AddElement DEF PanelsFinite
  <2>2. IsFiniteSet({p \in Panels : panel'[p] # "absent"})
    BY <1>2, <2>1, FS_Subset
  <2> QED
    BY <1>2, <2>2 DEF PanelsFinite
<1>3. ASSUME NEW o \in Orders, Deliver(o) PROVE PanelsFinite'
  <2>1. IsFiniteSet({q \in Panels : panel[q] = "ACTIVE"})
    <3>1. {q \in Panels : panel[q] = "ACTIVE"} \subseteq Made
      OBVIOUS
    <3> QED
      BY <3>1, FS_Subset DEF PanelsFinite
  <2> QED
    BY <1>1, <1>3, <2>1, NextPanelFinite DEF Deliver, panelVars
<1>4. ASSUME NEW o \in Orders, NEW answer \in Answers, CreateAttempt(o, answer) PROVE PanelsFinite'
  <2>1. IsFiniteSet(left[o])
    BY DEF PanelsFinite
  <2>2. CASE UNCHANGED left
    BY <1>1, <1>4, <2>2 DEF CreateAttempt, PanelsFinite
  <2>3. CASE NextPanel(o, left[o])
    BY <1>1, <1>4, <2>1, <2>3, NextPanelFinite DEF CreateAttempt
  <2> QED
    BY <1>4, <2>2, <2>3 DEF CreateAttempt
<1>5. ASSUME NEW o \in Orders, WakeUp(o) \/ SaveService(o) \/ SaveFails(o) \/ Complete(o) \/ Abort(o)
      PROVE  PanelsFinite'
  BY <1>1, <1>5 DEF WakeUp, SaveService, SaveFails, Complete, Abort, panelVars, PanelsFinite
<1>6. ASSUME NEW q \in Panels, AdminPanels(q) PROVE PanelsFinite'
  <2>1. UNCHANGED left /\ \A p \in Panels \ {q} : panel'[p] = panel[p]
    BY <1>6 DEF AdminPanels, CreatePanel, ToggleStatus, DeletePanel, deliveryVars, DeliveryTypeOK
  <2>2. {p \in Panels : panel'[p] # "absent"} \subseteq Made \cup {q}
    BY <2>1
  <2> QED
    BY <1>2, <2>1, <2>2
<1>7. CASE UNCHANGED vars
  BY <1>7 DEF vars, panelVars, deliveryVars, PanelsFinite
<1> QED
  BY <1>3, <1>4, <1>5, <1>6, <1>7 DEF Next, SessionStep

LEMMA DeliveryRunsOut ==
    ASSUME DeliveryTypeOK, DeliveryTypeOK', PanelsFinite, [Next]_vars, NEW o \in Orders
    PROVE  RunsOut(o)
<1>1. SessionStep(o) => Closer(o)
  BY SessionCloser DEF PanelsFinite
<1>2. ASSUME pc[o] # "idle", ~SessionStep(o)
      PROVE  pc'[o] = pc[o] /\ left'[o] = left[o] /\ tries'[o] = tries[o]
  <2>1. ASSUME NEW x \in Orders, Deliver(x) \/ SessionStep(x)
        PROVE  pc'[o] = pc[o] /\ left'[o] = left[o] /\ tries'[o] = tries[o]
    <3>1. x # o
      BY <1>2, <2>1 DEF Deliver
    <3> QED
      BY <2>1, <3>1, OthersUntouched
  <2>2. CASE UNCHANGED deliveryVars
    BY <2>2 DEF deliveryVars
  <2> QED
    BY <2>1, <2>2 DEF Next, AdminPanels, vars
<1> QED
  BY <1>1, <1>2, NotCloser DEF RunsOut

\* No delivery goes on for ever by itself: each of its steps has one panel less to try, or
\* fewer steps left with the panel it is at, and nobody else gives it more of either, however
\* panels are added, switched and deleted (core/retry.py:39-46). This is DeliveryEnds but for
\* the fairness of the scheduling.
THEOREM DeliveriesRunOut ==
    Spec => /\ [](\A o \in Orders : Countable(o))
            /\ [][\A o \in Orders : RunsOut(o)]_vars
<1>1. Init => PanelsFinite
  <2> SUFFICES ASSUME Init PROVE PanelsFinite
    OBVIOUS
  <2>1. {q \in Panels : panel[q] # "absent"} = {} /\ \A o \in Orders : left[o] = {}
    BY DEF Init
  <2> QED
    BY <2>1, FS_EmptySet DEF PanelsFinite
<1>2. DeliveryInv => DeliveryTypeOK
  BY DEF DeliveryInv
<1>3. DeliveryTypeOK /\ PanelsFinite /\ [Next]_vars => PanelsFinite'
  BY PanelsStayFinite
<1>4. DeliveryTypeOK /\ PanelsFinite => \A o \in Orders : Countable(o)
  BY StepsAreNat DEF PanelsFinite, Countable
<1>5. DeliveryTypeOK /\ DeliveryTypeOK' /\ PanelsFinite /\ [Next]_vars =>
          [\A o \in Orders : RunsOut(o)]_vars
  BY DeliveryRunsOut
<1> QED
  BY <1>1, <1>2, <1>3, <1>4, <1>5, DeliveryInvariant, PTL DEF Spec
=============================================================================
