--------------------------- MODULE RenewalProofs ----------------------------
(***************************************************************************)
(* Proofs about VpnRenewal, for every set of services, renewals, panels    *)
(* and users, any prices and durations, and any number of attempts.        *)
(***************************************************************************)
EXTENDS VpnRenewal, RowProofs

\* The steps before the debit, and those between the debit and the session's outcome.
Unpaid == {"idle", "opened", "loaded"}
Paid   == {"charged", "modifying", "resetting", "waiting", "failed", "extended"}

\* What the ledger says of renewal r: at most one charge, at most one refund, and while
\* the session is paid, one charge that ends with the balance the session remembers.
RowsOK(r) ==
    /\ \A i, j \in ChargesOf(r) : i = j
    /\ \A i, j \in RefundsOf(r) : i = j
    /\ RefundUndoesCharge(r)
    /\ pc[r] \in Unpaid => ChargesOf(r) = {}
    /\ pc[r] \in Unpaid \cup Paid => RefundsOf(r) = {}
    /\ pc[r] \in Paid =>
          /\ ChargesOf(r) # {}
          /\ \A i \in ChargesOf(r) : /\ ledger[User(r)][i].amount = -Price[r]
                                     /\ ledger[User(r)][i].after = held[r].balance

\* What the order row and the history say of renewal r.
OutcomeOK(r) ==
    /\ r \in extended => ChargesOf(r) # {} /\ RefundsOf(r) = {}
    /\ pc[r] \in Unpaid \cup Paid => r \notin extended
    /\ pc[r] \in Unpaid => order[r] = "none"
    /\ Via[r] = "quote" => order[r] = "none"
    /\ pc[r] = "stored" => r \in extended /\ Via[r] = "order"
    /\ pc[r] = "refunded" => RefundsOf(r) # {} /\ Via[r] = "order"
    /\ pc[r] = "done" => \/ r \in extended
                         \/ ChargesOf(r) = {}
                         \/ RefundsOf(r) # {}
    /\ pc[r] = "done" => order[r] # "PENDING"
    /\ order[r] = "COMPLETED" => r \in extended
    /\ order[r] = "REFUNDED" => RefundsOf(r) # {}

\* The renewals of s whose expiry was stored.
StoredFor(s) == {r \in extended : ServiceOf[r] = s}

\* A session that holds the service of an unshared renewal: it knows the expiry of the
\* row, then one that is later by the days of the product, then one the panel has.
HolderOK(r) ==
    LET s == ServiceOf[r]
    IN  /\ pc[r] \in {"loaded", "charged"} => held[r].expire = row[s]
        /\ pc[r] \in {"modifying", "waiting", "resetting", "extended"} =>
              held[r].expire >= row[s] + Days[s]
        /\ pc[r] = "extended" \/ (pc[r] = "resetting" /\ Via[r] = "order") =>
              held[r].expire <= remote[PanelOf[s]][s]

\* A service that was never renewed by two sessions at a time.
DaysOK(s) ==
    /\ row[s] <= remote[PanelOf[s]][s]
    /\ row[s] >= FirstExpire[s] + Days[s] * Cardinality(StoredFor(s))
    /\ \A r, y \in Renewals :
          /\ ServiceOf[r] = s /\ pc[r] \in Holding
          /\ ServiceOf[y] = s /\ pc[y] \in Holding
          => r = y
    /\ \A r \in Renewals : ServiceOf[r] = s => HolderOK(r)

RenewalInv ==
    /\ RenewalTypeOK
    /\ IsFiniteSet(extended)
    /\ \A r \in Renewals : RowsOK(r) /\ OutcomeOK(r)
    /\ \A s \in Services \ overlapped : DaysOK(s)

-----------------------------------------------------------------------------
(* What a posting does to the wallets and to the rows of the ledger.       *)

WalletTypeOK ==
    /\ wallet \in [Users -> Int]
    /\ ledger \in [Users -> Seq(Row)]

LEMMA PostEffect ==
    ASSUME WalletTypeOK,
           NEW u \in Users, NEW seen \in Int, NEW amount \in Int,
           NEW type \in TxTypes, NEW ref \in Refs,
           Post(u, seen, amount, type, ref)
    PROVE  /\ WalletTypeOK'
           /\ wallet'[u] = seen + amount
           /\ \A v \in Users : v # u => wallet'[v] = wallet[v] /\ ledger'[v] = ledger[v]
           /\ Len(ledger'[u]) = Len(ledger[u]) + 1
           /\ \A i \in 1..Len(ledger[u]) : ledger'[u][i] = ledger[u][i]
           /\ ledger'[u][Len(ledger[u]) + 1] =
                [type |-> type, ref |-> ref, amount |-> amount,
                 before |-> seen, after |-> seen + amount]
<1> DEFINE entry == [type |-> type, ref |-> ref, amount |-> amount,
                     before |-> seen, after |-> seen + amount]
<1>1. entry \in Row
  BY DEF Row
<1>2. ledger \in [Users -> Seq(Row)] /\ ledger' = [ledger EXCEPT ![u] = Append(@, entry)]
  BY DEF WalletTypeOK, Post
<1> HIDE DEF entry
<1>3. /\ ledger' \in [Users -> Seq(Row)]
      /\ \A v \in Users : v # u => ledger'[v] = ledger[v]
      /\ Len(ledger'[u]) = Len(ledger[u]) + 1
      /\ \A i \in 1..Len(ledger[u]) : ledger'[u][i] = ledger[u][i]
      /\ ledger'[u][Len(ledger[u]) + 1] = entry
  BY <1>1, <1>2, AppendRow
<1>4. /\ wallet' \in [Users -> Int]
      /\ wallet'[u] = seen + amount
      /\ \A v \in Users : v # u => wallet'[v] = wallet[v]
  BY DEF WalletTypeOK, Post
<1>5. WalletTypeOK'
  BY <1>3, <1>4 DEF WalletTypeOK
<1> QED
  BY <1>3, <1>4, <1>5 DEF entry

\* A posting adds its row to the rows of its own type and reference, and to no others.
LEMMA PostRows ==
    ASSUME WalletTypeOK,
           NEW u \in Users, NEW seen \in Int, NEW amount \in Int,
           NEW type \in TxTypes, NEW ref \in Refs,
           Post(u, seen, amount, type, ref),
           NEW v \in Users, NEW t, NEW r
    PROVE  RowsFor(v, t, r)' =
             IF v = u /\ t = type /\ r = ref
             THEN RowsFor(v, t, r) \cup {Len(ledger[u]) + 1}
             ELSE RowsFor(v, t, r)
<1>1. /\ WalletTypeOK'
      /\ \A w \in Users : w # u => wallet'[w] = wallet[w] /\ ledger'[w] = ledger[w]
      /\ Len(ledger'[u]) = Len(ledger[u]) + 1
      /\ \A i \in 1..Len(ledger[u]) : ledger'[u][i] = ledger[u][i]
      /\ ledger'[u][Len(ledger[u]) + 1] =
           [type |-> type, ref |-> ref, amount |-> amount,
            before |-> seen, after |-> seen + amount]
  BY PostEffect
<1>2. CASE v # u
  BY <1>1, <1>2 DEF RowsFor
<1>3. CASE v = u
  <2>1. /\ ledger[u] \in Seq(Row)
        /\ ledger'[u] \in Seq(Row)
        /\ Len(ledger[u]) \in Nat
    BY <1>1 DEF WalletTypeOK
  <2>2. DOMAIN ledger'[u] = DOMAIN ledger[u] \cup {Len(ledger[u]) + 1}
    BY <1>1, <2>1
  <2>3. \A i \in DOMAIN ledger[u] : ledger'[u][i] = ledger[u][i]
    BY <1>1, <2>1
  <2>4. /\ ledger'[u][Len(ledger[u]) + 1].type = type
        /\ ledger'[u][Len(ledger[u]) + 1].ref = ref
    BY <1>1
  <2>5. RowsFor(v, t, r)' =
          {i \in DOMAIN ledger'[u] : ledger'[u][i].type = t /\ ledger'[u][i].ref = r}
    BY <1>3 DEF RowsFor
  <2>6. RowsFor(v, t, r) =
          {i \in DOMAIN ledger[u] : ledger[u][i].type = t /\ ledger[u][i].ref = r}
    BY <1>3 DEF RowsFor
  <2> QED
    BY <1>3, <2>2, <2>3, <2>4, <2>5, <2>6
<1> QED
  BY <1>2, <1>3

-----------------------------------------------------------------------------
(* The rows of a renewal.                                                  *)

\* A step that adds no row for x.
RowsKept(x) ==
    /\ ChargesOf(x)' = ChargesOf(x)
    /\ RefundsOf(x)' = RefundsOf(x)
    /\ \A i \in DOMAIN ledger[User(x)] : ledger'[User(x)][i] = ledger[User(x)][i]

LEMMA WalletTyped == RenewalTypeOK => WalletTypeOK
<1> SUFFICES ASSUME wallet \in [Users -> Nat], ledger \in [Users -> Seq(Row)]
             PROVE  WalletTypeOK
  BY DEF RenewalTypeOK
<1>1. wallet \in [Users -> Int]
  OBVIOUS
<1> QED
  BY <1>1 DEF WalletTypeOK

LEMMA UserTyped == \A x \in Renewals : User(x) \in Users
BY RenewalAssumption DEF User

LEMMA SilentWallet ==
    ASSUME UNCHANGED walletVars, NEW x \in Renewals
    PROVE  RowsKept(x)
<1>1. ledger' = ledger
  BY DEF walletVars
<1>2. ChargesOf(x)' = ChargesOf(x)
  BY <1>1 DEF ChargesOf, RowsFor, User
<1>3. RefundsOf(x)' = RefundsOf(x)
  BY <1>1 DEF RefundsOf, RowsFor, User
<1> QED
  BY <1>1, <1>2, <1>3 DEF RowsKept

LEMMA PostTypes ==
    ASSUME RenewalTypeOK, NEW u \in Users, NEW seen \in Nat, NEW amount \in Int,
           seen + amount >= 0, NEW type \in TxTypes, NEW ref \in Refs,
           Post(u, seen, amount, type, ref)
    PROVE  wallet' \in [Users -> Nat] /\ ledger' \in [Users -> Seq(Row)]
<1>1. WalletTypeOK /\ seen \in Int
  BY WalletTyped
<1>2. WalletTypeOK'
  BY <1>1, PostEffect
<1>3. wallet' \in [Users -> Nat]
  <2>1. seen + amount \in Nat
    OBVIOUS
  <2> QED
    BY <2>1 DEF Post, RenewalTypeOK
<1> QED
  BY <1>2, <1>3 DEF WalletTypeOK

\* A posting that is not a charge or refund of x leaves the rows of x alone.
LEMMA PostKeepsRows ==
    ASSUME RenewalTypeOK, NEW u \in Users, NEW seen \in Nat, NEW amount \in Int,
           NEW type \in TxTypes, NEW ref \in Refs,
           Post(u, seen, amount, type, ref),
           NEW x \in Renewals, x # ref \/ type \notin {"PURCHASE", "REFUND"}
    PROVE  RowsKept(x)
<1>1. WalletTypeOK
  BY WalletTyped
<1>2. User(x) \in Users /\ seen \in Int
  BY UserTyped
<1>3. /\ RowsFor(User(x), "PURCHASE", x)' = RowsFor(User(x), "PURCHASE", x)
      /\ RowsFor(User(x), "REFUND", x)' = RowsFor(User(x), "REFUND", x)
  BY <1>1, <1>2, PostRows
<1>4. \A i \in DOMAIN ledger[User(x)] : ledger'[User(x)][i] = ledger[User(x)][i]
  <2>1. ledger[User(x)] \in Seq(Row)
    BY <1>1, <1>2 DEF WalletTypeOK
  <2>2. CASE User(x) = u
    <3>1. \A i \in 1..Len(ledger[u]) : ledger'[u][i] = ledger[u][i]
      BY <1>1, <1>2, PostEffect
    <3> QED
      BY <2>1, <2>2, <3>1
  <2>3. CASE User(x) # u
    <3>1. \A v \in Users : v # u => ledger'[v] = ledger[v]
      BY <1>1, <1>2, PostEffect
    <3> QED
      BY <1>2, <2>3, <3>1
  <2> QED
    BY <2>2, <2>3
<1> QED
  BY <1>3, <1>4 DEF RowsKept, ChargesOf, RefundsOf, User

LEMMA UndoKept ==
    ASSUME NEW x \in Renewals, RowsKept(x), RefundUndoesCharge(x)
    PROVE  RefundUndoesCharge(x)'
<1>1. ChargesOf(x) \subseteq DOMAIN ledger[User(x)] /\ RefundsOf(x) \subseteq DOMAIN ledger[User(x)]
  BY DEF ChargesOf, RefundsOf, RowsFor
<1>2. User(x)' = User(x)
  BY DEF User
<1> QED
  BY <1>1, <1>2 DEF RowsKept, RefundUndoesCharge

\* A renewal that a step leaves alone stays as it is.
LEMMA RenewalKept ==
    ASSUME NEW x \in Renewals, RowsOK(x), OutcomeOK(x), RowsKept(x),
           pc'[x] = pc[x], order'[x] = order[x], held'[x].balance = held[x].balance,
           x \in extended' <=> x \in extended
    PROVE  RowsOK(x)' /\ OutcomeOK(x)'
<1>1. RefundUndoesCharge(x)'
  BY UndoKept DEF RowsOK
<1>2. ChargesOf(x) \subseteq DOMAIN ledger[User(x)]
  BY DEF ChargesOf, RowsFor
<1>3. User(x)' = User(x)
  BY DEF User
<1> QED
  BY <1>1, <1>2, <1>3 DEF RowsOK, OutcomeOK, RowsKept

-----------------------------------------------------------------------------
(* The services.                                                           *)

\* A service is as it was if its row, its account and the renewals that hold it are.
LEMMA ServiceKept ==
    ASSUME NEW s \in Services, DaysOK(s),
           row'[s] = row[s], remote'[PanelOf[s]][s] = remote[PanelOf[s]][s],
           StoredFor(s)' = StoredFor(s),
           \A x \in Renewals : ServiceOf[x] = s =>
              pc'[x] = pc[x] /\ held'[x].expire = held[x].expire
    PROVE  DaysOK(s)'
<1>1. \A x \in Renewals : ServiceOf[x] = s => HolderOK(x)'
  BY DEF DaysOK, HolderOK
<1> QED
  BY <1>1 DEF DaysOK

\* So it is if the one session that holds it goes on, or changes its account.
LEMMA ServiceMoves ==
    ASSUME NEW r \in Renewals, DaysOK(ServiceOf[r]),
           row' = row, extended' = extended,
           LET s == ServiceOf[r]
               q == PanelOf[s]
           IN  \/ remote'[q][s] = remote[q][s]
               \/ pc[r] \in Holding /\ row[s] <= remote'[q][s],
           \A x \in Renewals \ {r} : pc'[x] = pc[x] /\ held'[x] = held[x],
           pc[r] \in Holding \/ pc'[r] \notin Holding,
           HolderOK(r)'
    PROVE  DaysOK(ServiceOf[r])'
<1> DEFINE s == ServiceOf[r]
<1>1. \A x \in Renewals \ {r} : ServiceOf[x] = s => HolderOK(x)'
  BY DEF DaysOK, HolderOK, Holding
<1>2. StoredFor(s)' = StoredFor(s)
  BY DEF StoredFor
<1> QED
  BY <1>1, <1>2 DEF DaysOK

\* NewExpire adds the days of the product to the expiry it is given, at least.
LEMMA NewExpireLonger ==
    ASSUME now \in Nat, NEW s \in Services, NEW e \in Nat
    PROVE  NewExpire(s, e) \in Nat /\ NewExpire(s, e) >= e + Days[s]
BY RenewalAssumption DEF NewExpire, Larger

-----------------------------------------------------------------------------
(* What a step of session r leaves alone.                                  *)

OthersKept(r) ==
    /\ \A x \in Renewals \ {r} :
          pc'[x] = pc[x] /\ order'[x] = order[x] /\ held'[x] = held[x]
    /\ extended' = extended \/ extended' = extended \cup {r}

LEMMA Moved ==
    ASSUME RenewalInv, NEW r \in Renewals, NEW step \in Steps, Goto(r, step)
    PROVE  /\ pc' \in [Renewals -> Steps] /\ pc'[r] = step
           /\ \A x \in Renewals \ {r} : pc'[x] = pc[x]
BY DEF Goto, RenewalInv, RenewalTypeOK

LEMMA HeldChanged ==
    ASSUME RenewalInv, NEW r \in Renewals, NEW b \in Nat, NEW e \in Nat,
           held' = [held EXCEPT ![r] = [balance |-> b, expire |-> e]]
    PROVE  /\ held' \in [Renewals -> [balance : Nat, expire : Nat]]
           /\ held'[r].balance = b /\ held'[r].expire = e
           /\ \A x \in Renewals \ {r} : held'[x] = held[x]
BY DEF RenewalInv, RenewalTypeOK

LEMMA ExpireChanged ==
    ASSUME RenewalInv, NEW r \in Renewals, NEW e \in Nat,
           held' = [held EXCEPT ![r].expire = e]
    PROVE  /\ held' \in [Renewals -> [balance : Nat, expire : Nat]]
           /\ held'[r].balance = held[r].balance /\ held'[r].expire = e
           /\ \A x \in Renewals \ {r} : held'[x] = held[x]
BY DEF RenewalInv, RenewalTypeOK

LEMMA BalanceChanged ==
    ASSUME RenewalInv, NEW r \in Renewals, NEW b \in Nat,
           held' = [held EXCEPT ![r].balance = b]
    PROVE  /\ held' \in [Renewals -> [balance : Nat, expire : Nat]]
           /\ held'[r].balance = b /\ held'[r].expire = held[r].expire
           /\ \A x \in Renewals \ {r} : held'[x] = held[x]
BY DEF RenewalInv, RenewalTypeOK

LEMMA HeldTyped ==
    ASSUME RenewalInv, NEW r \in Renewals
    PROVE  /\ held[r].balance \in Nat /\ held[r].expire \in Nat
           /\ ServiceOf[r] \in Services /\ User(r) \in Users
           /\ Price[r] \in Nat \ {0} /\ Days[ServiceOf[r]] \in Nat
           /\ Via[r] \in {"quote", "order"} /\ PanelFor(r) \in Panels /\ r \in Refs
           /\ row[ServiceOf[r]] \in Nat /\ remote[PanelFor(r)][ServiceOf[r]] \in Nat
BY RenewalAssumption DEF RenewalInv, RenewalTypeOK, User, PanelFor

\* A step that does not touch the wallet keeps the rows of r in order, if it neither
\* pays nor takes back a payment.
LEMMA SilentRows ==
    ASSUME RenewalInv, NEW r \in Renewals, UNCHANGED walletVars,
           pc'[r] \in Unpaid => pc[r] \in Unpaid,
           pc'[r] \in Paid => pc[r] \in Paid /\ held'[r].balance = held[r].balance
    PROVE  RowsOK(r)' /\ ChargesOf(r)' = ChargesOf(r) /\ RefundsOf(r)' = RefundsOf(r)
<1>1. RowsKept(r) /\ RefundUndoesCharge(r)' /\ RowsOK(r)
  BY SilentWallet, UndoKept DEF RenewalInv, RowsOK
<1>2. ChargesOf(r) \subseteq DOMAIN ledger[User(r)] /\ User(r)' = User(r)
  BY DEF ChargesOf, RowsFor, User
<1> QED
  BY <1>1, <1>2 DEF RowsOK, RowsKept

\* Every other renewal keeps its rows, every other service its expiry: what is left to
\* show of a step of session r is about r and its own service.
LEMMA SessionStepKeeps ==
    ASSUME RenewalInv, NEW r \in Renewals, OthersKept(r), overlapped \subseteq overlapped',
           \A x \in Renewals \ {r} : RowsKept(x),
           \A s \in Services \ {ServiceOf[r]} :
              row'[s] = row[s] /\ remote'[PanelOf[s]][s] = remote[PanelOf[s]][s],
           RenewalTypeOK', RowsOK(r)', OutcomeOK(r)',
           ServiceOf[r] \notin overlapped' => DaysOK(ServiceOf[r])'
    PROVE  RenewalInv'
<1>1. ASSUME NEW x \in Renewals \ {r} PROVE RowsOK(x)' /\ OutcomeOK(x)'
  BY RenewalKept DEF RenewalInv, OthersKept
<1>2. ASSUME NEW s \in (Services \ overlapped') \ {ServiceOf[r]} PROVE DaysOK(s)'
  <2>1. DaysOK(s)
    BY DEF RenewalInv
  <2>2. StoredFor(s)' = StoredFor(s)
    BY DEF StoredFor, OthersKept
  <2> QED
    BY <2>1, <2>2, ServiceKept DEF OthersKept
<1>3. IsFiniteSet(extended')
  BY FS_AddElement DEF RenewalInv, OthersKept
<1> QED
  BY <1>1, <1>2, <1>3 DEF RenewalInv

-----------------------------------------------------------------------------
(* The steps of a session.                                                 *)

LEMMA OpenStep ==
    ASSUME RenewalInv, NEW r \in Renewals, Open(r)
    PROVE  RenewalInv'
<1>1. /\ UNCHANGED <<walletVars, panelVars, rowVars, order, tries, otherVars>>
      /\ pc[r] = "idle" /\ pc' = [pc EXCEPT ![r] = "opened"]
      /\ held' = [held EXCEPT ![r].balance = wallet[User(r)]]
  BY DEF Open, Goto
<1>2. wallet[User(r)] \in Nat
  BY UserTyped DEF RenewalInv, RenewalTypeOK
<1>3. RenewalTypeOK'
  BY <1>1, <1>2 DEF RenewalInv, RenewalTypeOK, walletVars, panelVars, rowVars, otherVars, Steps
<1>4. OthersKept(r)
  BY <1>1 DEF RenewalInv, RenewalTypeOK, OthersKept, rowVars
<1>5. RowsOK(r)' /\ OutcomeOK(r)'
  <2>1. pc'[r] = "opened" /\ order'[r] = order[r] /\ extended' = extended
    BY <1>1 DEF RenewalInv, RenewalTypeOK, rowVars
  <2>2. RowsOK(r)' /\ ChargesOf(r)' = ChargesOf(r) /\ RefundsOf(r)' = RefundsOf(r)
    BY <1>1, <2>1, SilentRows DEF Unpaid, Paid
  <2> QED
    BY <1>1, <2>1, <2>2 DEF RenewalInv, OutcomeOK, Unpaid, Paid
<1>6. ServiceOf[r] \notin overlapped' => DaysOK(ServiceOf[r])'
  <2>1. HolderOK(r)'
    BY <1>1 DEF RenewalInv, RenewalTypeOK, HolderOK
  <2> QED
    BY <1>1, <1>4, <2>1, ServiceMoves, RenewalAssumption
       DEF RenewalInv, RenewalTypeOK, OthersKept, Holding, rowVars, panelVars, otherVars
<1> QED
  BY <1>1, <1>3, <1>4, <1>5, <1>6, SilentWallet, SessionStepKeeps
     DEF rowVars, panelVars, otherVars

\* The loading session is the only one that holds the service, or the service is shared.
LEMMA LoadStep ==
    ASSUME RenewalInv, NEW r \in Renewals, LoadService(r)
    PROVE  RenewalInv'
<1> DEFINE s == ServiceOf[r]
<1>1. UNCHANGED <<walletVars, panelVars, rowVars, order, tries, kind, now, topup, aborts>>
  BY DEF LoadService
<1>2. s \in Services /\ pc[r] = "opened" /\ row[s] \in Nat
  BY RenewalAssumption DEF LoadService, RenewalInv, RenewalTypeOK
<1>3. \/ /\ pc' = [pc EXCEPT ![r] = "done"]
         /\ UNCHANGED <<held, overlapped>>
      \/ /\ pc' = [pc EXCEPT ![r] = "loaded"]
         /\ held' = [held EXCEPT ![r].expire = row[s]]
         /\ overlapped' = overlapped \cup
              {x \in {s} : \E y \in Renewals : ServiceOf[y] = s /\ pc[y] \in Holding}
  BY DEF LoadService, Goto
<1>4. overlapped \subseteq overlapped' /\ overlapped' \subseteq Services
  BY <1>2, <1>3 DEF RenewalInv, RenewalTypeOK
<1>5. /\ pc' \in [Renewals -> Steps]
      /\ held' \in [Renewals -> [balance : Nat, expire : Nat]]
      /\ held'[r].balance = held[r].balance
      /\ pc'[r] \in {"loaded", "done"}
      /\ OthersKept(r)
  <2>1. /\ held' \in [Renewals -> [balance : Nat, expire : Nat]]
        /\ held'[r].balance = held[r].balance
        /\ \A x \in Renewals \ {r} : held'[x] = held[x]
    <3>1. CASE held' = held
      BY <3>1 DEF RenewalInv, RenewalTypeOK
    <3>2. CASE held' = [held EXCEPT ![r].expire = row[s]]
      BY <1>2, <3>2, ExpireChanged
    <3> QED
      BY <1>3, <3>1, <3>2
  <2>2. /\ pc' \in [Renewals -> Steps] /\ pc'[r] \in {"loaded", "done"}
        /\ \A x \in Renewals \ {r} : pc'[x] = pc[x]
    BY <1>3 DEF RenewalInv, RenewalTypeOK, Steps
  <2> QED
    BY <1>1, <2>1, <2>2 DEF OthersKept, rowVars
<1>6. RenewalTypeOK'
  BY <1>1, <1>4, <1>5 DEF RenewalInv, RenewalTypeOK, walletVars, panelVars, rowVars
<1>7. RowsOK(r)' /\ OutcomeOK(r)'
  <2>1. order'[r] = order[r] /\ extended' = extended
    BY <1>1 DEF rowVars
  <2>2. /\ RowsOK(r)' /\ ChargesOf(r)' = ChargesOf(r) /\ RefundsOf(r)' = RefundsOf(r)
        /\ ChargesOf(r) = {}
    BY <1>1, <1>2, <1>5, SilentRows DEF RenewalInv, RowsOK, Unpaid, Paid
  <2> QED
    BY <1>2, <1>5, <2>1, <2>2 DEF RenewalInv, OutcomeOK, Unpaid, Paid
<1>8. ASSUME s \notin overlapped' PROVE DaysOK(s)'
  <2>1. DaysOK(s)
    BY <1>2, <1>4, <1>8 DEF RenewalInv
  <2>2. CASE pc' = [pc EXCEPT ![r] = "done"] /\ held' = held
    <3>1. HolderOK(r)'
      BY <2>2 DEF RenewalInv, RenewalTypeOK, HolderOK
    <3> QED
      BY <1>1, <1>5, <2>1, <2>2, <3>1, ServiceMoves
         DEF RenewalInv, RenewalTypeOK, OthersKept, Holding, rowVars, panelVars
  <2>3. CASE /\ pc' = [pc EXCEPT ![r] = "loaded"]
             /\ held' = [held EXCEPT ![r].expire = row[s]]
             /\ overlapped' = overlapped \cup
                  {x \in {s} : \E y \in Renewals : ServiceOf[y] = s /\ pc[y] \in Holding}
    <3>1. \A y \in Renewals : ServiceOf[y] = s => pc[y] \notin Holding
      BY <1>8, <2>3
    <3>2. \A y \in Renewals \ {r} : ServiceOf[y] = s => pc'[y] \notin Holding /\ HolderOK(y)'
      BY <1>5, <3>1 DEF OthersKept, HolderOK, Holding
    <3>3. HolderOK(r)'
      BY <1>1, <2>3 DEF RenewalInv, RenewalTypeOK, HolderOK, rowVars
    <3>4. StoredFor(s)' = StoredFor(s) /\ row' = row /\ remote' = remote
      BY <1>1 DEF StoredFor, rowVars, panelVars
    <3> QED
      BY <2>1, <3>2, <3>3, <3>4 DEF DaysOK
  <2> QED
    BY <1>3, <2>2, <2>3
<1> QED
  BY <1>1, <1>4, <1>5, <1>6, <1>7, <1>8, SilentWallet, SessionStepKeeps
     DEF rowVars, panelVars

\* The debit adds the one charge of r.
LEMMA ChargeRows ==
    ASSUME RenewalInv, NEW r \in Renewals, pc[r] = "loaded",
           Debit(User(r), held[r].balance, Price[r], "PURCHASE", r),
           held'[r].balance = held[r].balance - Price[r], pc'[r] \in Paid
    PROVE  /\ wallet' \in [Users -> Nat] /\ ledger' \in [Users -> Seq(Row)]
           /\ RowsOK(r)' /\ ChargesOf(r)' # {} /\ RefundsOf(r)' = {}
           /\ held[r].balance - Price[r] \in Nat
           /\ \A x \in Renewals \ {r} : RowsKept(x)
<1> DEFINE u == User(r)
           seen == held[r].balance
           n == Len(ledger[u]) + 1
<1>1. /\ u \in Users /\ seen \in Nat /\ Price[r] \in Nat \ {0} /\ r \in Refs
      /\ -Price[r] \in Int /\ "PURCHASE" \in TxTypes /\ seen \in Int
  BY UserTyped, RenewalAssumption DEF RenewalInv, RenewalTypeOK, TxTypes
<1>2. Post(u, seen, -Price[r], "PURCHASE", r) /\ seen >= Price[r]
  BY DEF Debit
<1>3. WalletTypeOK /\ RenewalTypeOK
  BY WalletTyped DEF RenewalInv
<1>4. wallet' \in [Users -> Nat] /\ ledger' \in [Users -> Seq(Row)]
  <2>1. seen + (-Price[r]) >= 0
    BY <1>1, <1>2
  <2> QED
    BY <1>1, <1>2, <1>3, <2>1, PostTypes
<1>5. \A x \in Renewals \ {r} : RowsKept(x)
  BY <1>1, <1>2, <1>3, PostKeepsRows
<1>6. /\ ledger'[u][n] = [type |-> "PURCHASE", ref |-> r, amount |-> -Price[r],
                          before |-> seen, after |-> seen + (-Price[r])]
  BY <1>1, <1>2, <1>3, PostEffect
<1>7. /\ RowsFor(u, "PURCHASE", r)' = RowsFor(u, "PURCHASE", r) \cup {n}
      /\ RowsFor(u, "REFUND", r)' = RowsFor(u, "REFUND", r)
  BY <1>1, <1>2, <1>3, PostRows
<1>8. /\ ChargesOf(r)' = ChargesOf(r) \cup {n} /\ RefundsOf(r)' = RefundsOf(r)
      /\ User(r)' = u
  BY <1>7 DEF ChargesOf, RefundsOf, User
<1>9. ChargesOf(r) = {} /\ RefundsOf(r) = {}
  BY DEF RenewalInv, RowsOK, Unpaid
<1>10. seen + (-Price[r]) = seen - Price[r] /\ seen - Price[r] \in Nat
  BY <1>1, <1>2
<1>11. RowsOK(r)'
  <2>1. \A i \in ChargesOf(r)' : i = n
    BY <1>8, <1>9
  <2>2. /\ ledger'[u][n].amount = -Price[r]
        /\ ledger'[u][n].after = held'[r].balance
    BY <1>6, <1>10
  <2> QED
    BY <1>8, <1>9, <2>1, <2>2 DEF RowsOK, RefundUndoesCharge, Unpaid, Paid
<1> QED
  BY <1>4, <1>5, <1>8, <1>9, <1>10, <1>11

LEMMA ChargeQuoteStep ==
    ASSUME RenewalInv, NEW r \in Renewals, ChargeQuote(r)
    PROVE  RenewalInv'
<1> DEFINE s == ServiceOf[r]
           e == NewExpire(s, held[r].expire)
<1>1. /\ UNCHANGED <<panelVars, rowVars, order, tries, otherVars>>
      /\ pc[r] = "loaded" /\ Via[r] = "quote"
      /\ Debit(User(r), held[r].balance, Price[r], "PURCHASE", r)
      /\ held' = [held EXCEPT ![r] = [balance |-> held[r].balance - Price[r], expire |-> e]]
      /\ Goto(r, "resetting")
  BY DEF ChargeQuote
<1>2. e \in Nat /\ e >= held[r].expire + Days[s] /\ held[r].balance - Price[r] \in Nat
  <2>1. now \in Nat
    BY DEF RenewalInv, RenewalTypeOK
  <2>2. held[r].balance - Price[r] \in Nat
    BY <1>1, HeldTyped DEF Debit
  <2> QED
    BY <2>1, <2>2, HeldTyped, NewExpireLonger
<1>3. /\ pc' \in [Renewals -> Steps] /\ pc'[r] = "resetting"
      /\ \A x \in Renewals \ {r} : pc'[x] = pc[x]
  BY <1>1, Moved DEF Steps
<1>4. /\ held' \in [Renewals -> [balance : Nat, expire : Nat]]
      /\ held'[r].balance = held[r].balance - Price[r] /\ held'[r].expire = e
      /\ \A x \in Renewals \ {r} : held'[x] = held[x]
  BY <1>1, <1>2, HeldChanged
<1>5. /\ wallet' \in [Users -> Nat] /\ ledger' \in [Users -> Seq(Row)]
      /\ RowsOK(r)' /\ ChargesOf(r)' # {} /\ RefundsOf(r)' = {}
      /\ \A x \in Renewals \ {r} : RowsKept(x)
  BY <1>1, <1>3, <1>4, ChargeRows DEF Paid
<1>6. RenewalTypeOK'
  BY <1>1, <1>3, <1>4, <1>5 DEF RenewalInv, RenewalTypeOK, panelVars, rowVars, otherVars
<1>7. OthersKept(r)
  BY <1>1, <1>3, <1>4 DEF OthersKept, rowVars
<1>8. OutcomeOK(r)'
  BY <1>1, <1>3, <1>5 DEF RenewalInv, OutcomeOK, Unpaid, Paid, rowVars
<1>9. ASSUME s \notin overlapped' PROVE DaysOK(s)'
  <2>1. DaysOK(s) /\ held[r].expire = row[s]
    BY <1>1, <1>9, HeldTyped DEF RenewalInv, DaysOK, HolderOK, otherVars
  <2>2. HolderOK(r)'
    BY <1>1, <1>2, <1>3, <1>4, <2>1 DEF HolderOK, rowVars
  <2> QED
    BY <1>1, <1>3, <1>4, <2>1, <2>2, ServiceMoves DEF Holding, rowVars, panelVars
<1> QED
  BY <1>1, <1>5, <1>6, <1>7, <1>8, <1>9, SessionStepKeeps DEF rowVars, panelVars, otherVars

LEMMA ChargeOrderStep ==
    ASSUME RenewalInv, NEW r \in Renewals, ChargeOrder(r)
    PROVE  RenewalInv'
<1> DEFINE s == ServiceOf[r]
<1>1. /\ UNCHANGED <<panelVars, rowVars, tries, otherVars>>
      /\ pc[r] = "loaded" /\ Via[r] = "order"
      /\ Debit(User(r), held[r].balance, Price[r], "PURCHASE", r)
      /\ held' = [held EXCEPT ![r].balance = held[r].balance - Price[r]]
      /\ order' = [order EXCEPT ![r] = "PENDING"]
      /\ Goto(r, "charged")
  BY DEF ChargeOrder
<1>2. held[r].balance - Price[r] \in Nat
  BY <1>1, HeldTyped DEF Debit
<1>3. /\ pc' \in [Renewals -> Steps] /\ pc'[r] = "charged"
      /\ \A x \in Renewals \ {r} : pc'[x] = pc[x]
  BY <1>1, Moved DEF Steps
<1>4. /\ held' \in [Renewals -> [balance : Nat, expire : Nat]]
      /\ held'[r].balance = held[r].balance - Price[r] /\ held'[r].expire = held[r].expire
      /\ \A x \in Renewals \ {r} : held'[x] = held[x]
  BY <1>1, <1>2, BalanceChanged
<1>5. /\ wallet' \in [Users -> Nat] /\ ledger' \in [Users -> Seq(Row)]
      /\ RowsOK(r)' /\ ChargesOf(r)' # {} /\ RefundsOf(r)' = {}
      /\ \A x \in Renewals \ {r} : RowsKept(x)
  BY <1>1, <1>3, <1>4, ChargeRows DEF Paid
<1>6. /\ order' \in [Renewals -> {"none", "PENDING", "COMPLETED", "REFUNDED"}]
      /\ order'[r] = "PENDING" /\ \A x \in Renewals \ {r} : order'[x] = order[x]
  BY <1>1 DEF RenewalInv, RenewalTypeOK
<1>7. RenewalTypeOK'
  BY <1>1, <1>3, <1>4, <1>5, <1>6 DEF RenewalInv, RenewalTypeOK, panelVars, rowVars, otherVars
<1>8. OthersKept(r)
  BY <1>1, <1>3, <1>4, <1>6 DEF OthersKept, rowVars
<1>9. OutcomeOK(r)'
  BY <1>1, <1>3, <1>5, <1>6 DEF RenewalInv, OutcomeOK, Unpaid, Paid, rowVars
<1>10. ASSUME s \notin overlapped' PROVE DaysOK(s)'
  <2>1. DaysOK(s) /\ held[r].expire = row[s]
    BY <1>1, <1>10, HeldTyped DEF RenewalInv, DaysOK, HolderOK, otherVars
  <2>2. HolderOK(r)'
    BY <1>1, <1>3, <1>4, <2>1 DEF HolderOK, rowVars
  <2> QED
    BY <1>1, <1>3, <1>4, <2>1, <2>2, ServiceMoves DEF Holding, rowVars, panelVars
<1> QED
  BY <1>1, <1>5, <1>7, <1>8, <1>9, <1>10, SessionStepKeeps DEF rowVars, panelVars, otherVars

\* A step that only moves the session on.
LEMMA PlainMove ==
    ASSUME RenewalInv, NEW r \in Renewals,
           NEW step \in {"modifying", "extended", "failed", "lost", "dead", "done"},
           Goto(r, step), RenewalTypeOK',
           UNCHANGED <<walletVars, remote, rowVars, order, held, overlapped>>,
           step \in {"modifying", "extended", "failed"} => pc[r] \in Paid,
           step = "modifying" => pc[r] \in {"waiting", "resetting"},
           step = "extended" => pc[r] = "resetting" /\ Via[r] = "order",
           step = "done" => pc[r] = "loaded"
    PROVE  RenewalInv'
<1> DEFINE s == ServiceOf[r]
<1>1. /\ pc'[r] = step /\ \A x \in Renewals \ {r} : pc'[x] = pc[x]
  BY Moved DEF Steps
<1>2. OthersKept(r)
  BY <1>1 DEF OthersKept, rowVars
<1>3. /\ RowsOK(r)' /\ ChargesOf(r)' = ChargesOf(r) /\ RefundsOf(r)' = RefundsOf(r)
  BY <1>1, SilentRows DEF Unpaid, Paid
<1>4. OutcomeOK(r)'
  BY <1>1, <1>3 DEF RenewalInv, RowsOK, OutcomeOK, Unpaid, Paid, rowVars
<1>5. ASSUME s \notin overlapped' PROVE DaysOK(s)'
  <2>1. DaysOK(s)
    BY <1>5, HeldTyped DEF RenewalInv
  <2>2. HolderOK(r)'
    BY <1>1, <2>1 DEF DaysOK, HolderOK, rowVars
  <2> QED
    BY <1>1, <2>1, <2>2, ServiceMoves DEF Holding, Paid, rowVars
<1> QED
  BY <1>2, <1>3, <1>4, <1>5, SilentWallet, SessionStepKeeps DEF rowVars

LEMMA PlainTypes ==
    ASSUME RenewalInv, pc' \in [Renewals -> Steps],
           UNCHANGED <<walletVars, panelVars, rowVars, order, held, tries, kind, now, topup,
                       overlapped>>,
           aborts' \in Nat
    PROVE  RenewalTypeOK'
BY DEF RenewalInv, RenewalTypeOK, walletVars, panelVars, rowVars

\* The steps that leave everything but the session's place alone.
LEMMA PlainSteps ==
    ASSUME RenewalInv, NEW r \in Renewals,
           \/ Refuse(r) \/ WakeUp(r) \/ Abort(r)
           \/ \E answer \in Answers : ResetFirst(r, answer)
    PROVE  RenewalInv'
<1>1. /\ UNCHANGED <<walletVars, panelVars, rowVars, order, held, tries, kind, now, topup,
                     overlapped>>
      /\ aborts' \in Nat
  BY DEF Refuse, WakeUp, Abort, ResetFirst, otherVars, RenewalInv, RenewalTypeOK
<1>2. PICK step \in {"modifying", "failed", "dead", "done"} :
         /\ Goto(r, step)
         /\ step \in {"modifying", "failed"} => pc[r] \in Paid
         /\ step = "modifying" => pc[r] \in {"waiting", "resetting"}
         /\ step = "done" => pc[r] = "loaded"
  BY DEF Refuse, WakeUp, Abort, ResetFirst, Paid
<1>3. RenewalTypeOK'
  BY <1>1, <1>2, Moved, PlainTypes DEF Steps
<1> QED
  BY <1>1, <1>2, <1>3, PlainMove DEF panelVars

LEMMA OpenPanelStep ==
    ASSUME RenewalInv, NEW r \in Renewals, OpenPanel(r)
    PROVE  RenewalInv'
<1> DEFINE s == ServiceOf[r]
           e == NewExpire(s, held[r].expire)
<1>1. /\ UNCHANGED <<walletVars, panelVars, rowVars, order, tries, otherVars>>
      /\ pc[r] = "charged"
  BY DEF OpenPanel
<1>2. CASE Goto(r, "failed") /\ UNCHANGED held
  <2>1. RenewalTypeOK'
    BY <1>1, <1>2, Moved, PlainTypes DEF Steps, otherVars, RenewalInv, RenewalTypeOK
  <2> QED
    BY <1>1, <1>2, <2>1, PlainMove DEF Paid, panelVars, otherVars
<1>3. CASE Goto(r, "modifying") /\ held' = [held EXCEPT ![r].expire = e]
  <2>1. e \in Nat /\ e >= held[r].expire + Days[s]
    <3>1. now \in Nat
      BY DEF RenewalInv, RenewalTypeOK
    <3> QED
      BY <3>1, HeldTyped, NewExpireLonger
  <2>2. /\ pc' \in [Renewals -> Steps] /\ pc'[r] = "modifying"
        /\ \A x \in Renewals \ {r} : pc'[x] = pc[x]
    BY <1>3, Moved DEF Steps
  <2>3. /\ held' \in [Renewals -> [balance : Nat, expire : Nat]]
        /\ held'[r].balance = held[r].balance /\ held'[r].expire = e
        /\ \A x \in Renewals \ {r} : held'[x] = held[x]
    BY <1>3, <2>1, ExpireChanged
  <2>4. RenewalTypeOK'
    BY <1>1, <2>2, <2>3 DEF RenewalInv, RenewalTypeOK, walletVars, panelVars, rowVars, otherVars
  <2>5. OthersKept(r)
    BY <1>1, <2>2, <2>3 DEF OthersKept, rowVars
  <2>6. /\ RowsOK(r)' /\ ChargesOf(r)' = ChargesOf(r) /\ RefundsOf(r)' = RefundsOf(r)
    BY <1>1, <2>2, <2>3, SilentRows DEF Unpaid, Paid
  <2>7. OutcomeOK(r)'
    BY <1>1, <2>2, <2>6 DEF RenewalInv, OutcomeOK, Unpaid, Paid, rowVars
  <2>8. ASSUME s \notin overlapped' PROVE DaysOK(s)'
    <3>1. DaysOK(s) /\ held[r].expire = row[s]
      BY <1>1, <2>8, HeldTyped DEF RenewalInv, DaysOK, HolderOK, otherVars
    <3>2. HolderOK(r)'
      BY <1>1, <2>1, <2>2, <2>3, <3>1 DEF HolderOK, rowVars
    <3> QED
      BY <1>1, <2>2, <2>3, <3>1, <3>2, ServiceMoves DEF Holding, rowVars, panelVars
  <2> QED
    BY <1>1, <2>4, <2>5, <2>6, <2>7, <2>8, SilentWallet, SessionStepKeeps
       DEF rowVars, panelVars, otherVars
<1> QED
  BY <1>2, <1>3 DEF OpenPanel

\* An accepted call leaves the account expiring as asked, and no call changes another one.
LEMMA ModifyUserEffect ==
    ASSUME remote \in [Panels -> [Services -> Nat]],
           NEW q \in Panels, NEW a \in Services, NEW e \in Nat, NEW answer,
           ModifyUser(q, a, e, answer)
    PROVE  /\ remote' \in [Panels -> [Services -> Nat]]
           /\ remote'[q][a] = e \/ (answer # "ok" /\ remote'[q][a] = remote[q][a])
           /\ \A p \in Panels : \A b \in Services \ {a} : remote'[p][b] = remote[p][b]
<1>1. CASE remote' = remote /\ answer # "ok"
  BY <1>1
<1>2. CASE remote' = [remote EXCEPT ![q][a] = e]
  BY <1>2
<1> QED
  BY <1>1, <1>2 DEF ModifyUser, Call

\* Whatever the panel answers, its account expires as before or as the session asked for.
LEMMA ModifyStep ==
    ASSUME RenewalInv, NEW r \in Renewals, NEW answer \in Answers, ModifyAttempt(r, answer)
    PROVE  RenewalInv'
<1> DEFINE s == ServiceOf[r]
           q == PanelFor(r)
           e == held[r].expire
<1>1. /\ UNCHANGED <<walletVars, panel, rowVars, order, held, otherVars>>
      /\ pc[r] = "modifying" /\ ModifyUser(q, s, e, answer)
  BY DEF ModifyAttempt
<1>2. /\ s \in Services /\ q \in Panels /\ q = PanelOf[s] /\ e \in Nat
      /\ row[s] \in Nat /\ Days[s] \in Nat
  BY HeldTyped DEF PanelFor
<1>3. /\ remote' \in [Panels -> [Services -> Nat]]
      /\ remote'[q][s] = e \/ (answer # "ok" /\ remote'[q][s] = remote[q][s])
      /\ \A p \in Panels : \A b \in Services \ {s} : remote'[p][b] = remote[p][b]
  BY <1>1, <1>2, ModifyUserEffect DEF RenewalInv, RenewalTypeOK
<1>4. /\ tries' \in [Renewals -> 0..(MaxAttempts - 1)]
      /\ \E step \in {"resetting", "extended", "waiting", "failed"} :
            /\ Goto(r, step)
            /\ step \in {"resetting", "extended"} => answer = "ok"
            /\ step = "resetting" => Via[r] = "order"
  <2>1. CASE answer = "ok" /\ Goto(r, AfterModify(r)) /\ tries' = [tries EXCEPT ![r] = 0]
    <3>1. 0 \in 0..(MaxAttempts - 1)
      BY PanelsAssumption
    <3> QED
      BY <2>1, <3>1 DEF AfterModify, RenewalInv, RenewalTypeOK
  <2>2. CASE Retries(r, answer) /\ Goto(r, "waiting") /\ tries' = [tries EXCEPT ![r] = Attempt(@)]
    <3>1. Attempt(tries[r]) \in 0..(MaxAttempts - 1)
      BY <2>2, PanelsAssumption DEF Retries, TryAgain, Attempt, RenewalInv, RenewalTypeOK
    <3> QED
      BY <2>2, <3>1 DEF RenewalInv, RenewalTypeOK
  <2>3. CASE GiveUp(r) /\ UNCHANGED tries
    BY <2>3 DEF GiveUp, RenewalInv, RenewalTypeOK
  <2> QED
    BY <2>1, <2>2, <2>3 DEF ModifyAttempt
<1>5. PICK step \in {"resetting", "extended", "waiting", "failed"} :
         /\ Goto(r, step)
         /\ step \in {"resetting", "extended"} => answer = "ok"
         /\ step = "resetting" => Via[r] = "order"
  BY <1>4
<1>6. /\ pc' \in [Renewals -> Steps] /\ pc'[r] = step
      /\ \A x \in Renewals \ {r} : pc'[x] = pc[x]
  BY <1>5, Moved DEF Steps
<1>7. RenewalTypeOK'
  BY <1>1, <1>3, <1>4, <1>6 DEF RenewalInv, RenewalTypeOK, walletVars, rowVars, otherVars
<1>8. OthersKept(r)
  BY <1>1, <1>6 DEF OthersKept, rowVars
<1>9. /\ RowsOK(r)' /\ ChargesOf(r)' = ChargesOf(r) /\ RefundsOf(r)' = RefundsOf(r)
  BY <1>1, <1>6, SilentRows DEF Unpaid, Paid
<1>10. OutcomeOK(r)'
  BY <1>1, <1>6, <1>9 DEF RenewalInv, OutcomeOK, Unpaid, Paid, rowVars
<1>11. ASSUME s \notin overlapped' PROVE DaysOK(s)'
  <2>1. DaysOK(s) /\ e >= row[s] + Days[s] /\ row[s] <= remote[q][s]
    BY <1>1, <1>2, <1>11 DEF RenewalInv, DaysOK, HolderOK, otherVars
  <2>2. row[s] <= remote'[q][s]
    BY <1>2, <1>3, <2>1
  <2>3. HolderOK(r)'
    BY <1>1, <1>2, <1>3, <1>5, <1>6, <2>1 DEF HolderOK, rowVars
  <2> QED
    BY <1>1, <1>2, <1>6, <2>1, <2>2, <2>3, ServiceMoves DEF Holding, rowVars
<1>12. \A x \in Services \ {s} : remote'[PanelOf[x]][x] = remote[PanelOf[x]][x]
  BY <1>3, RenewalAssumption
<1> QED
  BY <1>1, <1>7, <1>8, <1>9, <1>10, <1>11, <1>12, SilentWallet, SessionStepKeeps
     DEF rowVars, otherVars

\* The account that is read back replaces the expiry of the session only if it is not
\* shorter: it is the one the panel has.
LEMMA ResetLastStep ==
    ASSUME RenewalInv, NEW r \in Renewals, NEW answer \in Answers, ResetLast(r, answer)
    PROVE  RenewalInv'
<1> DEFINE s == ServiceOf[r]
           e == remote[PanelFor(r)][s]
<1>1. /\ UNCHANGED <<walletVars, panelVars, rowVars, order, tries, otherVars>>
      /\ pc[r] = "resetting" /\ Via[r] = "order"
  BY DEF ResetLast
<1>2. ASSUME NEW step \in {"lost", "extended"}, Goto(r, step), UNCHANGED held
      PROVE  RenewalInv'
  <2>1. RenewalTypeOK'
    BY <1>1, <1>2, Moved, PlainTypes DEF Steps, otherVars, RenewalInv, RenewalTypeOK
  <2> QED
    BY <1>1, <1>2, <2>1, PlainMove DEF Paid, panelVars, otherVars
<1>3. CASE Goto(r, "extended") /\ held' = [held EXCEPT ![r].expire = e]
  <2>1. e \in Nat /\ PanelFor(r) = PanelOf[s]
    BY HeldTyped DEF PanelFor
  <2>2. /\ pc' \in [Renewals -> Steps] /\ pc'[r] = "extended"
        /\ \A x \in Renewals \ {r} : pc'[x] = pc[x]
    BY <1>3, Moved DEF Steps
  <2>3. /\ held' \in [Renewals -> [balance : Nat, expire : Nat]]
        /\ held'[r].balance = held[r].balance /\ held'[r].expire = e
        /\ \A x \in Renewals \ {r} : held'[x] = held[x]
    BY <1>3, <2>1, ExpireChanged
  <2>4. RenewalTypeOK'
    BY <1>1, <2>2, <2>3 DEF RenewalInv, RenewalTypeOK, walletVars, panelVars, rowVars, otherVars
  <2>5. OthersKept(r)
    BY <1>1, <2>2, <2>3 DEF OthersKept, rowVars
  <2>6. /\ RowsOK(r)' /\ ChargesOf(r)' = ChargesOf(r) /\ RefundsOf(r)' = RefundsOf(r)
    BY <1>1, <2>2, <2>3, SilentRows DEF Unpaid, Paid
  <2>7. OutcomeOK(r)'
    BY <1>1, <2>2, <2>6 DEF RenewalInv, OutcomeOK, Unpaid, Paid, rowVars
  <2>8. ASSUME s \notin overlapped' PROVE DaysOK(s)'
    <3>1. /\ DaysOK(s) /\ held[r].expire >= row[s] + Days[s]
          /\ held[r].expire <= remote[PanelOf[s]][s]
      BY <1>1, <2>8, HeldTyped DEF RenewalInv, DaysOK, HolderOK, otherVars
    <3>2. e >= row[s] + Days[s]
      BY <2>1, <3>1, HeldTyped
    <3>3. HolderOK(r)'
      BY <1>1, <2>1, <2>2, <2>3, <3>2 DEF HolderOK, rowVars, panelVars
    <3> QED
      BY <1>1, <2>2, <2>3, <3>1, <3>3, ServiceMoves DEF Holding, rowVars, panelVars
  <2> QED
    BY <1>1, <2>4, <2>5, <2>6, <2>7, <2>8, SilentWallet, SessionStepKeeps
       DEF rowVars, panelVars, otherVars
<1> QED
  BY <1>2, <1>3 DEF ResetLast

LEMMA DaysAdd == \A d \in Nat : \A n \in Nat : d * (n + 1) = d * n + d
OBVIOUS

\* One more renewal is stored, and the row has its days.
LEMMA StoreStep ==
    ASSUME RenewalInv, NEW r \in Renewals, Store(r)
    PROVE  RenewalInv'
<1> DEFINE s == ServiceOf[r]
           e == held[r].expire
           next == IF Via[r] = "order" THEN "stored" ELSE "done"
<1>1. /\ UNCHANGED <<walletVars, panelVars, order, held, tries, otherVars>>
      /\ pc[r] = "extended" /\ Goto(r, next)
      /\ row' = [row EXCEPT ![s] = e] /\ extended' = extended \cup {r}
  BY DEF Store
<1>2. s \in Services /\ e \in Nat /\ Days[s] \in Nat /\ row[s] \in Nat
      /\ FirstExpire[s] \in Nat
  BY HeldTyped, RenewalAssumption
<1>3. /\ pc' \in [Renewals -> Steps] /\ pc'[r] = next
      /\ \A x \in Renewals \ {r} : pc'[x] = pc[x]
  BY <1>1, Moved DEF Steps
<1>4. row' \in [Services -> Nat] /\ row'[s] = e /\ \A x \in Services \ {s} : row'[x] = row[x]
  BY <1>1, <1>2 DEF RenewalInv, RenewalTypeOK
<1>5. RenewalTypeOK'
  BY <1>1, <1>3, <1>4 DEF RenewalInv, RenewalTypeOK, walletVars, panelVars, otherVars
<1>6. OthersKept(r)
  BY <1>1, <1>3 DEF OthersKept
<1>7. /\ RowsOK(r)' /\ ChargesOf(r)' = ChargesOf(r) /\ RefundsOf(r)' = RefundsOf(r)
  BY <1>1, <1>3, SilentRows DEF Unpaid, Paid
<1>8. OutcomeOK(r)'
  <2>1. ChargesOf(r) # {} /\ RefundsOf(r) = {} /\ OutcomeOK(r)
    BY <1>1 DEF RenewalInv, RowsOK, Unpaid, Paid
  <2>2. Via[r] = "quote" => order'[r] = "none"
    BY <1>1, <2>1 DEF OutcomeOK
  <2> QED
    BY <1>1, <1>3, <1>7, <2>1, <2>2, HeldTyped DEF OutcomeOK, Unpaid, Paid
<1>9. ASSUME s \notin overlapped' PROVE DaysOK(s)'
  <2>1. /\ DaysOK(s) /\ e >= row[s] + Days[s] /\ e <= remote[PanelOf[s]][s]
        /\ row[s] >= FirstExpire[s] + Days[s] * Cardinality(StoredFor(s))
    BY <1>1, <1>2, <1>9 DEF RenewalInv, DaysOK, HolderOK, otherVars
  <2>2. IsFiniteSet(StoredFor(s)) /\ r \notin StoredFor(s)
    BY <1>1, FS_Subset DEF RenewalInv, OutcomeOK, StoredFor, Paid
  <2>3. StoredFor(s)' = StoredFor(s) \cup {r}
    BY <1>1 DEF StoredFor
  <2>4. /\ Cardinality(StoredFor(s)) \in Nat
        /\ Cardinality(StoredFor(s)') = Cardinality(StoredFor(s)) + 1
    BY <2>2, <2>3, FS_CardinalityType, FS_AddElement
  <2>5. Days[s] * Cardinality(StoredFor(s)') = Days[s] * Cardinality(StoredFor(s)) + Days[s]
    BY <1>2, <2>4, DaysAdd
  <2>6. /\ Days[s] * Cardinality(StoredFor(s)) \in Nat
    BY <1>2, <2>4
  <2>7. row'[s] >= FirstExpire[s] + Days[s] * Cardinality(StoredFor(s)')
    BY <1>2, <1>4, <2>1, <2>5, <2>6
  <2>8. \A x \in Renewals : ServiceOf[x] = s => pc'[x] \notin Holding
    BY <1>1, <1>3, <2>1 DEF DaysOK, Holding
  <2>9. \A x \in Renewals : ServiceOf[x] = s => HolderOK(x)'
    BY <2>8 DEF HolderOK, Holding
  <2>10. row'[s] <= remote'[PanelOf[s]][s]
    BY <1>1, <1>4, <2>1 DEF panelVars
  <2> QED
    BY <2>7, <2>8, <2>9, <2>10 DEF DaysOK
<1> QED
  BY <1>1, <1>4, <1>5, <1>6, <1>7, <1>8, <1>9, SilentWallet, SessionStepKeeps
     DEF panelVars, otherVars

\* The order row follows the outcome of the session.
LEMMA CloseOrderStep ==
    ASSUME RenewalInv, NEW r \in Renewals, CompleteOrder(r) \/ MarkRefunded(r)
    PROVE  RenewalInv'
<1> DEFINE s == ServiceOf[r]
<1>1. /\ UNCHANGED <<walletVars, panelVars, rowVars, held, tries, otherVars>>
      /\ pc[r] \in {"stored", "refunded"} /\ Goto(r, "done")
      /\ order' = [order EXCEPT ![r] = IF pc[r] = "stored" THEN "COMPLETED" ELSE "REFUNDED"]
  BY DEF CompleteOrder, MarkRefunded
<1>2. /\ pc' \in [Renewals -> Steps] /\ pc'[r] = "done"
      /\ \A x \in Renewals \ {r} : pc'[x] = pc[x]
  BY <1>1, Moved DEF Steps
<1>3. /\ order' \in [Renewals -> {"none", "PENDING", "COMPLETED", "REFUNDED"}]
      /\ order'[r] = IF pc[r] = "stored" THEN "COMPLETED" ELSE "REFUNDED"
      /\ \A x \in Renewals \ {r} : order'[x] = order[x]
  BY <1>1 DEF RenewalInv, RenewalTypeOK
<1>4. RenewalTypeOK'
  BY <1>1, <1>2, <1>3 DEF RenewalInv, RenewalTypeOK, walletVars, panelVars, rowVars, otherVars
<1>5. OthersKept(r)
  BY <1>1, <1>2, <1>3 DEF OthersKept, rowVars
<1>6. /\ RowsOK(r)' /\ ChargesOf(r)' = ChargesOf(r) /\ RefundsOf(r)' = RefundsOf(r)
  BY <1>1, <1>2, SilentRows DEF Unpaid, Paid
<1>7. Via[r] = "order"
  BY <1>1, HeldTyped DEF RenewalInv, OutcomeOK
<1>8. OutcomeOK(r)'
  BY <1>1, <1>2, <1>3, <1>6, <1>7 DEF RenewalInv, OutcomeOK, Unpaid, Paid, rowVars
<1>9. ASSUME s \notin overlapped' PROVE DaysOK(s)'
  <2>1. DaysOK(s)
    BY <1>1, <1>9, HeldTyped DEF RenewalInv, otherVars
  <2>2. HolderOK(r)'
    BY <1>2 DEF HolderOK
  <2> QED
    BY <1>1, <1>2, <2>1, <2>2, ServiceMoves DEF Holding, rowVars, panelVars
<1> QED
  BY <1>1, <1>4, <1>5, <1>6, <1>8, <1>9, SilentWallet, SessionStepKeeps
     DEF rowVars, panelVars, otherVars

\* The refund adds the one refund of r, from the balance that its charge ended with.
LEMMA RefundStep ==
    ASSUME RenewalInv, NEW r \in Renewals, Refund(r)
    PROVE  RenewalInv'
<1> DEFINE s == ServiceOf[r]
           u == User(r)
           seen == held[r].balance
           n == Len(ledger[u]) + 1
           next == IF Via[r] = "order" THEN "refunded" ELSE "done"
<1>1. /\ UNCHANGED <<panelVars, rowVars, order, tries, otherVars>>
      /\ pc[r] = "failed" /\ Goto(r, next)
      /\ Post(u, seen, Price[r], "REFUND", r)
      /\ held' = [held EXCEPT ![r].balance = seen + Price[r]]
  BY DEF Refund, Credit
<1>2. /\ u \in Users /\ seen \in Nat /\ Price[r] \in Nat \ {0} /\ r \in Refs
      /\ "REFUND" \in TxTypes /\ seen \in Int /\ seen + Price[r] \in Nat
      /\ Price[r] \in Int /\ seen + Price[r] >= 0
  BY HeldTyped DEF TxTypes
<1>3. WalletTypeOK /\ RenewalTypeOK
  BY WalletTyped DEF RenewalInv
<1>4. /\ pc' \in [Renewals -> Steps] /\ pc'[r] = next
      /\ \A x \in Renewals \ {r} : pc'[x] = pc[x]
  BY <1>1, Moved DEF Steps
<1>5. /\ held' \in [Renewals -> [balance : Nat, expire : Nat]]
      /\ \A x \in Renewals \ {r} : held'[x] = held[x]
  BY <1>1, <1>2, BalanceChanged
<1>6. wallet' \in [Users -> Nat] /\ ledger' \in [Users -> Seq(Row)]
  BY <1>1, <1>2, <1>3, PostTypes
<1>7. \A x \in Renewals \ {r} : RowsKept(x)
  BY <1>1, <1>2, <1>3, PostKeepsRows
<1>8. /\ ledger'[u][n] = [type |-> "REFUND", ref |-> r, amount |-> Price[r],
                          before |-> seen, after |-> seen + Price[r]]
      /\ \A i \in 1..Len(ledger[u]) : ledger'[u][i] = ledger[u][i]
  BY <1>1, <1>2, <1>3, PostEffect
<1>9. /\ RowsFor(u, "PURCHASE", r)' = RowsFor(u, "PURCHASE", r)
      /\ RowsFor(u, "REFUND", r)' = RowsFor(u, "REFUND", r) \cup {n}
  BY <1>1, <1>2, <1>3, PostRows
<1>10. /\ ChargesOf(r)' = ChargesOf(r) /\ RefundsOf(r)' = RefundsOf(r) \cup {n}
       /\ User(r)' = u
  BY <1>9 DEF ChargesOf, RefundsOf, User
<1>11. /\ RefundsOf(r) = {} /\ ChargesOf(r) # {} /\ r \notin extended
       /\ \A i, j \in ChargesOf(r) : i = j
       /\ \A i \in ChargesOf(r) : /\ ledger[u][i].amount = -Price[r]
                                  /\ ledger[u][i].after = seen
  BY <1>1 DEF RenewalInv, RowsOK, OutcomeOK, Paid
<1>12. ledger[u] \in Seq(Row) /\ ChargesOf(r) \subseteq 1..Len(ledger[u])
  BY <1>2, <1>3 DEF WalletTypeOK, ChargesOf, RowsFor
<1>13. RefundUndoesCharge(r)'
  <2>1. PICK i \in ChargesOf(r) : TRUE
    BY <1>11
  <2>2. i \in ChargesOf(r)' /\ i < n
    BY <1>10, <1>12, <2>1
  <2>3. /\ ledger'[u][n].amount = -ledger'[u][i].amount
        /\ ledger'[u][n].before = ledger'[u][i].after
    <3>1. ledger'[u][i].amount = -Price[r] /\ ledger'[u][i].after = seen
      BY <1>8, <1>11, <1>12, <2>1
    <3>2. Price[r] = -(-Price[r])
      BY <1>2
    <3> QED
      BY <1>8, <3>1, <3>2
  <2>4. \A j \in RefundsOf(r)' : j = n
    BY <1>10, <1>11
  <2> QED
    BY <1>10, <2>2, <2>3, <2>4 DEF RefundUndoesCharge
<1>14. RowsOK(r)'
  BY <1>4, <1>10, <1>11, <1>13 DEF RowsOK, Unpaid, Paid
<1>15. RenewalTypeOK'
  BY <1>1, <1>4, <1>5, <1>6 DEF RenewalInv, RenewalTypeOK, panelVars, rowVars, otherVars
<1>16. OthersKept(r)
  BY <1>1, <1>4, <1>5 DEF OthersKept, rowVars
<1>17. OutcomeOK(r)'
  <2>1. order[r] # "COMPLETED" /\ (Via[r] = "quote" => order[r] = "none")
    BY <1>11 DEF RenewalInv, OutcomeOK
  <2>2. order' = order /\ extended' = extended
    BY <1>1 DEF rowVars
  <2> QED
    BY <1>4, <1>10, <1>11, <2>1, <2>2, HeldTyped DEF OutcomeOK, Unpaid, Paid
<1>18. ASSUME s \notin overlapped' PROVE DaysOK(s)'
  <2>1. DaysOK(s)
    BY <1>1, <1>18, HeldTyped DEF RenewalInv, otherVars
  <2>2. HolderOK(r)'
    BY <1>4 DEF HolderOK
  <2> QED
    BY <1>1, <1>4, <1>5, <2>1, <2>2, ServiceMoves DEF Holding, rowVars, panelVars
<1> QED
  BY <1>1, <1>7, <1>14, <1>15, <1>16, <1>17, <1>18, SessionStepKeeps
     DEF rowVars, panelVars, otherVars

-----------------------------------------------------------------------------
(* The steps of the others.                                                *)

\* No session moves, and neither a row nor an account of a service.
LEMMA OutsideStep ==
    ASSUME RenewalInv, RenewalTypeOK', \A x \in Renewals : RowsKept(x),
           UNCHANGED <<remote, rowVars, order, sessionVars, overlapped>>
    PROVE  RenewalInv'
<1>1. pc' = pc /\ held' = held /\ row' = row /\ extended' = extended
  BY DEF rowVars, sessionVars
<1>2. \A x \in Renewals : RowsOK(x)' /\ OutcomeOK(x)'
  BY <1>1, RenewalKept DEF RenewalInv
<1>3. ASSUME NEW s \in Services \ overlapped PROVE DaysOK(s)'
  <2>1. StoredFor(s)' = StoredFor(s)
    BY <1>1 DEF StoredFor
  <2> QED
    BY <1>1, <2>1, ServiceKept DEF RenewalInv
<1> QED
  BY <1>1, <1>2, <1>3 DEF RenewalInv

LEMMA TopUpStep ==
    ASSUME RenewalInv, NEW d \in TopUps, TopUp(d)
    PROVE  RenewalInv'
<1> DEFINE u == Credited[d]
<1>1. /\ UNCHANGED <<panelVars, rowVars, order, sessionVars, kind, now, overlapped, aborts>>
      /\ topup' = topup \cup {d} /\ Post(u, wallet[u], Sum[d], "DEPOSIT", d)
  BY DEF TopUp, Credit
<1>2. /\ u \in Users /\ wallet[u] \in Nat /\ Sum[d] \in Int /\ wallet[u] + Sum[d] >= 0
      /\ d \in Refs /\ "DEPOSIT" \in TxTypes \ {"PURCHASE", "REFUND"}
  BY RenewalAssumption DEF RenewalInv, RenewalTypeOK, TxTypes
<1>3. RenewalTypeOK
  BY DEF RenewalInv
<1>4. wallet' \in [Users -> Nat] /\ ledger' \in [Users -> Seq(Row)]
  BY <1>1, <1>2, <1>3, PostTypes
<1>5. \A x \in Renewals : RowsKept(x)
  BY <1>1, <1>2, <1>3, PostKeepsRows
<1>6. RenewalTypeOK'
  BY <1>1, <1>4 DEF RenewalInv, RenewalTypeOK, panelVars, rowVars, sessionVars
<1> QED
  BY <1>1, <1>5, <1>6, OutsideStep DEF panelVars

LEMMA WorldStep ==
    ASSUME RenewalInv, Tick \/ \E q \in Panels : AdminPanels(q)
    PROVE  RenewalInv'
<1>1. /\ UNCHANGED <<walletVars, remote, rowVars, order, sessionVars, kind, topup, overlapped,
                     aborts>>
      /\ now' \in Nat /\ panel' \in [Panels -> PanelStatuses]
  <2>1. CASE Tick
    BY <2>1 DEF Tick, panelVars, RenewalInv, RenewalTypeOK
  <2>2. ASSUME NEW q \in Panels, AdminPanels(q)
        PROVE  /\ UNCHANGED <<walletVars, remote, rowVars, order, sessionVars, kind, topup,
                              overlapped, aborts>>
               /\ now' \in Nat /\ panel' \in [Panels -> PanelStatuses]
    BY <2>2 DEF AdminPanels, ToggleStatus, otherVars, PanelStatuses, RenewalInv, RenewalTypeOK
  <2> QED
    BY <2>1, <2>2
<1>2. RenewalTypeOK'
  BY <1>1 DEF RenewalInv, RenewalTypeOK, walletVars, rowVars, sessionVars
<1> QED
  BY <1>1, <1>2, SilentWallet, OutsideStep

-----------------------------------------------------------------------------
LEMMA RenewalInit == Init => RenewalInv
<1> SUFFICES ASSUME Init PROVE RenewalInv
  OBVIOUS
<1>1. RenewalTypeOK
  <2>1. 0 \in 0..(MaxAttempts - 1)
    BY PanelsAssumption
  <2>2. wallet \in [Users -> Nat] /\ ledger \in [Users -> Seq(Row)]
    BY DEF Init, WalletInit
  <2>3. remote \in [Panels -> [Services -> Nat]] /\ row \in [Services -> Nat]
    BY RenewalAssumption DEF Init
  <2> QED
    BY <2>1, <2>2, <2>3 DEF Init, RenewalTypeOK, Steps, PanelStatuses
<1>2. IsFiniteSet(extended)
  BY FS_EmptySet DEF Init
<1>3. ASSUME NEW r \in Renewals PROVE RowsOK(r) /\ OutcomeOK(r)
  <2>1. ledger[User(r)] = <<>>
    BY UserTyped DEF Init, WalletInit
  <2>2. ChargesOf(r) = {} /\ RefundsOf(r) = {}
    BY <2>1 DEF ChargesOf, RefundsOf, RowsFor
  <2> QED
    BY <2>2 DEF Init, RowsOK, OutcomeOK, RefundUndoesCharge, Unpaid, Paid
<1>4. ASSUME NEW s \in Services PROVE DaysOK(s)
  <2>1. StoredFor(s) = {}
    BY DEF StoredFor, Init
  <2>2. Days[s] * Cardinality(StoredFor(s)) = 0
    BY <2>1, FS_EmptySet, RenewalAssumption
  <2>3. row[s] = FirstExpire[s] /\ remote[PanelOf[s]][s] = FirstExpire[s]
    BY RenewalAssumption DEF Init
  <2>4. \A r \in Renewals : pc[r] \notin Holding /\ HolderOK(r)
    BY DEF Init, Holding, HolderOK
  <2> QED
    BY <2>2, <2>3, <2>4, RenewalAssumption DEF DaysOK
<1> QED
  BY <1>1, <1>2, <1>3, <1>4 DEF RenewalInv

LEMMA RenewalStep == RenewalInv /\ [Next]_vars => RenewalInv'
<1> SUFFICES ASSUME RenewalInv, [Next]_vars PROVE RenewalInv'
  OBVIOUS
<1>1. ASSUME NEW r \in Renewals, Open(r) PROVE RenewalInv'
  BY <1>1, OpenStep
<1>2. ASSUME NEW r \in Renewals, SessionStep(r) PROVE RenewalInv'
  BY <1>2, LoadStep, ChargeQuoteStep, ChargeOrderStep, PlainSteps, OpenPanelStep, ModifyStep,
     ResetLastStep, StoreStep, CloseOrderStep, RefundStep DEF SessionStep
<1>3. ASSUME NEW d \in TopUps, TopUp(d) PROVE RenewalInv'
  BY <1>3, TopUpStep
<1>4. CASE UNCHANGED vars
  <2>1. /\ UNCHANGED <<walletVars, remote, rowVars, order, sessionVars, overlapped>>
        /\ RenewalTypeOK'
    BY <1>4 DEF vars, panelVars, otherVars, walletVars, rowVars, sessionVars, RenewalInv,
                RenewalTypeOK
  <2> QED
    BY <2>1, SilentWallet, OutsideStep
<1> QED
  BY <1>1, <1>2, <1>3, <1>4, WorldStep DEF Next

LEMMA RenewalInvariant == Spec => []RenewalInv
BY RenewalInit, RenewalStep, PTL DEF Spec

\* Every variable of the renewals keeps its type; in particular no renewal leaves a wallet
\* below zero, and no call is retried more often than the retry helper allows.
THEOREM RenewalTypes == Spec => []RenewalTypeOK
<1>1. RenewalInv => RenewalTypeOK
  BY DEF RenewalInv
<1> QED
  BY <1>1, RenewalInvariant, PTL

\* A renewal is charged and refunded at most once, its refund undoes its charge, and a
\* session that ended without the longer expiry left nobody charged - for any number of
\* renewals, overlapping or not, whatever the panels answer.
THEOREM RenewalsPaidOrRefunded == Spec => []PaidOrRefunded
<1>1. RenewalInv => PaidOrRefunded
  BY DEF RenewalInv, RowsOK, OutcomeOK, PaidOrRefunded
<1> QED
  BY <1>1, RenewalInvariant, PTL

\* A service that two sessions never renewed at a time never shows a later expiry than its
\* panel has, and has all the days that were paid and not refunded.
THEOREM RenewalsKeepPaidDays == Spec => []PaidDaysKept
<1>1. RenewalInv => PaidDaysKept
  BY DEF RenewalInv, DaysOK, StoredFor, PaidDaysKept
<1> QED
  BY <1>1, RenewalInvariant, PTL

-----------------------------------------------------------------------------
(* What RenewalEnds rests on.  Every step of a session lowers the number   *)
(* of the steps it may still take, and nobody else raises it.              *)

\* The two ways reset the traffic at different points of their session.
StepsLeft(r) ==
    CASE pc[r] = "opened"                          -> 2 * MaxAttempts + 10
      [] pc[r] = "loaded"                          -> 2 * MaxAttempts + 9
      [] pc[r] = "charged"                         -> 2 * MaxAttempts + 8
      [] pc[r] = "resetting" /\ Via[r] = "quote"   -> 2 * MaxAttempts + 7
      [] pc[r] = "waiting"                         -> 2 * (MaxAttempts - tries[r]) + 6
      [] pc[r] = "modifying"                       -> 2 * (MaxAttempts - tries[r]) + 5
      [] pc[r] = "resetting" /\ Via[r] = "order"   -> 5
      [] pc[r] \in {"extended", "failed"}          -> 4
      [] pc[r] \in {"stored", "refunded"}          -> 3
      [] OTHER                                     -> 0

\* A session's own step lowers what it has left; any other step leaves that alone.
RunsOut(r) ==
    /\ SessionStep(r) => StepsLeft(r)' < StepsLeft(r)
    /\ pc[r] # "idle" /\ ~SessionStep(r) => StepsLeft(r)' = StepsLeft(r)

LEMMA StepsLeftAre ==
    ASSUME RenewalTypeOK, NEW r \in Renewals
    PROVE  /\ StepsLeft(r) \in Nat
           /\ pc[r] = "opened" => StepsLeft(r) = 2 * MaxAttempts + 10
           /\ pc[r] = "loaded" => StepsLeft(r) = 2 * MaxAttempts + 9
           /\ pc[r] = "charged" => StepsLeft(r) = 2 * MaxAttempts + 8
           /\ pc[r] = "resetting" /\ Via[r] = "quote" => StepsLeft(r) = 2 * MaxAttempts + 7
           /\ pc[r] = "waiting" => StepsLeft(r) = 2 * (MaxAttempts - tries[r]) + 6
           /\ pc[r] = "modifying" => StepsLeft(r) = 2 * (MaxAttempts - tries[r]) + 5
           /\ pc[r] = "resetting" /\ Via[r] = "order" => StepsLeft(r) = 5
           /\ pc[r] \in {"extended", "failed"} => StepsLeft(r) = 4
           /\ pc[r] \in {"stored", "refunded"} => StepsLeft(r) = 3
           /\ pc[r] \in {"idle", "done", "dead", "lost"} => StepsLeft(r) = 0
<1>1. /\ pc[r] \in Steps /\ Via[r] \in {"quote", "order"} /\ tries[r] \in 0..(MaxAttempts - 1)
      /\ MaxAttempts \in Nat
  BY RenewalAssumption, PanelsAssumption DEF RenewalTypeOK
<1>2. /\ pc[r] = "opened" => StepsLeft(r) = 2 * MaxAttempts + 10
      /\ pc[r] = "loaded" => StepsLeft(r) = 2 * MaxAttempts + 9
      /\ pc[r] = "charged" => StepsLeft(r) = 2 * MaxAttempts + 8
      /\ pc[r] = "resetting" /\ Via[r] = "quote" => StepsLeft(r) = 2 * MaxAttempts + 7
      /\ pc[r] = "waiting" => StepsLeft(r) = 2 * (MaxAttempts - tries[r]) + 6
      /\ pc[r] = "modifying" => StepsLeft(r) = 2 * (MaxAttempts - tries[r]) + 5
      /\ pc[r] = "resetting" /\ Via[r] = "order" => StepsLeft(r) = 5
      /\ pc[r] \in {"extended", "failed"} => StepsLeft(r) = 4
      /\ pc[r] \in {"stored", "refunded"} => StepsLeft(r) = 3
      /\ pc[r] \in {"idle", "done", "dead", "lost"} => StepsLeft(r) = 0
  BY DEF StepsLeft
<1>3. StepsLeft(r) \in Nat
  <2>1. /\ 2 * MaxAttempts + 10 \in Nat /\ 2 * MaxAttempts + 9 \in Nat
        /\ 2 * MaxAttempts + 8 \in Nat /\ 2 * MaxAttempts + 7 \in Nat
        /\ 2 * (MaxAttempts - tries[r]) + 6 \in Nat /\ 2 * (MaxAttempts - tries[r]) + 5 \in Nat
    BY <1>1
  <2> QED
    BY <1>1, <1>2, <2>1 DEF Steps
<1> QED
  BY <1>2, <1>3

LEMMA StepsLeftWillBe ==
    ASSUME RenewalTypeOK', NEW r \in Renewals
    PROVE  /\ pc'[r] = "loaded" => StepsLeft(r)' = 2 * MaxAttempts + 9
           /\ pc'[r] = "charged" => StepsLeft(r)' = 2 * MaxAttempts + 8
           /\ pc'[r] = "resetting" /\ Via[r] = "quote" => StepsLeft(r)' = 2 * MaxAttempts + 7
           /\ pc'[r] = "waiting" => StepsLeft(r)' = 2 * (MaxAttempts - tries'[r]) + 6
           /\ pc'[r] = "modifying" => StepsLeft(r)' = 2 * (MaxAttempts - tries'[r]) + 5
           /\ pc'[r] = "resetting" /\ Via[r] = "order" => StepsLeft(r)' = 5
           /\ pc'[r] \in {"extended", "failed"} => StepsLeft(r)' = 4
           /\ pc'[r] \in {"stored", "refunded"} => StepsLeft(r)' = 3
           /\ pc'[r] \in {"done", "dead", "lost"} => StepsLeft(r)' = 0
BY DEF StepsLeft

\* Where a step of a session may lead.
LEMMA SessionMoves ==
    ASSUME RenewalTypeOK, NEW r \in Renewals, SessionStep(r)
    PROVE  \/ pc[r] = "opened" /\ pc'[r] \in {"loaded", "done"}
           \/ pc[r] = "loaded" /\ pc'[r] = "resetting" /\ Via[r] = "quote"
           \/ pc[r] = "loaded" /\ pc'[r] \in {"charged", "done"}
           \/ pc[r] = "charged" /\ pc'[r] \in {"modifying", "failed"}
           \/ pc[r] = "resetting" /\ Via[r] = "quote" /\ pc'[r] \in {"modifying", "failed"}
           \/ pc[r] = "modifying" /\ pc'[r] = "waiting" /\ tries'[r] = tries[r] + 1
           \/ pc[r] = "modifying" /\ pc'[r] = "resetting" /\ Via[r] = "order"
           \/ pc[r] = "modifying" /\ pc'[r] \in {"extended", "failed"}
           \/ pc[r] = "waiting" /\ pc'[r] = "modifying" /\ tries'[r] = tries[r]
           \/ pc[r] = "resetting" /\ Via[r] = "order" /\ pc'[r] \in {"extended", "lost"}
           \/ pc[r] = "extended" /\ pc'[r] \in {"stored", "done"}
           \/ pc[r] = "failed" /\ pc'[r] \in {"refunded", "done"}
           \/ pc[r] \in {"stored", "refunded"} /\ pc'[r] = "done"
           \/ pc[r] \notin {"idle", "done", "dead", "lost"} /\ pc'[r] = "dead"
<1>0. \A step : Goto(r, step) => pc'[r] = step
  BY DEF Goto, RenewalTypeOK
<1>1. CASE LoadService(r)
  BY <1>0, <1>1 DEF LoadService
<1>2. CASE ChargeQuote(r) \/ ChargeOrder(r) \/ Refuse(r)
  BY <1>0, <1>2 DEF ChargeQuote, ChargeOrder, Refuse
<1>3. CASE OpenPanel(r)
  BY <1>0, <1>3 DEF OpenPanel
<1>4. ASSUME NEW answer \in Answers, ModifyAttempt(r, answer)
      PROVE  /\ pc[r] = "modifying"
             /\ \/ pc'[r] = "waiting" /\ tries'[r] = tries[r] + 1
                \/ pc'[r] = "resetting" /\ Via[r] = "order"
                \/ pc'[r] \in {"extended", "failed"}
  <2>1. pc[r] = "modifying"
    BY <1>4 DEF ModifyAttempt
  <2>2. CASE Goto(r, AfterModify(r))
    BY <1>0, <2>1, <2>2 DEF AfterModify
  <2>3. CASE Goto(r, "waiting") /\ tries' = [tries EXCEPT ![r] = Attempt(@)]
    BY <1>0, <2>1, <2>3 DEF Attempt, RenewalTypeOK
  <2>4. CASE GiveUp(r)
    BY <1>0, <2>1, <2>4 DEF GiveUp
  <2> QED
    BY <1>4, <2>2, <2>3, <2>4 DEF ModifyAttempt
<1>5. ASSUME NEW answer \in Answers, ResetFirst(r, answer)
      PROVE  pc[r] = "resetting" /\ Via[r] = "quote" /\ pc'[r] \in {"modifying", "failed"}
  BY <1>0, <1>5 DEF ResetFirst
<1>6. ASSUME NEW answer \in Answers, ResetLast(r, answer)
      PROVE  pc[r] = "resetting" /\ Via[r] = "order" /\ pc'[r] \in {"extended", "lost"}
  BY <1>0, <1>6 DEF ResetLast
<1>7. CASE WakeUp(r)
  BY <1>0, <1>7 DEF WakeUp
<1>8. CASE Store(r) \/ CompleteOrder(r)
  BY <1>0, <1>8 DEF Store, CompleteOrder
<1>9. CASE Refund(r) \/ MarkRefunded(r)
  BY <1>0, <1>9 DEF Refund, MarkRefunded
<1>10. CASE Abort(r)
  BY <1>0, <1>10 DEF Abort
<1> QED
  BY <1>1, <1>2, <1>3, <1>4, <1>5, <1>6, <1>7, <1>8, <1>9, <1>10 DEF SessionStep

LEMMA SessionFalls ==
    ASSUME RenewalTypeOK, RenewalTypeOK', NEW r \in Renewals, SessionStep(r)
    PROVE  StepsLeft(r)' < StepsLeft(r)
<1>1. /\ tries[r] \in 0..(MaxAttempts - 1) /\ tries'[r] \in 0..(MaxAttempts - 1)
      /\ MaxAttempts \in Nat /\ Via[r] \in {"quote", "order"} /\ pc[r] \in Steps
  BY RenewalAssumption, PanelsAssumption DEF RenewalTypeOK
<1>2. PICK m, n : m = StepsLeft(r)' /\ n = StepsLeft(r)
  OBVIOUS
<1>3. /\ n \in Nat
      /\ pc[r] = "opened" => n = 2 * MaxAttempts + 10
      /\ pc[r] = "loaded" => n = 2 * MaxAttempts + 9
      /\ pc[r] = "charged" => n = 2 * MaxAttempts + 8
      /\ pc[r] = "resetting" /\ Via[r] = "quote" => n = 2 * MaxAttempts + 7
      /\ pc[r] = "waiting" => n = 2 * (MaxAttempts - tries[r]) + 6
      /\ pc[r] = "modifying" => n = 2 * (MaxAttempts - tries[r]) + 5
      /\ pc[r] = "resetting" /\ Via[r] = "order" => n = 5
      /\ pc[r] \in {"extended", "failed"} => n = 4
      /\ pc[r] \in {"stored", "refunded"} => n = 3
  BY <1>2, StepsLeftAre
<1>4. /\ pc'[r] = "loaded" => m = 2 * MaxAttempts + 9
      /\ pc'[r] = "charged" => m = 2 * MaxAttempts + 8
      /\ pc'[r] = "resetting" /\ Via[r] = "quote" => m = 2 * MaxAttempts + 7
      /\ pc'[r] = "waiting" => m = 2 * (MaxAttempts - tries'[r]) + 6
      /\ pc'[r] = "modifying" => m = 2 * (MaxAttempts - tries'[r]) + 5
      /\ pc'[r] = "resetting" /\ Via[r] = "order" => m = 5
      /\ pc'[r] \in {"extended", "failed"} => m = 4
      /\ pc'[r] \in {"stored", "refunded"} => m = 3
      /\ pc'[r] \in {"done", "dead", "lost"} => m = 0
  BY <1>2, StepsLeftWillBe
<1>5. pc[r] \notin {"idle", "done", "dead", "lost"} => n > 0
  BY <1>1, <1>3 DEF Steps
<1>6. ASSUME \/ pc[r] = "opened" /\ pc'[r] \in {"loaded", "done"}
             \/ pc[r] = "loaded" /\ pc'[r] = "resetting" /\ Via[r] = "quote"
             \/ pc[r] = "loaded" /\ pc'[r] \in {"charged", "done"}
             \/ pc[r] = "charged" /\ pc'[r] \in {"modifying", "failed"}
             \/ pc[r] = "resetting" /\ Via[r] = "quote" /\ pc'[r] \in {"modifying", "failed"}
      PROVE  m < n
  BY <1>1, <1>3, <1>4, <1>6
<1>7. ASSUME \/ pc[r] = "modifying" /\ pc'[r] = "waiting" /\ tries'[r] = tries[r] + 1
             \/ pc[r] = "modifying" /\ pc'[r] = "resetting" /\ Via[r] = "order"
             \/ pc[r] = "modifying" /\ pc'[r] \in {"extended", "failed"}
             \/ pc[r] = "waiting" /\ pc'[r] = "modifying" /\ tries'[r] = tries[r]
      PROVE  m < n
  BY <1>1, <1>3, <1>4, <1>7
<1>8. ASSUME \/ pc[r] = "resetting" /\ Via[r] = "order" /\ pc'[r] \in {"extended", "lost"}
             \/ pc[r] = "extended" /\ pc'[r] \in {"stored", "done"}
             \/ pc[r] = "failed" /\ pc'[r] \in {"refunded", "done"}
             \/ pc[r] \in {"stored", "refunded"} /\ pc'[r] = "done"
      PROVE  m < n
  BY <1>3, <1>4, <1>8
<1>9. ASSUME pc[r] \notin {"idle", "done", "dead", "lost"} /\ pc'[r] = "dead"
      PROVE  m < n
  BY <1>4, <1>5, <1>9
<1>10. m < n
  BY <1>6, <1>7, <1>8, <1>9, SessionMoves
<1> QED
  BY <1>2, <1>10

LEMMA OtherSessionsKept ==
    ASSUME RenewalTypeOK, NEW r \in Renewals, NEW x \in Renewals \ {r}, Open(x) \/ SessionStep(x)
    PROVE  pc'[r] = pc[r] /\ tries'[r] = tries[r]
<1>1. \A step : Goto(x, step) => pc'[r] = pc[r]
  BY DEF Goto, RenewalTypeOK
<1>2. CASE Open(x)
  BY <1>1, <1>2 DEF Open
<1>3. ASSUME NEW answer \in Answers, ModifyAttempt(x, answer)
      PROVE  pc'[r] = pc[r] /\ tries'[r] = tries[r]
  BY <1>1, <1>3 DEF ModifyAttempt, GiveUp, RenewalTypeOK
<1>4. ASSUME NEW answer \in Answers, ResetFirst(x, answer) \/ ResetLast(x, answer)
      PROVE  pc'[r] = pc[r] /\ tries'[r] = tries[r]
  BY <1>1, <1>4 DEF ResetFirst, ResetLast
<1>5. CASE LoadService(x) \/ ChargeQuote(x) \/ ChargeOrder(x) \/ Refuse(x) \/ OpenPanel(x)
  BY <1>1, <1>5 DEF LoadService, ChargeQuote, ChargeOrder, Refuse, OpenPanel
<1>6. CASE \/ WakeUp(x) \/ Store(x) \/ CompleteOrder(x) \/ Refund(x) \/ MarkRefunded(x)
           \/ Abort(x)
  BY <1>1, <1>6 DEF WakeUp, Store, CompleteOrder, Refund, MarkRefunded, Abort
<1> QED
  BY <1>2, <1>3, <1>4, <1>5, <1>6 DEF SessionStep

LEMMA RenewalRunsOut ==
    ASSUME RenewalTypeOK, RenewalTypeOK', [Next]_vars, NEW r \in Renewals
    PROVE  RunsOut(r)
<1>1. ASSUME pc[r] # "idle", ~SessionStep(r)
      PROVE  pc'[r] = pc[r] /\ tries'[r] = tries[r]
  <2>1. ASSUME NEW x \in Renewals, Open(x) \/ SessionStep(x)
        PROVE  pc'[r] = pc[r] /\ tries'[r] = tries[r]
    <3>1. x # r
      BY <1>1, <2>1 DEF Open
    <3> QED
      BY <2>1, <3>1, OtherSessionsKept
  <2>2. CASE UNCHANGED sessionVars
    BY <2>2 DEF sessionVars
  <2> QED
    BY <2>1, <2>2 DEF Next, TopUp, AdminPanels, Tick, vars
<1>2. (pc'[r] = pc[r] /\ tries'[r] = tries[r]) => StepsLeft(r)' = StepsLeft(r)
  BY DEF StepsLeft
<1> QED
  BY <1>1, <1>2, SessionFalls DEF RunsOut

\* No renewal goes on for ever by itself: each step of its session leaves it fewer, retries
\* included, and nothing that happens meanwhile gives it more (core/retry.py:39-46). This
\* is RenewalEnds but for the fairness of the scheduling.
THEOREM RenewalsRunOut ==
    Spec => /\ [](\A r \in Renewals : StepsLeft(r) \in Nat)
            /\ [][\A r \in Renewals : RunsOut(r)]_vars
<1>1. RenewalInv => RenewalTypeOK
  BY DEF RenewalInv
<1>2. RenewalTypeOK => \A r \in Renewals : StepsLeft(r) \in Nat
  BY StepsLeftAre
<1>3. RenewalTypeOK /\ RenewalTypeOK' /\ [Next]_vars => [\A r \in Renewals : RunsOut(r)]_vars
  BY RenewalRunsOut
<1> QED
  BY <1>1, <1>2, <1>3, RenewalInvariant, PTL DEF Spec
=============================================================================
