---------------------------- MODULE FundsProofs -----------------------------
(***************************************************************************)
(* Proofs about Funds, for every set of users, payments, coin orders and   *)
(* tournaments, any sums, fees, prizes and scores, and any number of       *)
(* requests in progress.                                                   *)
(***************************************************************************)
EXTENDS Funds, RowProofs

-----------------------------------------------------------------------------
(* How often the members of a set occur in a sequence.                     *)

Places(s, G) == {i \in DOMAIN s : s[i] \in G}

HowMany(s, G) == Cardinality(Places(s, G))

LEMMA PlacesFinite ==
    ASSUME NEW S, NEW s \in Seq(S), NEW G
    PROVE  IsFiniteSet(Places(s, G)) /\ HowMany(s, G) \in Nat
<1>1. IsFiniteSet(1..Len(s))
  BY FS_Interval
<1>2. Places(s, G) \subseteq 1..Len(s)
  BY DEF Places
<1> QED
  BY <1>1, <1>2, FS_Subset, FS_CardinalityType DEF HowMany

\* Two sequences with equal elements at the same places.
LEMMA PlacesSame ==
    ASSUME NEW S, NEW s \in Seq(S), NEW m \in Seq(S), NEW k \in DOMAIN s, NEW G,
           Len(m) = Len(s), \A i \in 1..Len(s) : i # k => m[i] = s[i]
    PROVE  HowMany(m, G) = HowMany(s, G) - (IF s[k] \in G THEN 1 ELSE 0)
                                         + (IF m[k] \in G THEN 1 ELSE 0)
<1> DEFINE A == Places(s, G)
           B == Places(m, G)
<1>1. A \ {k} = B \ {k}
  BY DEF Places
<1>2. IsFiniteSet(A) /\ IsFiniteSet(B) /\ HowMany(s, G) \in Nat /\ HowMany(m, G) \in Nat
  BY PlacesFinite
<1>3. /\ Cardinality(A \ {k}) = IF k \in A THEN Cardinality(A) - 1 ELSE Cardinality(A)
      /\ Cardinality(B \ {k}) = IF k \in B THEN Cardinality(B) - 1 ELSE Cardinality(B)
  BY <1>2, FS_RemoveElement
<1>4. (k \in A <=> s[k] \in G) /\ (k \in B <=> m[k] \in G)
  BY DEF Places
<1>5. Cardinality(A) = HowMany(s, G) /\ Cardinality(B) = HowMany(m, G)
  BY DEF HowMany
<1> HIDE DEF A, B
<1>6. IF s[k] \in G THEN HowMany(s, G) - 1 = Cardinality(A \ {k})
                    ELSE HowMany(s, G) = Cardinality(A \ {k})
  BY <1>3, <1>4, <1>5
<1>7. IF m[k] \in G THEN HowMany(m, G) - 1 = Cardinality(A \ {k})
                    ELSE HowMany(m, G) = Cardinality(A \ {k})
  BY <1>1, <1>3, <1>4, <1>5
<1> QED
  BY <1>2, <1>6, <1>7

LEMMA PlacesAppend ==
    ASSUME NEW S, NEW s \in Seq(S), NEW m \in Seq(S), NEW G,
           Len(m) = Len(s) + 1, \A i \in 1..Len(s) : m[i] = s[i]
    PROVE  HowMany(m, G) = HowMany(s, G) + (IF m[Len(s) + 1] \in G THEN 1 ELSE 0)
<1> DEFINE A == Places(s, G)
           n == Len(s) + 1
<1>1. /\ DOMAIN m = 1..n /\ DOMAIN s = 1..Len(s) /\ Len(s) \in Nat
      /\ \A i \in 1..Len(s) : m[i] = s[i]
  OBVIOUS
<1>2. Places(m, G) = IF m[n] \in G THEN A \cup {n} ELSE A
  BY <1>1 DEF Places
<1>3. n \notin A
  BY <1>1 DEF Places
<1>4. IsFiniteSet(A) /\ HowMany(s, G) \in Nat
  BY PlacesFinite
<1>5. Cardinality(A \cup {n}) = Cardinality(A) + 1
  BY <1>3, <1>4, FS_AddElement
<1> QED
  BY <1>2, <1>4, <1>5 DEF HowMany

LEMMA RemoveAtIs ==
    ASSUME NEW S, NEW s \in Seq(S), NEW k \in DOMAIN s
    PROVE  /\ RemoveAt(s, k) \in Seq(S)
           /\ Len(RemoveAt(s, k)) = Len(s) - 1
           /\ \A i \in 1..(Len(s) - 1) :
                 RemoveAt(s, k)[i] = IF i < k THEN s[i] ELSE s[i + 1]
<1> DEFINE a == SubSeq(s, 1, k - 1)
           b == SubSeq(s, k + 1, Len(s))
<1>1. k \in 1..Len(s) /\ Len(s) \in Nat /\ k \in Int
  OBVIOUS
<1>2. (\A i \in 1..(k - 1) : s[i] \in S) /\ (\A i \in (k + 1)..Len(s) : s[i] \in S)
  BY <1>1
<1>3. /\ a \in Seq(S)
      /\ Len(a) = k - 1
      /\ \A i \in 1..(k - 1) : a[i] = s[i]
  BY <1>1, <1>2, SubSeqProperties
<1>4. /\ b \in Seq(S)
      /\ Len(b) = Len(s) - k
      /\ \A i \in 1..(Len(s) - k) : b[i] = s[k + i]
  <2>1. PICK j : j = k + 1 /\ j \in Int
    BY <1>1
  <2>2. \A i \in j..Len(s) : s[i] \in S
    BY <1>1, <1>2, <2>1
  <2>3. /\ SubSeq(s, j, Len(s)) \in Seq(S)
        /\ Len(SubSeq(s, j, Len(s))) = IF j <= Len(s) THEN Len(s) - j + 1 ELSE 0
        /\ \A i \in 1..(Len(s) - j + 1) : SubSeq(s, j, Len(s))[i] = s[j + i - 1]
    BY <1>1, <2>1, <2>2, SubSeqProperties
  <2>4. b = SubSeq(s, j, Len(s)) /\ Len(s) - j + 1 = Len(s) - k
    BY <1>1, <2>1
  <2> HIDE DEF b
  <2>5. ASSUME NEW i \in 1..(Len(s) - k)
        PROVE  i \in 1..(Len(s) - j + 1) /\ j + i - 1 = k + i
    <3>1. Len(s) \in Int /\ k \in Int /\ i \in Int /\ j = k + 1
      BY <1>1, <2>1
    <3> QED
      BY <3>1
  <2>6. \A i \in 1..(Len(s) - k) : b[i] = s[k + i]
    BY <2>3, <2>4, <2>5
  <2>7. Len(b) = Len(s) - k
    BY <1>1, <2>1, <2>3, <2>4
  <2> QED
    BY <2>3, <2>4, <2>6, <2>7
<1> HIDE DEF a, b
<1>5. /\ a \o b \in Seq(S)
      /\ Len(a \o b) = Len(a) + Len(b)
      /\ \A i \in 1..(Len(a) + Len(b)) :
            (a \o b)[i] = IF i <= Len(a) THEN a[i] ELSE b[i - Len(a)]
  BY <1>3, <1>4, ConcatProperties
<1>6. RemoveAt(s, k) = a \o b
  BY DEF RemoveAt, a, b
<1>7. \A i \in 1..(Len(s) - 1) : (a \o b)[i] = IF i < k THEN s[i] ELSE s[i + 1]
  <2> TAKE i \in 1..(Len(s) - 1)
  <2>1. i \in 1..(Len(a) + Len(b)) /\ i \in Int
    BY <1>1, <1>3, <1>4
  <2>2. CASE i < k
    BY <1>1, <1>3, <1>5, <2>1, <2>2
  <2>3. CASE ~ (i < k)
    <3>1. (a \o b)[i] = b[i - (k - 1)]
      BY <1>1, <1>3, <1>5, <2>1, <2>3
    <3>2. i - (k - 1) \in 1..(Len(s) - k) /\ k + (i - (k - 1)) = i + 1
      BY <1>1, <2>1, <2>3
    <3> QED
      BY <1>4, <2>3, <3>1, <3>2, <2>1, <1>1
  <2> QED
    BY <2>2, <2>3
<1>8. Len(a \o b) = Len(s) - 1
  BY <1>1, <1>3, <1>4, <1>5
<1> QED
  BY <1>5, <1>6, <1>7, <1>8

LEMMA PlacesRemove ==
    ASSUME NEW S, NEW s \in Seq(S), NEW k \in DOMAIN s, NEW m, NEW G, m = RemoveAt(s, k)
    PROVE  HowMany(m, G) = HowMany(s, G) - (IF s[k] \in G THEN 1 ELSE 0)
<1> DEFINE A == Places(s, G) \ {k}
           B == Places(m, G)
           f == [i \in B |-> IF i < k THEN i ELSE i + 1]
<1>1. /\ k \in 1..Len(s) /\ Len(s) \in Nat /\ DOMAIN s = 1..Len(s)
      /\ m \in Seq(S) /\ DOMAIN m = 1..(Len(s) - 1)
      /\ \A i \in 1..(Len(s) - 1) : m[i] = IF i < k THEN s[i] ELSE s[i + 1]
  BY RemoveAtIs
<1>2. f \in Bijection(B, A)
  <2>1. ASSUME NEW i \in B PROVE f[i] \in A
    BY <1>1 DEF Places
  <2>2. ASSUME NEW i \in B, NEW j \in B, f[i] = f[j] PROVE i = j
    BY <1>1, <2>2 DEF Places
  <2>3. ASSUME NEW j \in A PROVE \E i \in B : f[i] = j
    <3>0. j \in 1..Len(s) /\ j # k /\ s[j] \in G /\ j \in Int /\ k \in Int
      BY <1>1 DEF Places
    <3>1. CASE j < k
      <4>1. j \in 1..(Len(s) - 1)
        BY <1>1, <3>0, <3>1
      <4>2. j \in B
        BY <1>1, <3>0, <3>1, <4>1 DEF Places
      <4>3. f[j] = j
        BY <3>1, <4>2
      <4> QED
        BY <4>2, <4>3
    <3>2. CASE j > k
      <4>1. PICK i : i = j - 1 /\ i \in 1..(Len(s) - 1) /\ ~ (i < k) /\ i + 1 = j
        BY <1>1, <3>0, <3>2
      <4>2. i \in B
        BY <1>1, <3>0, <4>1 DEF Places
      <4>3. f[i] = j
        BY <4>1, <4>2
      <4> QED
        BY <4>2, <4>3
    <3> QED
      BY <3>0, <3>1, <3>2
  <2>4. f \in [B -> A]
    BY <2>1
  <2> QED
    BY <2>2, <2>3, <2>4 DEF Bijection, Injection, Surjection, IsInjective
<1>3. IsFiniteSet(B) /\ HowMany(m, G) \in Nat
  BY <1>1, PlacesFinite
<1> HIDE DEF f
<1>4. Cardinality(A) = Cardinality(B)
  BY <1>2, <1>3, FS_Bijection DEF ExistsBijection
<1>5. IsFiniteSet(Places(s, G)) /\ HowMany(s, G) \in Nat
  BY PlacesFinite
<1>6. Cardinality(A) = IF k \in Places(s, G) THEN Cardinality(Places(s, G)) - 1
                                           ELSE Cardinality(Places(s, G))
  BY <1>5, FS_RemoveElement
<1>7. k \in Places(s, G) <=> s[k] \in G
  BY DEF Places
<1> QED
  BY <1>4, <1>5, <1>6, <1>7 DEF HowMany

LEMMA PlacesTail ==
    ASSUME NEW S, NEW s \in Seq(S), s # <<>>, NEW G
    PROVE  HowMany(Tail(s), G) = HowMany(s, G) - (IF Head(s) \in G THEN 1 ELSE 0)
<1>1. /\ 1 \in DOMAIN s /\ Head(s) = s[1] /\ Len(s) \in Nat
      /\ Tail(s) \in Seq(S) /\ Len(Tail(s)) = Len(s) - 1
      /\ \A i \in 1..(Len(s) - 1) : Tail(s)[i] = s[i + 1]
  BY HeadTailProperties
<1>2. PICK r : r = RemoveAt(s, 1)
  OBVIOUS
<1>3. /\ r \in Seq(S)
      /\ Len(r) = Len(s) - 1
      /\ \A i \in 1..(Len(s) - 1) : r[i] = IF i < 1 THEN s[i] ELSE s[i + 1]
  BY <1>1, <1>2, RemoveAtIs
<1>4. \A i \in 1..(Len(s) - 1) : r[i] = Tail(s)[i]
  BY <1>1, <1>3
<1>5. Len(r) = Len(Tail(s)) /\ \A i \in 1..Len(r) : r[i] = Tail(s)[i]
  BY <1>1, <1>3, <1>4
<1>6. r = Tail(s)
  BY <1>1, <1>3, <1>5, SeqEqual
<1>7. HowMany(r, G) = HowMany(s, G) - (IF s[1] \in G THEN 1 ELSE 0)
  BY <1>1, <1>2, PlacesRemove
<1> QED
  BY <1>1, <1>6, <1>7

-----------------------------------------------------------------------------
(* What a posting does to the wallets and to the rows of the ledger.       *)

RowTypes == {"DEPOSIT", "TOURNAMENT_ENTRY", "TOURNAMENT_PRIZE", "REFUND"}

WalletTypeOK ==
    /\ wallet \in [Users -> Nat]
    /\ ledger \in [Users -> Seq(FundsRow)]

LEMMA PostEffect ==
    ASSUME WalletTypeOK,
           NEW u \in Users, NEW seen \in Nat, NEW amount \in Int, seen + amount >= 0,
           NEW type \in RowTypes, NEW ref \in Refs,
           Post(u, seen, amount, type, ref)
    PROVE  /\ WalletTypeOK'
           /\ wallet'[u] = seen + amount
           /\ \A v \in Users : v # u => wallet'[v] = wallet[v] /\ ledger'[v] = ledger[v]
           /\ Len(ledger'[u]) = Len(ledger[u]) + 1
           /\ \A i \in 1..Len(ledger[u]) : ledger'[u][i] = ledger[u][i]
           /\ ledger'[u][Len(ledger[u]) + 1] =
                [type |-> type, ref |-> ref, amount |-> amount,
                 before |-> seen, after |-> seen + amount]
<1> DEFINE entry == [type |-> type, ref |-> ref, amount |-> amount,
                     before |-> seen, after |-> seen + amount]
<1>1. entry \in FundsRow
  BY DEF FundsRow, RowTypes
<1>2. ledger \in [Users -> Seq(FundsRow)] /\ ledger' = [ledger EXCEPT ![u] = Append(@, entry)]
  BY DEF WalletTypeOK, Post
<1> HIDE DEF entry
<1>3. /\ ledger' \in [Users -> Seq(FundsRow)]
      /\ \A v \in Users : v # u => ledger'[v] = ledger[v]
      /\ Len(ledger'[u]) = Len(ledger[u]) + 1
      /\ \A i \in 1..Len(ledger[u]) : ledger'[u][i] = ledger[u][i]
      /\ ledger'[u][Len(ledger[u]) + 1] = entry
  BY <1>1, <1>2, AppendRow
<1>4. /\ wallet' \in [Users -> Nat]
      /\ wallet'[u] = seen + amount
      /\ \A v \in Users : v # u => wallet'[v] = wallet[v]
  BY DEF WalletTypeOK, Post
<1>5. WalletTypeOK'
  BY <1>3, <1>4 DEF WalletTypeOK
<1> QED
  BY <1>3, <1>4, <1>5 DEF entry

\* A posting adds its row to the rows of its own type and reference, and to no others.
LEMMA PostRows ==
    ASSUME WalletTypeOK,
           NEW u \in Users, NEW seen \in Nat, NEW amount \in Int, seen + amount >= 0,
           NEW type \in RowTypes, NEW ref \in Refs,
           Post(u, seen, amount, type, ref),
           NEW v \in Users, NEW t, NEW r
    PROVE  RowsFor(v, t, r)' =
             IF v = u /\ t = type /\ r = ref
             THEN RowsFor(v, t, r) \cup {Len(ledger[u]) + 1}
             ELSE RowsFor(v, t, r)
<1>1. /\ WalletTypeOK'
      /\ \A w \in Users : w # u => wallet'[w] = wallet[w] /\ ledger'[w] = ledger[w]
      /\ Len(ledger'[u]) = Len(ledger[u]) + 1
      /\ \A i \in 1..Len(ledger[u]) : ledger'[u][i] = ledger[u][i]
      /\ ledger'[u][Len(ledger[u]) + 1] =
           [type |-> type, ref |-> ref, amount |-> amount,
            before |-> seen, after |-> seen + amount]
  BY PostEffect
<1>2. CASE v # u
  BY <1>1, <1>2 DEF RowsFor
<1>3. CASE v = u
  <2>1. /\ ledger[u] \in Seq(FundsRow)
        /\ ledger'[u] \in Seq(FundsRow)
        /\ Len(ledger[u]) \in Nat
    BY <1>1 DEF WalletTypeOK
  <2>2. DOMAIN ledger'[u] = DOMAIN ledger[u] \cup {Len(ledger[u]) + 1}
    BY <1>1, <2>1
  <2>3. \A i \in DOMAIN ledger[u] : ledger'[u][i] = ledger[u][i]
    <3>1. DOMAIN ledger[u] = 1..Len(ledger[u])
      BY <2>1
    <3> QED
      BY <1>1, <3>1
  <2>4. /\ ledger'[u][Len(ledger[u]) + 1].type = type
        /\ ledger'[u][Len(ledger[u]) + 1].ref = ref
    BY <1>1
  <2>5. RowsFor(v, t, r)' =
          {i \in DOMAIN ledger'[u] : ledger'[u][i].type = t /\ ledger'[u][i].ref = r}
    BY <1>3 DEF RowsFor
  <2>6. RowsFor(v, t, r) =
          {i \in DOMAIN ledger[u] : ledger[u][i].type = t /\ ledger[u][i].ref = r}
    BY <1>3 DEF RowsFor
  <2> QED
    BY <1>3, <2>2, <2>3, <2>4, <2>5, <2>6
<1> QED
  BY <1>2, <1>3

LEMMA PostedNat ==
    ASSUME WalletTypeOK, NEW u \in Users, NEW type, NEW ref
    PROVE  /\ IsFiniteSet(RowsFor(u, type, ref))
           /\ Posted(u, type, ref) \in Nat
           /\ RowsFor(u, type, ref) = {} <=> Posted(u, type, ref) = 0
           /\ Len(ledger[u]) \in Nat /\ Len(ledger[u]) + 1 \notin RowsFor(u, type, ref)
<1>1. ledger[u] \in Seq(FundsRow)
  BY DEF WalletTypeOK
<1>2. RowsFor(u, type, ref) \subseteq 1..Len(ledger[u]) /\ Len(ledger[u]) \in Nat
  BY <1>1 DEF RowsFor
<1>3. IsFiniteSet(1..Len(ledger[u]))
  BY <1>2, FS_Interval
<1>4. IsFiniteSet(RowsFor(u, type, ref))
  BY <1>2, <1>3, FS_Subset
<1> QED
  BY <1>2, <1>4, FS_CardinalityType, FS_EmptySet DEF Posted

LEMMA PostCounts ==
    ASSUME WalletTypeOK,
           NEW u \in Users, NEW seen \in Nat, NEW amount \in Int, seen + amount >= 0,
           NEW type \in RowTypes, NEW ref \in Refs,
           Post(u, seen, amount, type, ref),
           NEW v \in Users, NEW t, NEW r
    PROVE  Posted(v, t, r)' =
             Posted(v, t, r) + (IF v = u /\ t = type /\ r = ref THEN 1 ELSE 0)
<1> DEFINE R == RowsFor(v, t, r)
           n == Len(ledger[u]) + 1
<1>1. IsFiniteSet(R) /\ Posted(v, t, r) \in Nat /\ (v = u => n \notin R)
  BY PostedNat
<1>2. RowsFor(v, t, r)' = IF v = u /\ t = type /\ r = ref THEN R \cup {n} ELSE R
  BY PostRows
<1> HIDE DEF n, R
<1>3. n \notin R => Cardinality(R \cup {n}) = Cardinality(R) + 1
  BY <1>1, FS_AddElement
<1>4. Posted(v, t, r)' = Cardinality(RowsFor(v, t, r)') /\ Posted(v, t, r) = Cardinality(R)
  BY DEF Posted, R
<1>5. CASE v = u /\ t = type /\ r = ref
  BY <1>1, <1>2, <1>3, <1>4, <1>5
<1>6. CASE ~ (v = u /\ t = type /\ r = ref)
  BY <1>1, <1>2, <1>4, <1>6
<1> QED
  BY <1>5, <1>6

\* One more element.
LEMMA SumAppend ==
    ASSUME NEW n \in Nat, NEW f, NEW g,
           \A i \in 1..n : f[i] \in Int /\ g[i] = f[i], g[n + 1] \in Int
    PROVE  SumFunctionOnSet(g, 1..(n + 1)) = SumFunctionOnSet(f, 1..n) + g[n + 1]
<1>0. IsFiniteSet(1..n)
  BY FS_Interval
<1>1. 1..(n + 1) = (1..n) \cup {n + 1} /\ n + 1 \notin 1..n
  OBVIOUS
<1>2. SumFunctionOnSet(g, 1..n) = SumFunctionOnSet(f, 1..n)
  BY <1>0, SumSame
<1>3. SumFunctionOnSet(g, (1..n) \cup {n + 1}) = SumFunctionOnSet(g, 1..n) + g[n + 1]
  <2> DEFINE S == 1..n
             c == n + 1
  <2>1. IsFiniteSet(S) /\ (\A i \in S : g[i] \in Int) /\ c \notin S /\ g[c] \in Int
    BY <1>0, <1>1
  <2> HIDE DEF S, c
  <2>2. SumFunctionOnSet(g, S \cup {c}) = SumFunctionOnSet(g, S) + g[c]
    BY <2>1, SumExtend
  <2> QED
    BY <2>2 DEF S, c
<1> QED
  BY <1>1, <1>2, <1>3

\* The rows for a bill, with one more row.
LEMMA SumOfLonger ==
    ASSUME NEW S, NEW rows \in Seq(S), NEW more \in Seq(S), NEW bill,
           \A r \in S : r.amount \in Int,
           Len(more) = Len(rows) + 1, \A i \in 1..Len(rows) : more[i] = rows[i]
    PROVE  SumOf(more, bill) = SumOf(rows, bill) +
               (IF more[Len(rows) + 1].ref = bill THEN more[Len(rows) + 1].amount ELSE 0)
<1> DEFINE n == Len(rows)
           f == [i \in DOMAIN rows |-> IF rows[i].ref = bill THEN rows[i].amount ELSE 0]
           g == [i \in DOMAIN more |-> IF more[i].ref = bill THEN more[i].amount ELSE 0]
<1>1. n \in Nat /\ DOMAIN rows = 1..n /\ DOMAIN more = 1..(n + 1)
  OBVIOUS
<1>2. (\A i \in 1..n : rows[i] \in S) /\ (\A i \in 1..(n + 1) : more[i] \in S)
  BY <1>1
<1>3. \A i \in 1..n : f[i] \in Int /\ g[i] = f[i]
  BY <1>1, <1>2
<1>4. n + 1 \in 1..(n + 1) /\ g[n + 1] \in Int
      /\ g[n + 1] = IF more[n + 1].ref = bill THEN more[n + 1].amount ELSE 0
  BY <1>1, <1>2
<1>5. SumOf(rows, bill) = SumFunctionOnSet(f, 1..n)
      /\ SumOf(more, bill) = SumFunctionOnSet(g, 1..(n + 1))
  BY <1>1 DEF SumOf
<1> HIDE DEF n, f, g
<1>6. SumFunctionOnSet(g, 1..(n + 1)) = SumFunctionOnSet(f, 1..n) + g[n + 1]
  BY <1>1, <1>3, <1>4, SumAppend
<1> QED
  BY <1>4, <1>5, <1>6 DEF n

\* What the rows of u add up to.
Total(u) == SumFunctionOnSet([i \in DOMAIN ledger[u] |-> ledger[u][i].amount], DOMAIN ledger[u])

LEMMA PostTotal ==
    ASSUME WalletTypeOK,
           NEW u \in Users, NEW seen \in Nat, NEW amount \in Int, seen + amount >= 0,
           NEW type \in RowTypes, NEW ref \in Refs,
           Post(u, seen, amount, type, ref),
           NEW v \in Users
    PROVE  Total(v)' = IF v = u THEN Total(v) + amount ELSE Total(v)
<1>1. /\ WalletTypeOK'
      /\ \A w \in Users : w # u => wallet'[w] = wallet[w] /\ ledger'[w] = ledger[w]
      /\ Len(ledger'[u]) = Len(ledger[u]) + 1
      /\ \A i \in 1..Len(ledger[u]) : ledger'[u][i] = ledger[u][i]
      /\ ledger'[u][Len(ledger[u]) + 1] =
           [type |-> type, ref |-> ref, amount |-> amount,
            before |-> seen, after |-> seen + amount]
  BY PostEffect
<1>2. CASE v # u
  BY <1>1, <1>2 DEF Total
<1>3. CASE v = u
  <2> DEFINE n == Len(ledger[u])
             f == [i \in DOMAIN ledger[u] |-> ledger[u][i].amount]
             g == [i \in DOMAIN ledger'[u] |-> ledger'[u][i].amount]
  <2>1. ledger[u] \in Seq(FundsRow) /\ ledger'[u] \in Seq(FundsRow)
    BY <1>1 DEF WalletTypeOK
  <2>2. n \in Nat /\ DOMAIN ledger[u] = 1..n /\ DOMAIN ledger'[u] = 1..(n + 1)
    BY <1>1, <2>1
  <2>3. ASSUME NEW i \in 1..n PROVE f[i] \in Int /\ g[i] = f[i]
    <3>1. ledger[u][i] \in FundsRow /\ ledger'[u][i] = ledger[u][i]
      BY <1>1, <2>1, ElementOfSeq
    <3>2. ledger[u][i].amount \in Int
      BY <3>1 DEF FundsRow
    <3>3. i \in DOMAIN ledger[u] /\ i \in DOMAIN ledger'[u]
      BY <2>2
    <3> QED
      BY <3>1, <3>2, <3>3
  <2>4. \A i \in 1..n : f[i] \in Int /\ g[i] = f[i]
    BY <2>3
  <2>5. g[n + 1] = amount
    BY <1>1, <2>2
  <2>6. Total(u) = SumFunctionOnSet(f, 1..n) /\ Total(u)' = SumFunctionOnSet(g, 1..(n + 1))
    BY <2>2 DEF Total
  <2> HIDE DEF n, f, g
  <2>7. SumFunctionOnSet(g, 1..(n + 1)) = SumFunctionOnSet(f, 1..n) + g[n + 1]
    BY <2>2, <2>4, <2>5, SumAppend
  <2> QED
    BY <1>3, <2>5, <2>6, <2>7
<1> QED
  BY <1>2, <1>3

-----------------------------------------------------------------------------
(* The bills of PaymentPromise, one by one, and what a step may do to one. *)

BillDue(b) == IF b \in Payments THEN payment[b].amount ELSE order[b].amount

BillCredited(b) ==
    IF b \in Payments THEN SumOf(ledger[Payer[b]], b) ELSE SumOf(coinLedger[Holder[b]], b)

BillSettled(b) == IF b \in Payments THEN payment[b].status = "PAID" ELSE order[b].status = "VERIFIED"

BillSums == Sums \cup Told \cup Quotes

SameDue(b) == BillDue(b)' = BillDue(b)
SameCredit(b) == BillCredited(b)' = BillCredited(b)
SameSettled(b) == BillSettled(b)' = BillSettled(b)

SameBill(b) == SameDue(b) /\ SameCredit(b) /\ SameSettled(b)

BillStep(b) ==
    \/ SameBill(b)
    \/ /\ BillDue(b) = 0 /\ BillDue(b)' \in BillSums
       /\ SameCredit(b) /\ SameSettled(b)
    \/ /\ BillDue(b) > 0 /\ BillCredited(b) = 0
       /\ BillCredited(b)' \in BillSums /\ BillCredited(b)' >= BillDue(b)
       /\ SameDue(b) /\ SameSettled(b)
    \/ /\ BillCredited(b) > 0 /\ BillSettled(b)' = TRUE
       /\ SameDue(b) /\ SameCredit(b)

-----------------------------------------------------------------------------
(* Payments.                                                               *)

LEMMA SumsPositive ==
    ASSUME NEW sum \in Sums
    PROVE  sum > 0 /\ sum \in Nat
BY PaymentsAssumption

PaymentsTypeOK ==
    /\ WalletTypeOK
    /\ payment \in [Payments -> Payment]
    /\ hooks \subseteq Hook

\* A payment nobody asked for has no row, no webhook and no credit; only one webhook at a
\* time waits for the provider, and not once the payment is PAID; and a webhook between
\* its two commits has credited.
PaymentOK(p) ==
    /\ \A i, j \in RowsFor(Payer[p], "DEPOSIT", p) : i = j
    /\ \A i \in RowsFor(Payer[p], "DEPOSIT", p) :
           ledger[Payer[p]][i].amount >= payment[p].amount
    /\ payment[p].status = "PAID" => Credited(p)
    /\ payment[p].status = "none" => payment[p].amount = 0 /\ ~Credited(p)
    /\ payment[p].status # "none" => payment[p].amount \in Sums
    /\ BillCredited(p) \in Nat /\ (Credited(p) <=> BillCredited(p) > 0)
    /\ \A h \in hooks : h.p = p =>
          /\ payment[p].status # "none"
          /\ h.at = "asking" => payment[p].status # "PAID"
          /\ h.at = "credited" => Credited(p)
    /\ \A h, g \in hooks : h.p = p /\ g.p = p /\ h.at = "asking" /\ g.at = "asking" => h = g

PaymentsInv == PaymentsTypeOK /\ \A p \in Payments : PaymentOK(p)

\* Nothing a payment's invariant speaks of has changed.
PaymentKept(p) ==
    /\ payment'[p] = payment[p]
    /\ RowsFor(Payer[p], "DEPOSIT", p)' = RowsFor(Payer[p], "DEPOSIT", p)
    /\ \A i \in RowsFor(Payer[p], "DEPOSIT", p) : ledger'[Payer[p]][i] = ledger[Payer[p]][i]
    /\ BillCredited(p)' = BillCredited(p)
    /\ \A h \in hooks' : h.p = p => h \in hooks

LEMMA KeptOK ==
    ASSUME NEW p \in Payments, PaymentOK(p), PaymentKept(p)
    PROVE  PaymentOK(p)' /\ SameBill(p)
<1>1. Credited(p)' = Credited(p)
  BY DEF Credited, PaymentKept
<1>2. SameBill(p)
  BY DEF PaymentKept, SameBill, SameDue, SameCredit, SameSettled, BillDue, BillSettled
<1>3. PaymentOK(p)'
  BY <1>1 DEF PaymentOK, PaymentKept
<1> QED
  BY <1>2, <1>3

LEMMA SameLedger ==
    ASSUME UNCHANGED walletVars
    PROVE  /\ WalletTypeOK => WalletTypeOK'
           /\ ledger' = ledger
           /\ \A p : Credited(p)' = Credited(p)
           /\ \A p \in Payments : BillCredited(p)' = BillCredited(p)
           /\ \A u, t, r : RowsFor(u, t, r)' = RowsFor(u, t, r)
BY DEF walletVars, WalletTypeOK, Credited, RowsFor, BillCredited

\* A new status, and a reference, for a payment somebody asked for; nothing is credited.
LEMMA StatusKeepsInv ==
    ASSUME PaymentsInv, UNCHANGED walletVars,
           NEW p \in Payments, payment[p].status # "none",
           NEW status \in PaymentStatuses \ {"none"}, NEW known \in BOOLEAN,
           PutStatus(p, status, known),
           hooks' \subseteq hooks,
           status = "PAID" => Credited(p) /\ \A h \in hooks' : h.p = p => h.at # "asking",
           payment[p].status = "PAID" => status = "PAID"
    PROVE  PaymentsInv' /\ BillStep(p) /\ \A q \in Payments \ {p} : SameBill(q)
<1>1. PaymentsTypeOK'
  BY SameLedger DEF PaymentsInv, PaymentsTypeOK, PutStatus, Payment
<1>2. /\ payment'[p].amount = payment[p].amount
      /\ payment'[p].status = status
      /\ \A q \in Payments \ {p} : payment'[q] = payment[q]
  BY DEF PaymentsInv, PaymentsTypeOK, PutStatus, Payment
<1>3. \A q \in Payments \ {p} : PaymentOK(q)' /\ SameBill(q)
  <2> TAKE q \in Payments \ {p}
  <2>1. PaymentKept(q)
    BY <1>2, SameLedger DEF PaymentKept
  <2> QED
    BY <2>1, KeptOK DEF PaymentsInv
<1>4. /\ Credited(p)' = Credited(p)
      /\ BillCredited(p)' = BillCredited(p)
      /\ RowsFor(Payer[p], "DEPOSIT", p)' = RowsFor(Payer[p], "DEPOSIT", p)
      /\ ledger' = ledger
  BY SameLedger
<1>5. PaymentOK(p)
  BY DEF PaymentsInv
<1>6. PaymentOK(p)'
  BY <1>2, <1>4, <1>5 DEF PaymentOK
<1>7. SameDue(p) /\ SameCredit(p)
  BY <1>2, <1>4 DEF SameDue, SameCredit, BillDue
<1>8. BillStep(p)
  <2>1. CASE status = "PAID"
    <3>1. BillCredited(p) > 0 /\ BillSettled(p)' = TRUE
      BY <1>2, <1>5, <2>1 DEF PaymentOK, BillSettled
    <3> QED
      BY <1>7, <3>1 DEF BillStep
  <2>2. CASE status # "PAID"
    <3>1. SameSettled(p)
      BY <1>2, <2>2 DEF SameSettled, BillSettled
    <3> QED
      BY <1>7, <3>1 DEF BillStep, SameBill
  <2> QED
    BY <2>1, <2>2
<1>9. \A q \in Payments : PaymentOK(q)'
  BY <1>3, <1>6
<1> QED
  BY <1>1, <1>3, <1>8, <1>9 DEF PaymentsInv

\* A credit adds one row, with its amount, to the payer's rows for the payment.
LEMMA CreditRow ==
    ASSUME WalletTypeOK,
           NEW u \in Users, NEW p \in Refs, NEW toman \in Int,
           Credit(u, wallet[u], toman, "DEPOSIT", p)
    PROVE  /\ WalletTypeOK'
           /\ \A v \in Users : v # u => ledger'[v] = ledger[v]
           /\ Len(ledger'[u]) = Len(ledger[u]) + 1
           /\ \A i \in 1..Len(ledger[u]) : ledger'[u][i] = ledger[u][i]
           /\ ledger'[u][Len(ledger[u]) + 1].amount = toman
           /\ ledger'[u][Len(ledger[u]) + 1].ref = p
           /\ \A v \in Users : \A r : RowsFor(v, "DEPOSIT", r)' =
                 IF v = u /\ r = p THEN RowsFor(v, "DEPOSIT", r) \cup {Len(ledger[u]) + 1}
                                  ELSE RowsFor(v, "DEPOSIT", r)
<1>1. wallet[u] \in Nat /\ "DEPOSIT" \in RowTypes
  BY DEF WalletTypeOK, RowTypes
<1>2. Post(u, wallet[u], toman, "DEPOSIT", p) /\ wallet[u] + toman >= 0
  BY <1>1 DEF Credit
<1>3. /\ WalletTypeOK'
      /\ \A v \in Users : v # u => wallet'[v] = wallet[v] /\ ledger'[v] = ledger[v]
      /\ Len(ledger'[u]) = Len(ledger[u]) + 1
      /\ \A i \in 1..Len(ledger[u]) : ledger'[u][i] = ledger[u][i]
      /\ ledger'[u][Len(ledger[u]) + 1] =
           [type |-> "DEPOSIT", ref |-> p, amount |-> toman,
            before |-> wallet[u], after |-> wallet[u] + toman]
  BY <1>1, <1>2, PostEffect
<1>4. \A v \in Users : \A r : RowsFor(v, "DEPOSIT", r)' =
        IF v = u /\ r = p THEN RowsFor(v, "DEPOSIT", r) \cup {Len(ledger[u]) + 1}
                         ELSE RowsFor(v, "DEPOSIT", r)
  <2> TAKE v \in Users
  <2> TAKE r
  <2> QED
    BY <1>1, <1>2, PostRows
<1> QED
  BY <1>3, <1>4

\* What a longer ledger of u adds to the sum of a bill.
LEMMA LedgerSum ==
    ASSUME WalletTypeOK, WalletTypeOK', NEW u \in Users, NEW bill,
           Len(ledger'[u]) = Len(ledger[u]) + 1,
           \A i \in 1..Len(ledger[u]) : ledger'[u][i] = ledger[u][i]
    PROVE  SumOf(ledger'[u], bill) = SumOf(ledger[u], bill) +
               (IF ledger'[u][Len(ledger[u]) + 1].ref = bill
                THEN ledger'[u][Len(ledger[u]) + 1].amount ELSE 0)
<1>1. ledger[u] \in Seq(FundsRow) /\ ledger'[u] \in Seq(FundsRow)
  BY DEF WalletTypeOK
<1>2. \A r \in FundsRow : r.amount \in Int
  BY DEF FundsRow
<1> QED
  BY <1>1, <1>2, SumOfLonger

\* The first commit of a webhook that credits: the only step that adds a row.
LEMMA CreditKeepsInv ==
    ASSUME PaymentsInv,
           NEW p \in Payments, payment[p].status # "none",
           NEW toman \in Told, toman >= payment[p].amount, ~Credited(p),
           NEW known \in BOOLEAN,
           Credit(Payer[p], wallet[Payer[p]], toman, "DEPOSIT", p),
           PutStatus(p, payment[p].status, known),
           NEW rest \in SUBSET hooks,
           hooks' = rest \cup {[p |-> p, at |-> "credited", known |-> known]}
    PROVE  PaymentsInv' /\ BillStep(p) /\ \A q \in Payments \ {p} : SameBill(q)
<1> DEFINE u == Payer[p]
           n == Len(ledger[u]) + 1
           hook == [p |-> p, at |-> "credited", known |-> known]
<1>0. /\ Payments \subseteq Refs /\ Payer \in [Payments -> Users] /\ Sums \subseteq Nat \ {0}
      /\ WalletTypeOK /\ PaymentOK(p) /\ toman \in Int
  BY PaymentsAssumption DEF PaymentsInv, PaymentsTypeOK, Told
<1>1. u \in Users /\ p \in Refs
  BY <1>0
<1>2. /\ WalletTypeOK'
      /\ \A v \in Users : v # u => ledger'[v] = ledger[v]
      /\ Len(ledger'[u]) = Len(ledger[u]) + 1
      /\ \A i \in 1..Len(ledger[u]) : ledger'[u][i] = ledger[u][i]
      /\ ledger'[u][n].amount = toman
      /\ ledger'[u][n].ref = p
      /\ \A v \in Users : \A r : RowsFor(v, "DEPOSIT", r)' =
            IF v = u /\ r = p THEN RowsFor(v, "DEPOSIT", r) \cup {n}
                             ELSE RowsFor(v, "DEPOSIT", r)
  BY <1>0, <1>1, CreditRow
<1>3. \A q \in Payments :
        SumOf(ledger'[Payer[q]], q) =
          SumOf(ledger[Payer[q]], q) + (IF q = p THEN toman ELSE 0)
  <2> TAKE q \in Payments
  <2>0. Payer[q] \in Users
    BY <1>0
  <2>1. SumOf(ledger'[u], q) = SumOf(ledger[u], q) +
          (IF ledger'[u][n].ref = q THEN ledger'[u][n].amount ELSE 0)
    BY <1>0, <1>1, <1>2, LedgerSum
  <2>2. BillCredited(q) \in Int
    BY DEF PaymentsInv, PaymentOK
  <2>3. CASE Payer[q] = u
    BY <1>2, <2>1, <2>3
  <2>4. CASE Payer[q] # u
    BY <1>2, <2>0, <2>2, <2>4 DEF BillCredited
  <2> QED
    BY <2>3, <2>4
<1>4. BillCredited(p) = 0 /\ BillCredited(p)' = toman
  BY <1>0, <1>3 DEF PaymentOK, BillCredited
<1>5. RowsFor(u, "DEPOSIT", p) = {} /\ RowsFor(u, "DEPOSIT", p)' = {n} /\ Credited(p)'
  BY <1>1, <1>2 DEF Credited
<1>6. /\ payment'[p].status = payment[p].status
      /\ payment'[p].amount = payment[p].amount
      /\ payment' \in [Payments -> Payment]
      /\ \A q \in Payments \ {p} : payment'[q] = payment[q]
  BY DEF PaymentsInv, PaymentsTypeOK, PutStatus, Payment
<1>7. PaymentsTypeOK'
  <2>1. hook \in Hook /\ hooks \subseteq Hook
    BY DEF Hook, PaymentsInv, PaymentsTypeOK
  <2> QED
    BY <1>2, <1>6, <2>1 DEF PaymentsTypeOK
<1>8. \A q \in Payments \ {p} : PaymentOK(q)' /\ SameBill(q)
  <2> TAKE q \in Payments \ {p}
  <2>0. Payer[q] \in Users /\ PaymentOK(q) /\ BillCredited(q) \in Int
    BY <1>0 DEF PaymentsInv, PaymentOK
  <2>1. RowsFor(Payer[q], "DEPOSIT", q)' = RowsFor(Payer[q], "DEPOSIT", q)
    BY <1>2, <2>0
  <2>2. \A i \in RowsFor(Payer[q], "DEPOSIT", q) : ledger'[Payer[q]][i] = ledger[Payer[q]][i]
    <3>1. CASE Payer[q] # u
      BY <1>2, <2>0, <3>1
    <3>2. CASE Payer[q] = u
      <4>1. ledger[u] \in Seq(FundsRow)
        BY <1>0, <1>1 DEF WalletTypeOK
      <4>2. RowsFor(Payer[q], "DEPOSIT", q) \subseteq 1..Len(ledger[u])
        BY <3>2, <4>1 DEF RowsFor
      <4> QED
        BY <3>2, <4>2, <1>2
    <3> QED
      BY <3>1, <3>2
  <2>3. BillCredited(q)' = BillCredited(q)
    BY <1>3, <2>0 DEF BillCredited
  <2>4. \A h \in hooks' : h.p = q => h \in hooks
    OBVIOUS
  <2>5. PaymentKept(q)
    BY <1>6, <2>1, <2>2, <2>3, <2>4 DEF PaymentKept
  <2> QED
    BY <2>0, <2>5, KeptOK
<1>9. PaymentOK(p)'
  <2>1. ledger'[u][n].amount >= payment'[p].amount
    BY <1>2, <1>6
  <2>2. \A h \in hooks' : h \in hooks \/ h.at = "credited"
    OBVIOUS
  <2>3. toman > 0 /\ toman \in Nat
    BY <1>0 DEF Credit
  <2>4. \A h \in hooks' : h.p = p =>
          /\ payment'[p].status # "none"
          /\ h.at = "asking" => payment'[p].status # "PAID"
          /\ h.at = "credited" => Credited(p)'
    BY <1>0, <1>5, <1>6, <2>2 DEF PaymentOK
  <2>5. \A h, g \in hooks' :
          h.p = p /\ g.p = p /\ h.at = "asking" /\ g.at = "asking" => h = g
    BY <1>0, <2>2 DEF PaymentOK
  <2>6. payment'[p].status # "none" /\ payment'[p].amount \in Sums
    BY <1>0, <1>6 DEF PaymentOK
  <2> HIDE DEF n, u
  <2>7. /\ \A i, j \in RowsFor(Payer[p], "DEPOSIT", p)' : i = j
        /\ \A i \in RowsFor(Payer[p], "DEPOSIT", p)' : ledger'[Payer[p]][i].amount >= payment'[p].amount
    BY <1>5, <2>1 DEF u
  <2> QED
    BY <1>4, <1>5, <2>3, <2>4, <2>5, <2>6, <2>7 DEF PaymentOK
<1>10. BillStep(p)
  <2>0. payment[p].amount \in Sums
    BY <1>0 DEF PaymentOK
  <2>1. BillDue(p) = payment[p].amount /\ SameDue(p)
    BY <1>6 DEF BillDue, SameDue
  <2>2. SameSettled(p)
    BY <1>6 DEF SameSettled, BillSettled
  <2>3. toman \in BillSums
    BY DEF BillSums
  <2>4. BillDue(p) > 0
    BY <2>0, <2>1, SumsPositive
  <2> QED
    BY <1>4, <2>1, <2>2, <2>3, <2>4 DEF BillStep
<1>11. \A q \in Payments : PaymentOK(q)'
  BY <1>8, <1>9
<1> QED
  BY <1>7, <1>8, <1>10, <1>11 DEF PaymentsInv

LEMMA CreateKeepsInv ==
    ASSUME PaymentsInv,
           NEW p \in Payments, NEW sum \in Sums, NEW quoted \in BOOLEAN,
           CreateTronadoDeposit(p, sum, quoted)
    PROVE  PaymentsInv' /\ BillStep(p) /\ \A q \in Payments \ {p} : SameBill(q)
<1>0. Sums \subseteq Nat \ {0}
  BY PaymentsAssumption
<1>1. UNCHANGED walletVars /\ hooks' = hooks /\ payment[p].status = "none" /\ PaymentOK(p)
  BY DEF CreateTronadoDeposit, PaymentsInv
<1>2. PaymentsTypeOK'
  BY <1>0, <1>1, SameLedger
     DEF PaymentsInv, PaymentsTypeOK, CreateTronadoDeposit, Payment, PaymentStatuses
<1>3. /\ payment'[p].status \in {"PENDING", "FAILED"}
      /\ payment'[p].amount = sum
      /\ \A q \in Payments \ {p} : payment'[q] = payment[q]
  BY DEF CreateTronadoDeposit, PaymentsInv, PaymentsTypeOK
<1>4. \A q \in Payments \ {p} : PaymentOK(q)' /\ SameBill(q)
  <2> TAKE q \in Payments \ {p}
  <2>1. PaymentKept(q)
    BY <1>1, <1>3, SameLedger DEF PaymentKept
  <2> QED
    BY <2>1, KeptOK DEF PaymentsInv
<1>5. /\ ~Credited(p) /\ ~Credited(p)'
      /\ BillCredited(p) = 0 /\ BillCredited(p)' = 0
      /\ RowsFor(Payer[p], "DEPOSIT", p)' = {}
      /\ \A h \in hooks : h.p # p
  BY <1>1, SameLedger DEF PaymentOK, Credited
<1>6. PaymentOK(p)'
  BY <1>1, <1>3, <1>5 DEF PaymentOK
<1>7. BillStep(p)
  <2>1. BillDue(p) = 0 /\ BillDue(p)' \in BillSums
    BY <1>1, <1>3 DEF BillDue, PaymentOK, BillSums
  <2>2. SameCredit(p) /\ SameSettled(p)
    BY <1>1, <1>3, <1>5 DEF SameCredit, SameSettled, BillSettled
  <2> QED
    BY <2>1, <2>2 DEF BillStep
<1>8. \A q \in Payments : PaymentOK(q)'
  BY <1>4, <1>6
<1> QED
  BY <1>2, <1>4, <1>7, <1>8 DEF PaymentsInv

\* The end of a webhook that knows the sum, from an event or from the provider's answer.
LEMMA SettleKeepsInv ==
    ASSUME PaymentsInv,
           NEW p \in Payments, payment[p].status # "none", payment[p].status # "PAID",
           NEW toman \in Told, NEW known \in BOOLEAN, NEW rest \in SUBSET hooks,
           \A h \in rest : h.p = p => h.at # "asking",
           Settle(p, toman, known, rest)
    PROVE  PaymentsInv' /\ BillStep(p) /\ \A q \in Payments \ {p} : SameBill(q)
<1>1. {"UNDERPAID", "PAID"} \subseteq PaymentStatuses \ {"none"}
  BY DEF PaymentStatuses
<1>2. CASE PutStatus(p, "UNDERPAID", known) /\ hooks' = rest /\ UNCHANGED walletVars
  BY <1>1, <1>2, StatusKeepsInv
<1>3. CASE /\ Credited(p) /\ PutStatus(p, "PAID", known) /\ hooks' = rest
           /\ UNCHANGED walletVars
  BY <1>1, <1>3, StatusKeepsInv
<1>4. CASE /\ toman >= payment[p].amount
           /\ ~Credited(p)
           /\ Credit(Payer[p], wallet[Payer[p]], toman, "DEPOSIT", p)
           /\ PutStatus(p, payment[p].status, known)
           /\ hooks' = rest \cup {[p |-> p, at |-> "credited", known |-> known]}
  BY <1>4, CreditKeepsInv
<1> QED
  BY <1>2, <1>3, <1>4 DEF Settle
PaymentsMove == \E p \in Payments : BillStep(p) /\ \A q \in Payments \ {p} : SameBill(q)

\* A webhook that begins or stops to wait for the provider, or stops after its credit.
LEMMA HooksKeepInv ==
    ASSUME PaymentsInv, UNCHANGED walletVars, payment' = payment, hooks' \subseteq Hook,
           \A p \in Payments :
              /\ \A h \in hooks' : h.p = p /\ h \notin hooks =>
                    /\ h.at = "asking"
                    /\ payment[p].status \notin {"none", "PAID"}
              /\ \A h, g \in hooks' :
                    h.p = p /\ g.p = p /\ h.at = "asking" /\ g.at = "asking" => h = g
    PROVE  PaymentsInv' /\ \A q \in Payments : SameBill(q)
<1>1. PaymentsTypeOK'
  BY SameLedger DEF PaymentsInv, PaymentsTypeOK
<1>2. ASSUME NEW p \in Payments PROVE PaymentOK(p)' /\ SameBill(p)
  <2>1. /\ PaymentOK(p)
        /\ Credited(p)' = Credited(p)
        /\ BillCredited(p)' = BillCredited(p)
        /\ RowsFor(Payer[p], "DEPOSIT", p)' = RowsFor(Payer[p], "DEPOSIT", p)
        /\ ledger' = ledger
    BY SameLedger DEF PaymentsInv
  <2>2. SameBill(p)
    BY <2>1 DEF SameBill, SameDue, SameCredit, SameSettled, BillDue, BillSettled
  <2>3. \A h \in hooks' : h.p = p =>
          /\ payment'[p].status # "none"
          /\ h.at = "asking" => payment'[p].status # "PAID"
          /\ h.at = "credited" => Credited(p)'
    BY <2>1 DEF PaymentOK
  <2>4. PaymentOK(p)'
    BY <2>1, <2>3 DEF PaymentOK
  <2> QED
    BY <2>2, <2>4
<1> QED
  BY <1>1, <1>2 DEF PaymentsInv

LEMMA WebhookKeepsInv ==
    ASSUME PaymentsInv,
           NEW p \in Payments, NEW report \in Reports, HandleTronadoWebhook(p, report)
    PROVE  PaymentsInv' /\ PaymentsMove
<1> DEFINE known == payment[p].known \/ report.names
<1>1. /\ payment[p].status \in PaymentStatuses \ {"none"}
      /\ payment[p].status # "PAID"
      /\ known \in BOOLEAN
      /\ report.toman \in {Unsaid} \cup Told
      /\ \A h \in hooks : h.p = p => h.at # "asking"
  BY DEF HandleTronadoWebhook, PaymentsInv, PaymentsTypeOK, Payment, Reports, Lockable
<1>2. CASE /\ report.verdict # "paid"
           /\ PutStatus(p, IF report.verdict = "refused" THEN "REJECTED" ELSE "PENDING", known)
           /\ UNCHANGED <<walletVars, hooks>>
  <2> DEFINE status == IF report.verdict = "refused" THEN "REJECTED" ELSE "PENDING"
  <2>1. status \in PaymentStatuses \ {"none"} /\ status # "PAID"
    BY DEF PaymentStatuses
  <2> HIDE DEF status, known
  <2>2. PutStatus(p, status, known) /\ hooks' = hooks /\ UNCHANGED walletVars
    BY <1>2 DEF status
  <2> QED
    BY <2>1, <2>2, <1>1, StatusKeepsInv DEF PaymentsMove
<1>3. CASE report.toman # Unsaid /\ Settle(p, report.toman, known, hooks)
  <2> HIDE DEF known
  <2>1. report.toman \in Told
    BY <1>1, <1>3
  <2> QED
    BY <1>1, <1>3, <2>1, SettleKeepsInv DEF PaymentsMove
<1>4. CASE /\ hooks' = hooks \cup {[p |-> p, at |-> "asking", known |-> known]}
           /\ UNCHANGED <<walletVars, payment>>
  <2> DEFINE hook == [p |-> p, at |-> "asking", known |-> known]
  <2> HIDE DEF known
  <2>1. hook \in Hook /\ hook.p = p /\ hook.at = "asking"
    BY <1>1 DEF Hook
  <2>2. hooks' = hooks \cup {hook} /\ UNCHANGED walletVars /\ payment' = payment
    BY <1>4
  <2> HIDE DEF hook
  <2>3. hooks' \subseteq Hook
    BY <2>1, <2>2 DEF PaymentsInv, PaymentsTypeOK
  <2>4. ASSUME NEW q \in Payments
        PROVE  /\ \A h \in hooks' : h.p = q /\ h \notin hooks =>
                     /\ h.at = "asking"
                     /\ payment[q].status \notin {"none", "PAID"}
               /\ \A h, g \in hooks' :
                     h.p = q /\ g.p = q /\ h.at = "asking" /\ g.at = "asking" => h = g
    <3>1. \A h, g \in hooks : h.p = q /\ g.p = q /\ h.at = "asking" /\ g.at = "asking" => h = g
      BY DEF PaymentsInv, PaymentOK
    <3> QED
      BY <1>1, <2>1, <2>2, <3>1
  <2>5. PaymentsInv' /\ \A q \in Payments : SameBill(q)
    BY <2>2, <2>3, <2>4, HooksKeepInv
  <2> QED
    BY <2>5 DEF PaymentsMove, BillStep
<1> QED
  BY <1>2, <1>3, <1>4 DEF HandleTronadoWebhook

\* A webhook that answers, finishes or stops.
LEMMA HookKeepsInv ==
    ASSUME PaymentsInv, NEW h \in hooks,
           \/ \E toman \in Told : StatusArrives(h, toman)
           \/ MarkPaid(h)
           \/ HookStops(h)
    PROVE  PaymentsInv' /\ PaymentsMove
<1>1. /\ h \in Hook /\ h.p \in Payments /\ h.known \in BOOLEAN
      /\ PaymentOK(h.p)
      /\ payment[h.p].known \in BOOLEAN /\ payment[h.p].status \in PaymentStatuses
  BY DEF PaymentsInv, PaymentsTypeOK, Hook, Payment
<1>2. /\ payment[h.p].status # "none"
      /\ h.at = "asking" => payment[h.p].status # "PAID"
      /\ h.at = "credited" => Credited(h.p)
      /\ \A g \in hooks : g.p = h.p /\ g.at = "asking" /\ h.at = "asking" => g = h
  BY <1>1 DEF PaymentOK
<1>3. ASSUME NEW toman \in Told, StatusArrives(h, toman)
      PROVE  PaymentsInv' /\ PaymentsMove
  <2>1. h.at = "asking" /\ Settle(h.p, toman, h.known, hooks \ {h})
    BY <1>3 DEF StatusArrives
  <2>2. hooks \ {h} \in SUBSET hooks /\ \A g \in hooks \ {h} : g.p = h.p => g.at # "asking"
    BY <1>2, <2>1
  <2> QED
    BY <1>1, <1>2, <2>1, <2>2, SettleKeepsInv DEF PaymentsMove
<1>4. CASE MarkPaid(h)
  <2>1. /\ PutStatus(h.p, "PAID", payment[h.p].known)
        /\ hooks' = hooks \ {h}
        /\ UNCHANGED walletVars
        /\ Credited(h.p)
        /\ \A g \in hooks' : g.p = h.p => g.at # "asking"
    BY <1>2, <1>4 DEF MarkPaid, Lockable
  <2>2. "PAID" \in PaymentStatuses \ {"none"} /\ hooks' \subseteq hooks
    BY <2>1 DEF PaymentStatuses
  <2> QED
    BY <1>1, <1>2, <2>1, <2>2, StatusKeepsInv DEF PaymentsMove
<1>5. CASE HookStops(h)
  <2>1. UNCHANGED walletVars /\ payment' = payment /\ hooks' \subseteq hooks
    BY <1>5 DEF HookStops
  <2>2. hooks' \subseteq Hook
    BY <2>1 DEF PaymentsInv, PaymentsTypeOK
  <2>3. ASSUME NEW q \in Payments
        PROVE  /\ \A g \in hooks' : g.p = q /\ g \notin hooks =>
                     /\ g.at = "asking"
                     /\ payment[q].status \notin {"none", "PAID"}
               /\ \A k, g \in hooks' :
                     k.p = q /\ g.p = q /\ k.at = "asking" /\ g.at = "asking" => k = g
    BY <2>1 DEF PaymentsInv, PaymentOK
  <2>4. PaymentsInv' /\ \A q \in Payments : SameBill(q)
    BY <2>1, <2>2, <2>3, HooksKeepInv
  <2> QED
    BY <1>1, <2>4 DEF PaymentsMove, BillStep
<1> QED
  BY <1>3, <1>4, <1>5

LEMMA PaymentsStepOK ==
    ASSUME PaymentsInv, PaymentsStart \/ PaymentsStep
    PROVE  PaymentsInv' /\ PaymentsMove
<1>1. CASE PaymentsStart
  <2>1. PICK p \in Payments :
          \/ \E sum \in Sums, quoted \in BOOLEAN : CreateTronadoDeposit(p, sum, quoted)
          \/ \E report \in Reports : HandleTronadoWebhook(p, report)
    BY <1>1 DEF PaymentsStart
  <2> QED
    BY <2>1, CreateKeepsInv, WebhookKeepsInv DEF PaymentsMove
<1>2. CASE PaymentsStep
  BY <1>2, HookKeepsInv DEF PaymentsStep
<1> QED
  BY <1>1, <1>2

-----------------------------------------------------------------------------
(* Coin orders.                                                            *)

CryptoTypeOK ==
    /\ order \in [CoinOrders -> OrderState]
    /\ callbacks \subseteq Callback
    /\ coins \in [Users -> Nat]
    /\ coinLedger \in [Users -> Seq(CoinRow)]

OrderOK(o) ==
    /\ order[o].status = "none" => order[o].amount = 0 /\ CoinRows(o) = {}
    /\ order[o].status # "none" => order[o].amount \in Quotes
    /\ order[o].status = "VERIFIED" => CoinRows(o) # {}
    /\ BillCredited(o) \in Nat /\ (CoinRows(o) # {} <=> BillCredited(o) > 0)
    /\ \A c \in callbacks : c.o = o =>
          /\ order[o].status # "none"
          /\ c.at = "verifying" => order[o].status # "VERIFIED"
          /\ c.at = "credited" => CoinRows(o) # {}
    /\ \A c, d \in callbacks : c.o = o /\ d.o = o /\ c.at = "verifying" /\ d.at = "verifying" => c = d

CryptoInv == CryptoTypeOK /\ \A o \in CoinOrders : OrderOK(o)

CryptoMove == \E o \in CoinOrders : BillStep(o) /\ \A q \in CoinOrders \ {o} : SameBill(q)

LEMMA QuotesPositive ==
    ASSUME NEW quote \in Quotes
    PROVE  quote > 0 /\ quote \in Nat
BY CryptoAssumption

\* The bill of a coin order is the order's.
LEMMA CoinBill ==
    ASSUME NEW o \in CoinOrders
    PROVE  /\ Holder[o] \in Users /\ o \notin Payments
           /\ BillDue(o) = order[o].amount /\ BillDue(o)' = order'[o].amount
           /\ BillCredited(o) = SumOf(coinLedger[Holder[o]], o)
           /\ BillCredited(o)' = SumOf(coinLedger'[Holder[o]], o)
           /\ BillSettled(o) = (order[o].status = "VERIFIED")
           /\ BillSettled(o)' = (order'[o].status = "VERIFIED")
<1>1. o \notin Payments /\ Holder[o] \in Users
  BY FundsAssumption, CryptoAssumption
<1> QED
  BY <1>1 DEF BillDue, BillCredited, BillSettled

\* A step that adds no coins, for an order it leaves alone.
LEMMA OrderKept ==
    ASSUME NEW o \in CoinOrders, OrderOK(o), order'[o] = order[o], coinLedger' = coinLedger,
           \A c \in callbacks' : c.o = o /\ c \notin callbacks =>
              c.at = "verifying" /\ order[o].status \notin {"none", "VERIFIED"},
           \A c, d \in callbacks' :
              c.o = o /\ d.o = o /\ c.at = "verifying" /\ d.at = "verifying" => c = d
    PROVE  OrderOK(o)' /\ SameBill(o)
<1>1. CoinRows(o)' = CoinRows(o)
  BY DEF CoinRows
<1>2. BillDue(o)' = BillDue(o) /\ BillCredited(o)' = BillCredited(o)
      /\ BillSettled(o)' = BillSettled(o)
  BY CoinBill
<1>3. \A c \in callbacks' : c.o = o =>
          /\ order'[o].status # "none"
          /\ c.at = "verifying" => order'[o].status # "VERIFIED"
          /\ c.at = "credited" => CoinRows(o)' # {}
  BY <1>1 DEF OrderOK
<1> QED
  BY <1>1, <1>2, <1>3 DEF OrderOK, SameBill, SameDue, SameCredit, SameSettled

\* A new status for an order somebody asked for; no coins are added.
LEMMA OrderStatus ==
    ASSUME CryptoInv, UNCHANGED <<coins, coinLedger>>,
           NEW o \in CoinOrders, order[o].status # "none",
           NEW status \in {"FAILED", "VERIFIED"}, PutOrder(o, status),
           callbacks' \subseteq callbacks,
           status = "VERIFIED" => CoinRows(o) # {} /\ \A c \in callbacks' : c.o = o => c.at # "verifying",
           order[o].status = "VERIFIED" => status = "VERIFIED"
    PROVE  CryptoInv' /\ CryptoMove
<1>1. /\ order' \in [CoinOrders -> OrderState]
      /\ order'[o].status = status /\ order'[o].amount = order[o].amount
      /\ \A q \in CoinOrders \ {o} : order'[q] = order[q]
  BY DEF CryptoInv, CryptoTypeOK, PutOrder, OrderState
<1>2. CryptoTypeOK'
  BY <1>1 DEF CryptoInv, CryptoTypeOK
<1>3. \A q \in CoinOrders \ {o} : OrderOK(q)' /\ SameBill(q)
  <2> TAKE q \in CoinOrders \ {o}
  <2>1. OrderOK(q)
    BY DEF CryptoInv
  <2>2. \A c, d \in callbacks' :
          c.o = q /\ d.o = q /\ c.at = "verifying" /\ d.at = "verifying" => c = d
    BY <2>1 DEF OrderOK
  <2> QED
    BY <1>1, <2>1, <2>2, OrderKept
<1>4. /\ OrderOK(o)
      /\ CoinRows(o)' = CoinRows(o)
      /\ BillCredited(o)' = BillCredited(o) /\ BillDue(o)' = BillDue(o)
      /\ BillSettled(o) = (order[o].status = "VERIFIED")
      /\ BillSettled(o)' = (status = "VERIFIED")
  BY <1>1, CoinBill DEF CoinRows, CryptoInv
<1>5. OrderOK(o)'
  BY <1>1, <1>4 DEF OrderOK
<1>6. BillStep(o)
  <2>1. CASE status = "VERIFIED"
    <3>1. BillCredited(o) > 0
      BY <1>4, <2>1 DEF OrderOK
    <3> QED
      BY <1>4, <2>1, <3>1 DEF BillStep, SameDue, SameCredit
  <2>2. CASE status = "FAILED"
    <3>1. BillSettled(o)' = BillSettled(o)
      BY <1>4, <2>2
    <3> QED
      BY <1>4, <3>1 DEF BillStep, SameBill, SameDue, SameCredit, SameSettled
  <2> QED
    BY <2>1, <2>2
<1>7. \A q \in CoinOrders : OrderOK(q)'
  BY <1>3, <1>5
<1> QED
  BY <1>2, <1>3, <1>6, <1>7 DEF CryptoInv, CryptoMove

LEMMA RequestOK ==
    ASSUME CryptoInv, NEW o \in CoinOrders, NEW quote \in Quotes, CreateDepositRequest(o, quote)
    PROVE  CryptoInv' /\ CryptoMove
<1>1. /\ order' \in [CoinOrders -> OrderState]
      /\ order'[o].status = "PENDING_PAYMENT" /\ order'[o].amount = quote
      /\ \A q \in CoinOrders \ {o} : order'[q] = order[q]
      /\ order[o].status = "none"
      /\ UNCHANGED <<callbacks, coins, coinLedger>>
  BY QuotesPositive DEF CryptoInv, CryptoTypeOK, CreateDepositRequest, OrderState
<1>2. CryptoTypeOK'
  BY <1>1 DEF CryptoInv, CryptoTypeOK
<1>3. \A q \in CoinOrders \ {o} : OrderOK(q)' /\ SameBill(q)
  <2> TAKE q \in CoinOrders \ {o}
  <2>1. OrderOK(q)
    BY DEF CryptoInv
  <2>2. \A c, d \in callbacks' :
          c.o = q /\ d.o = q /\ c.at = "verifying" /\ d.at = "verifying" => c = d
    BY <1>1, <2>1 DEF OrderOK
  <2> QED
    BY <1>1, <2>1, <2>2, OrderKept
<1>4. /\ OrderOK(o)
      /\ CoinRows(o)' = CoinRows(o) /\ CoinRows(o) = {}
      /\ BillCredited(o)' = BillCredited(o) /\ BillCredited(o) = 0
      /\ BillDue(o) = 0 /\ BillDue(o)' = quote
      /\ BillSettled(o)' = BillSettled(o)
      /\ \A c \in callbacks : c.o # o
  <2>1. OrderOK(o) /\ CoinRows(o)' = CoinRows(o)
    BY <1>1 DEF CoinRows, CryptoInv
  <2>2. order[o].amount = 0 /\ CoinRows(o) = {} /\ (\A c \in callbacks : c.o # o) /\ BillCredited(o) = 0
    BY <1>1, <2>1 DEF OrderOK
  <2> QED
    BY <1>1, <2>1, <2>2, CoinBill
<1>5. OrderOK(o)'
  BY <1>1, <1>4 DEF OrderOK
<1>6. BillStep(o)
  BY <1>4 DEF BillStep, SameCredit, SameSettled, BillSums
<1>7. \A q \in CoinOrders : OrderOK(q)'
  BY <1>3, <1>5
<1> QED
  BY <1>2, <1>3, <1>6, <1>7 DEF CryptoInv, CryptoMove

LEMMA CoinCreditOK ==
    ASSUME CryptoInv, NEW c \in callbacks, CoinRows(c.o) = {},
           CreditCoins(c.o, order[c.o].amount),
           callbacks' = (callbacks \ {c}) \cup {[o |-> c.o, at |-> "credited"]},
           UNCHANGED order
    PROVE  CryptoInv' /\ CryptoMove
<1> DEFINE o == c.o
           u == Holder[o]
           amount == order[o].amount
           n == Len(coinLedger[u]) + 1
           entry == [ref |-> o, amount |-> amount, before |-> coins[u], after |-> coins[u] + amount]
           new == [o |-> o, at |-> "credited"]
<1>1. /\ o \in CoinOrders /\ u \in Users /\ OrderOK(o)
      /\ order[o].status # "none" /\ amount \in Quotes /\ amount \in Nat /\ amount > 0
  <2>1. o \in CoinOrders /\ OrderOK(o)
    BY DEF CryptoInv, CryptoTypeOK, Callback
  <2>2. order[o].status # "none" /\ amount \in Quotes
    BY <2>1 DEF OrderOK
  <2> QED
    BY <2>1, <2>2, QuotesPositive, CoinBill
<1>2. coins \in [Users -> Nat] /\ coinLedger \in [Users -> Seq(CoinRow)]
  BY DEF CryptoInv, CryptoTypeOK
<1>3. entry \in CoinRow
  BY <1>1, <1>2 DEF CoinRow
<1>4. /\ coins' = [coins EXCEPT ![u] = @ + amount]
      /\ coinLedger' = [coinLedger EXCEPT ![u] = Append(@, entry)]
  BY DEF CreditCoins
<1>5. coins' \in [Users -> Nat]
  BY <1>1, <1>2, <1>4
<1> HIDE DEF entry, u
<1>6. /\ coinLedger' \in [Users -> Seq(CoinRow)]
      /\ \A v \in Users : v # u => coinLedger'[v] = coinLedger[v]
      /\ Len(coinLedger'[u]) = Len(coinLedger[u]) + 1
      /\ \A i \in 1..Len(coinLedger[u]) : coinLedger'[u][i] = coinLedger[u][i]
      /\ coinLedger'[u][n] = entry
  BY <1>1, <1>2, <1>3, <1>4, AppendRow
<1>7. entry.ref = o /\ entry.amount = amount
  BY DEF entry
<1>8. \A v \in Users : \A q :
        SumOf(coinLedger'[v], q) =
          IF v = u THEN SumOf(coinLedger[v], q) + (IF q = o THEN amount ELSE 0)
                   ELSE SumOf(coinLedger[v], q)
  <2> TAKE v \in Users
  <2> TAKE q
  <2>1. CASE v = u
    <3>1. coinLedger[u] \in Seq(CoinRow) /\ coinLedger'[u] \in Seq(CoinRow)
      BY <1>1, <1>2, <1>6
    <3>2. \A r \in CoinRow : r.amount \in Int
      BY DEF CoinRow
    <3>3. SumOf(coinLedger'[u], q) = SumOf(coinLedger[u], q) +
            (IF coinLedger'[u][n].ref = q THEN coinLedger'[u][n].amount ELSE 0)
      <4> DEFINE rows == coinLedger[u]
                 more == coinLedger'[u]
      <4>1. /\ rows \in Seq(CoinRow) /\ more \in Seq(CoinRow)
            /\ Len(more) = Len(rows) + 1 /\ \A i \in 1..Len(rows) : more[i] = rows[i]
        BY <1>6, <3>1
      <4> HIDE DEF rows, more
      <4>2. SumOf(more, q) = SumOf(rows, q) +
              (IF more[Len(rows) + 1].ref = q THEN more[Len(rows) + 1].amount ELSE 0)
        BY <3>2, <4>1, SumOfLonger
      <4> QED
        BY <4>2 DEF rows, more
    <3> QED
      BY <1>6, <1>7, <2>1, <3>3
  <2>2. CASE v # u
    BY <1>6, <2>2
  <2> QED
    BY <2>1, <2>2
<1>9. \A q \in CoinOrders : CoinRows(q)' = IF q = o THEN CoinRows(q) \cup {n} ELSE CoinRows(q)
  <2> TAKE q \in CoinOrders
  <2>0. Holder[q] \in Users
    BY CoinBill
  <2>1. CASE Holder[q] = u
    <3>1. coinLedger[u] \in Seq(CoinRow) /\ coinLedger'[u] \in Seq(CoinRow)
      BY <1>1, <1>2, <1>6
    <3>2. /\ DOMAIN coinLedger[u] = 1..Len(coinLedger[u])
          /\ DOMAIN coinLedger'[u] = DOMAIN coinLedger[u] \cup {n}
          /\ n \notin DOMAIN coinLedger[u]
      BY <1>6, <3>1
    <3>3. coinLedger'[u][n].ref = o /\ \A i \in DOMAIN coinLedger[u] : coinLedger'[u][i] = coinLedger[u][i]
      BY <1>6, <1>7, <3>2
    <3> HIDE DEF n
    <3> QED
      BY <2>1, <3>2, <3>3 DEF CoinRows
  <2>2. CASE Holder[q] # u
    BY <1>6, <2>0, <2>2 DEF CoinRows, u
  <2> QED
    BY <2>1, <2>2
<1>10. new \in Callback /\ new.o = o /\ new.at = "credited"
       /\ callbacks' = (callbacks \ {c}) \cup {new}
  BY <1>1 DEF Callback
<1> HIDE DEF new
<1>11. CryptoTypeOK'
  BY <1>5, <1>6, <1>10 DEF CryptoInv, CryptoTypeOK
<1>12. \A q \in CoinOrders \ {o} : OrderOK(q)' /\ SameBill(q)
  <2> TAKE q \in CoinOrders \ {o}
  <2>1. OrderOK(q) /\ CoinRows(q)' = CoinRows(q) /\ BillCredited(q) \in Nat /\ Holder[q] \in Users
    BY <1>9, CoinBill DEF CryptoInv, OrderOK
  <2>2. /\ BillCredited(q) = SumOf(coinLedger[Holder[q]], q)
        /\ BillCredited(q)' = SumOf(coinLedger'[Holder[q]], q)
        /\ BillDue(q)' = BillDue(q) /\ BillSettled(q)' = BillSettled(q)
    BY CoinBill
  <2>3. BillCredited(q)' = BillCredited(q)
    BY <1>8, <2>1, <2>2
  <2>4. \A d \in callbacks' : d.o = q => d \in callbacks
    BY <1>10
  <2>5. OrderOK(q)'
    BY <2>1, <2>3, <2>4 DEF OrderOK
  <2> QED
    BY <2>2, <2>3, <2>5 DEF SameBill, SameDue, SameCredit, SameSettled
<1>13. /\ BillCredited(o) = 0 /\ BillCredited(o)' = amount
       /\ BillDue(o) = amount /\ SameDue(o) /\ SameSettled(o)
       /\ CoinRows(o)' # {}
  <2>1. BillCredited(o) = 0
    BY <1>1 DEF OrderOK
  <2>2. SumOf(coinLedger'[u], o) = SumOf(coinLedger[u], o) + amount
    BY <1>1, <1>8
  <2>3. BillCredited(o)' = amount
    BY <1>1, <2>1, <2>2, CoinBill DEF u
  <2> QED
    BY <1>1, <1>9, <2>1, <2>3, CoinBill DEF SameDue, SameSettled
<1>14. OrderOK(o)'
  <2>1. \A d \in callbacks' : d.o = o =>
          /\ order'[o].status # "none"
          /\ d.at = "verifying" => order'[o].status # "VERIFIED"
          /\ d.at = "credited" => CoinRows(o)' # {}
    BY <1>1, <1>10, <1>13 DEF OrderOK
  <2>2. \A d, e \in callbacks' :
          d.o = o /\ e.o = o /\ d.at = "verifying" /\ e.at = "verifying" => d = e
    BY <1>1, <1>10 DEF OrderOK
  <2> QED
    BY <1>1, <1>13, <2>1, <2>2 DEF OrderOK
<1>15. BillStep(o)
  BY <1>1, <1>13 DEF BillStep, BillSums
<1>16. \A q \in CoinOrders : OrderOK(q)'
  BY <1>12, <1>14
<1> QED
  BY <1>1, <1>11, <1>12, <1>15, <1>16 DEF CryptoInv, CryptoMove

LEMMA CryptoStepOK ==
    ASSUME CryptoInv, CryptoStart \/ CryptoStep
    PROVE  CryptoInv' /\ CryptoMove
<1>1. ASSUME UNCHANGED <<order, coins, coinLedger>>, callbacks' \subseteq Callback,
             NEW o \in CoinOrders, \A q \in CoinOrders :
                /\ \A c \in callbacks' : c.o = q /\ c \notin callbacks =>
                      c.at = "verifying" /\ order[q].status \notin {"none", "VERIFIED"}
                /\ \A c, d \in callbacks' :
                      c.o = q /\ d.o = q /\ c.at = "verifying" /\ d.at = "verifying" => c = d
      PROVE  CryptoInv' /\ CryptoMove
  <2>1. \A q \in CoinOrders : OrderOK(q)' /\ SameBill(q)
    BY <1>1, OrderKept DEF CryptoInv
  <2>2. CryptoTypeOK'
    BY <1>1 DEF CryptoInv, CryptoTypeOK
  <2>3. BillStep(o)
    BY <2>1 DEF BillStep
  <2> QED
    BY <2>1, <2>2, <2>3 DEF CryptoInv, CryptoMove
<1>2. ASSUME NEW o \in CoinOrders, HandleWebhook(o) PROVE CryptoInv' /\ CryptoMove
  <2> DEFINE new == [o |-> o, at |-> "verifying"]
  <2>1. /\ callbacks' = callbacks \cup {new} /\ new.o = o /\ new.at = "verifying"
        /\ UNCHANGED <<order, coins, coinLedger>>
        /\ order[o].status \notin {"none", "VERIFIED"}
        /\ \A c \in callbacks : c.o = o => c.at # "verifying"
    BY <1>2 DEF HandleWebhook, Unlocked
  <2>2. callbacks' \subseteq Callback
    BY <2>1 DEF CryptoInv, CryptoTypeOK, Callback
  <2> HIDE DEF new
  <2>3. ASSUME NEW q \in CoinOrders
        PROVE  /\ \A c \in callbacks' : c.o = q /\ c \notin callbacks =>
                     c.at = "verifying" /\ order[q].status \notin {"none", "VERIFIED"}
               /\ \A c, d \in callbacks' :
                     c.o = q /\ d.o = q /\ c.at = "verifying" /\ d.at = "verifying" => c = d
    <3>1. \A c, d \in callbacks :
            c.o = q /\ d.o = q /\ c.at = "verifying" /\ d.at = "verifying" => c = d
      BY DEF CryptoInv, OrderOK
    <3> QED
      BY <2>1, <3>1
  <2> QED
    BY <1>1, <2>1, <2>2, <2>3
<1>3. ASSUME NEW c \in callbacks
      PROVE  /\ c.o \in CoinOrders /\ OrderOK(c.o) /\ order[c.o].status # "none"
             /\ c.at = "verifying" => order[c.o].status # "VERIFIED"
             /\ c.at = "credited" => CoinRows(c.o) # {}
             /\ \A d \in callbacks : d.o = c.o /\ d.at = "verifying" /\ c.at = "verifying" => d = c
  <2>1. c.o \in CoinOrders /\ OrderOK(c.o)
    BY DEF CryptoInv, CryptoTypeOK, Callback
  <2> QED
    BY <2>1 DEF OrderOK
<1>4. ASSUME NEW c \in callbacks, NEW verified \in BOOLEAN, VerifyAnswers(c, verified)
      PROVE  CryptoInv' /\ CryptoMove
  <2>1. c.at = "verifying"
    BY <1>4 DEF VerifyAnswers
  <2>2. \A d \in callbacks \ {c} : d.o = c.o => d.at # "verifying"
    BY <1>3, <2>1
  <2>3. CASE /\ PutOrder(c.o, "FAILED") /\ callbacks' = callbacks \ {c}
             /\ UNCHANGED <<coins, coinLedger>>
    BY <1>3, <2>1, <2>3, OrderStatus
  <2>4. CASE /\ CoinRows(c.o) # {} /\ PutOrder(c.o, "VERIFIED") /\ callbacks' = callbacks \ {c}
             /\ UNCHANGED <<coins, coinLedger>>
    BY <1>3, <2>2, <2>4, OrderStatus
  <2>5. CASE /\ CoinRows(c.o) = {} /\ CreditCoins(c.o, order[c.o].amount)
             /\ callbacks' = (callbacks \ {c}) \cup {[o |-> c.o, at |-> "credited"]}
             /\ UNCHANGED order
    BY <2>5, CoinCreditOK
  <2> QED
    BY <1>4, <2>3, <2>4, <2>5 DEF VerifyAnswers
<1>5. ASSUME NEW c \in callbacks, MarkVerified(c) PROVE CryptoInv' /\ CryptoMove
  <2>1. /\ PutOrder(c.o, "VERIFIED") /\ callbacks' = callbacks \ {c}
        /\ UNCHANGED <<coins, coinLedger>>
        /\ CoinRows(c.o) # {}
        /\ \A d \in callbacks' : d.o = c.o => d.at # "verifying"
    BY <1>3, <1>5 DEF MarkVerified, Unlocked
  <2> QED
    BY <1>3, <2>1, OrderStatus
<1>6. ASSUME NEW c \in callbacks, CallbackStops(c) PROVE CryptoInv' /\ CryptoMove
  <2>1. UNCHANGED <<order, coins, coinLedger>> /\ callbacks' = callbacks \ {c}
    BY <1>6 DEF CallbackStops
  <2>2. callbacks' \subseteq Callback
    BY <2>1 DEF CryptoInv, CryptoTypeOK
  <2>3. ASSUME NEW q \in CoinOrders
        PROVE  /\ \A e \in callbacks' : e.o = q /\ e \notin callbacks =>
                     e.at = "verifying" /\ order[q].status \notin {"none", "VERIFIED"}
               /\ \A e, d \in callbacks' :
                     e.o = q /\ d.o = q /\ e.at = "verifying" /\ d.at = "verifying" => e = d
    BY <2>1 DEF CryptoInv, OrderOK
  <2> QED
    BY <1>1, <1>3, <2>1, <2>2, <2>3
<1>7. CASE CryptoStart
  BY <1>2, <1>7, RequestOK DEF CryptoStart
<1>8. CASE CryptoStep
  BY <1>4, <1>5, <1>6, <1>8 DEF CryptoStep
<1> QED
  BY <1>7, <1>8

-----------------------------------------------------------------------------
(* Tournaments.                                                            *)

\* The types of a tournament's rows in the ledger.
Kinds == {"TOURNAMENT_ENTRY", "TOURNAMENT_PRIZE", "REFUND"}

\* The calls in progress, and all of them but one.
Running == {calls[i] : i \in DOMAIN calls}

Others(i) == {calls[k] : k \in DOMAIN calls \ {i}}

\* The joins of u to t that have paid and not yet added the participant.
PaidJoins(u, t) ==
    {c \in Call : c.op = "join" /\ c.t = t /\ c.at # "read" /\ c.who = u}

JoinsPaid(u, t) == Cardinality({i \in HalfWay("join", t) : calls[i].who = u})

TournamentTypeOK ==
    /\ tournament \in [Tournaments -> TournamentRow]
    /\ entrants \in [Tournaments -> Seq(Users)]
    /\ calls \in Seq(Call)
    /\ disturbed \subseteq Tournaments

\* What a call carries: the fee and the prize of its tournament, which never change; whom
\* it has still to refund takes part; whom it remembers it has refunded.
CallOK(c) ==
    /\ tournament[c.t].status # "none"
    /\ c.row.fee = tournament[c.t].fee
    /\ c.row.prize = tournament[c.t].prize
    /\ c.op = "join" => c.who \in Users
    /\ c.at = "paid" => c.op = "join"
    /\ c.at = "refund" => c.op = "cancel"
    /\ c.todo # <<>> => c.at = "refund" /\ c.row.fee > 0
    /\ \A k \in DOMAIN c.todo : Entries(c.todo[k], c.t) > 0
    /\ \A u \in Users : c.seen[u] # Unloaded => Posted(u, "REFUND", c.t) > 0

\* What holds of every tournament; a join that has paid counts for the row it will add.
RowsOK(t) ==
    /\ tournament[t].status = "none" =>
          /\ tournament[t] = Row0 /\ entrants[t] = <<>>
          /\ \A u \in Users : \A kind \in Kinds : Posted(u, kind, t) = 0
    /\ \A u \in Users :
          /\ tournament[t].fee > 0 =>
                Entries(u, t) + JoinsPaid(u, t) <= Posted(u, "TOURNAMENT_ENTRY", t)
          /\ Posted(u, "REFUND", t) + Posted(u, "TOURNAMENT_PRIZE", t) > 0 => Entries(u, t) > 0
          /\ tournament[t].winner = u /\ tournament[t].prize > 0
                => Posted(u, "TOURNAMENT_PRIZE", t) > 0

\* Calls of a tournament that is not disturbed: no two of them clash, so that a join is
\* of somebody who does not take part yet, the admins' operations find the tournament as
\* they read it, and a cancellation has refunded whoever it has not still to refund.
Apart(t) ==
    \A i, j \in DOMAIN calls :
        i # j /\ calls[i].t = t /\ calls[j].t = t => ~Clash(calls[i], calls[j].op, calls[j].who)

CalmCall(c) ==
    /\ tournament[c.t].status # "CANCELLED"
    /\ c.op = "join" => Entries(c.who, c.t) = 0
    /\ c.op # "join" => Open(c.t) /\ c.row.winner = Nobody
    /\ c.at = "refund" => \A u \in Users :
          Posted(u, "REFUND", c.t) + HowMany(c.todo, {u}) =
              IF tournament[c.t].fee > 0 THEN Entries(u, c.t) ELSE 0

CalmOK(t) ==
    /\ Apart(t)
    /\ \A c \in Running : c.t = t => CalmCall(c)
    /\ tournament[t].status # "SETTLED" => tournament[t].winner = Nobody
    /\ PaidExactly(t)

\* PaidExactly, of one user.
PaidTo(u, t) ==
    /\ Entries(u, t) <= 1
    /\ tournament[t].fee > 0 =>
           Posted(u, "TOURNAMENT_ENTRY", t) = Entries(u, t) + JoinsPaid(u, t)
    /\ HalfWay("cancel", t) = {} =>
           Posted(u, "REFUND", t) =
               IF tournament[t].status = "CANCELLED" /\ tournament[t].fee > 0
               THEN Entries(u, t) ELSE 0
    /\ Posted(u, "TOURNAMENT_PRIZE", t) =
           IF /\ tournament[t].status = "SETTLED" /\ tournament[t].winner = u
              /\ tournament[t].prize > 0
           THEN 1 ELSE 0

LEMMA PaidIs ==
    ASSUME NEW t
    PROVE  /\ PaidExactly(t) => \A u \in Users : PaidTo(u, t)
           /\ (\A u \in Users : PaidTo(u, t)') => PaidExactly(t)'
BY DEF PaidExactly, PaidTo, JoinsPaid

TournamentInv ==
    /\ TournamentTypeOK
    /\ \A c \in Running : CallOK(c)
    /\ \A t \in Tournaments : RowsOK(t) /\ (t \notin disturbed => CalmOK(t))

BalancesOK == disturbed = {} => \A u \in Users : wallet[u] = Total(u)

-----------------------------------------------------------------------------
(* Calls that begin, go on and end.                                        *)

LEMMA EntriesAre ==
    ASSUME TournamentTypeOK, NEW t \in Tournaments, NEW u
    PROVE  Entries(u, t) = HowMany(entrants[t], {u}) /\ Entries(u, t) \in Nat
<1>1. entrants[t] \in Seq(Users)
  BY DEF TournamentTypeOK
<1>2. Entries(u, t) = HowMany(entrants[t], {u})
  <2>1. {i \in DOMAIN entrants[t] : entrants[t][i] = u} = Places(entrants[t], {u})
    BY DEF Places
  <2> QED
    BY <2>1 DEF Entries, HowMany
<1> QED
  BY <1>1, <1>2, PlacesFinite

LEMMA JoinsAre ==
    ASSUME calls \in Seq(Call), NEW t, NEW u
    PROVE  JoinsPaid(u, t) = HowMany(calls, PaidJoins(u, t)) /\ JoinsPaid(u, t) \in Nat
<1>1. \A i \in DOMAIN calls : calls[i] \in Call
  OBVIOUS
<1>2. {i \in HalfWay("join", t) : calls[i].who = u} = Places(calls, PaidJoins(u, t))
  BY <1>1 DEF HalfWay, Places, PaidJoins
<1>3. JoinsPaid(u, t) = HowMany(calls, PaidJoins(u, t))
  BY <1>2 DEF JoinsPaid, HowMany
<1> QED
  BY <1>3, PlacesFinite

\* The same of the next state.
LEMMA JoinsWillBe ==
    ASSUME calls' \in Seq(Call), NEW t, NEW u
    PROVE  JoinsPaid(u, t)' = HowMany(calls', PaidJoins(u, t))
<1>1. \A i \in DOMAIN calls' : calls'[i] \in Call
  OBVIOUS
<1>2. {i \in HalfWay("join", t)' : calls'[i].who = u} = Places(calls', PaidJoins(u, t))
  BY <1>1 DEF HalfWay, Places, PaidJoins
<1> QED
  BY <1>2 DEF JoinsPaid, HowMany

LEMMA ClashIsSymmetric ==
    ASSUME NEW c, NEW d, Clash(c, d.op, d.who)
    PROVE  Clash(d, c.op, c.who)
BY DEF Clash

LEMMA RunningAre ==
    ASSUME TournamentTypeOK
    PROVE  /\ \A c \in Running : c \in Call /\ c.t \in Tournaments
           /\ \A i \in DOMAIN calls : calls[i] \in Call /\ calls[i] \in Running
           /\ \A i \in DOMAIN calls : Running = Others(i) \cup {calls[i]}
<1>1. calls \in Seq(Call)
  BY DEF TournamentTypeOK
<1>2. \A c \in Call : c.t \in Tournaments
  BY DEF Call
<1>3. \A i \in DOMAIN calls : calls[i] \in Call
  BY <1>1
<1> QED
  BY <1>2, <1>3 DEF Running, Others

LEMMA BeginCalls ==
    ASSUME calls \in Seq(Call), NEW new \in Call, new.at = "read", calls' = Append(calls, new)
    PROVE  /\ calls' \in Seq(Call)
           /\ Running' = Running \cup {new}
           /\ \A u, t : JoinsPaid(u, t)' = JoinsPaid(u, t)
           /\ \A t : Apart(t) /\ (\A c \in Running : c.t = t /\ new.t = t =>
                                      ~Clash(c, new.op, new.who)) => Apart(t)'
<1>1. /\ calls' \in Seq(Call)
      /\ Len(calls) \in Nat /\ DOMAIN calls = 1..Len(calls)
      /\ Len(calls') = Len(calls) + 1 /\ DOMAIN calls' = 1..Len(calls')
      /\ calls'[Len(calls) + 1] = new
      /\ \A j \in 1..Len(calls) : calls'[j] = calls[j]
  BY AppendProperties
<1>2. DOMAIN calls' = DOMAIN calls \cup {Len(calls) + 1} /\ Len(calls) + 1 \notin DOMAIN calls
  BY <1>1
<1>3. ASSUME NEW u, NEW t PROVE JoinsPaid(u, t)' = JoinsPaid(u, t)
  <2>1. new \notin PaidJoins(u, t)
    BY DEF PaidJoins
  <2>2. JoinsPaid(u, t) = HowMany(calls, PaidJoins(u, t)) /\ JoinsPaid(u, t) \in Nat
        /\ JoinsPaid(u, t)' = HowMany(calls', PaidJoins(u, t))
    BY <1>1, JoinsAre, JoinsWillBe
  <2>3. PICK m, s, G : m = calls' /\ s = calls /\ G = PaidJoins(u, t)
    OBVIOUS
  <2>4. /\ s \in Seq(Call) /\ m \in Seq(Call) /\ Len(m) = Len(s) + 1
        /\ \A j \in 1..Len(s) : m[j] = s[j]
        /\ m[Len(s) + 1] = new
    BY <1>1, <2>3
  <2>5. HowMany(m, G) = HowMany(s, G) + (IF m[Len(s) + 1] \in G THEN 1 ELSE 0)
    BY <2>4, PlacesAppend
  <2> QED
    BY <2>1, <2>2, <2>3, <2>4, <2>5
<1>4. Running' = Running \cup {new}
  BY <1>1, <1>2 DEF Running
<1>5. ASSUME NEW t, Apart(t),
             \A c \in Running : c.t = t /\ new.t = t => ~Clash(c, new.op, new.who)
      PROVE  Apart(t)'
  <2> SUFFICES ASSUME NEW i \in DOMAIN calls', NEW j \in DOMAIN calls',
                      i # j, calls'[i].t = t, calls'[j].t = t
               PROVE  ~Clash(calls'[i], calls'[j].op, calls'[j].who)
    BY DEF Apart, Clash
  <2>0. \A k \in DOMAIN calls : calls[k] \in Running
    BY DEF Running
  <2>1. CASE i \in DOMAIN calls /\ j \in DOMAIN calls
    BY <1>1, <1>5, <2>1 DEF Apart
  <2>2. CASE i \in DOMAIN calls /\ j = Len(calls) + 1
    BY <1>1, <1>5, <2>0, <2>2
  <2>3. CASE i = Len(calls) + 1 /\ j \in DOMAIN calls
    <3>1. ~Clash(calls[j], new.op, new.who)
      BY <1>1, <1>5, <2>0, <2>3
    <3>2. ~Clash(new, calls[j].op, calls[j].who)
      BY <3>1, ClashIsSymmetric
    <3> QED
      BY <1>1, <2>3, <3>2
  <2> QED
    BY <1>2, <2>1, <2>2, <2>3
<1> HIDE DEF Apart
<1> QED
  BY <1>1, <1>3, <1>4, <1>5

\* A call ends.
LEMMA RemoveCalls ==
    ASSUME calls \in Seq(Call), NEW i \in DOMAIN calls, calls' = RemoveAt(calls, i)
    PROVE  /\ calls' \in Seq(Call)
           /\ Running' = Others(i)
           /\ \A u, t : JoinsPaid(u, t)' =
                  JoinsPaid(u, t) - (IF calls[i] \in PaidJoins(u, t) THEN 1 ELSE 0)
           /\ \A t : Apart(t) => Apart(t)'
<1>1. /\ i \in 1..Len(calls) /\ Len(calls) \in Nat /\ DOMAIN calls = 1..Len(calls)
      /\ calls' \in Seq(Call) /\ DOMAIN calls' = 1..(Len(calls) - 1)
      /\ \A k \in 1..(Len(calls) - 1) : calls'[k] = IF k < i THEN calls[k] ELSE calls[k + 1]
  <2>1. PICK m : m = RemoveAt(calls, i)
    OBVIOUS
  <2>2. /\ m \in Seq(Call) /\ Len(m) = Len(calls) - 1
        /\ \A k \in 1..(Len(calls) - 1) : m[k] = IF k < i THEN calls[k] ELSE calls[k + 1]
    BY <2>1, RemoveAtIs
  <2> QED
    BY <2>1, <2>2
<1>2. ASSUME NEW u, NEW t
      PROVE  JoinsPaid(u, t)' = JoinsPaid(u, t) - (IF calls[i] \in PaidJoins(u, t) THEN 1 ELSE 0)
  <2>1. JoinsPaid(u, t) = HowMany(calls, PaidJoins(u, t))
        /\ JoinsPaid(u, t)' = HowMany(calls', PaidJoins(u, t))
    BY <1>1, JoinsAre, JoinsWillBe
  <2>2. HowMany(calls', PaidJoins(u, t)) =
          HowMany(calls, PaidJoins(u, t)) - (IF calls[i] \in PaidJoins(u, t) THEN 1 ELSE 0)
    BY PlacesRemove
  <2> QED
    BY <2>1, <2>2
<1>3. \A k \in DOMAIN calls' :
        \E j \in DOMAIN calls \ {i} : calls'[k] = calls[j] /\ j = IF k < i THEN k ELSE k + 1
  BY <1>1
<1>4. \A j \in DOMAIN calls \ {i} : \E k \in DOMAIN calls' : calls'[k] = calls[j]
  <2> TAKE j \in DOMAIN calls \ {i}
  <2>1. CASE j < i
    <3>1. j \in DOMAIN calls' /\ calls'[j] = calls[j]
      BY <1>1, <2>1
    <3> QED
      BY <3>1
  <2>2. CASE j > i
    <3>1. PICK k : k = j - 1 /\ k \in DOMAIN calls' /\ ~(k < i) /\ k + 1 = j
      BY <1>1, <2>2
    <3>2. calls'[k] = calls[j]
      BY <1>1, <3>1
    <3> QED
      BY <3>1, <3>2
  <2> QED
    BY <1>1, <2>1, <2>2
<1>5. Running' = Others(i)
  BY <1>3, <1>4 DEF Running, Others
<1>6. ASSUME NEW t, Apart(t) PROVE Apart(t)'
  <2> SUFFICES ASSUME NEW k \in DOMAIN calls', NEW j \in DOMAIN calls',
                      k # j, calls'[k].t = t, calls'[j].t = t
               PROVE  ~Clash(calls'[k], calls'[j].op, calls'[j].who)
    BY DEF Apart, Clash
  <2>1. PICK k0 \in DOMAIN calls : calls'[k] = calls[k0] /\ k0 = IF k < i THEN k ELSE k + 1
    BY <1>3
  <2>2. PICK j0 \in DOMAIN calls : calls'[j] = calls[j0] /\ j0 = IF j < i THEN j ELSE j + 1
    BY <1>3
  <2>3. k0 # j0
    BY <1>1, <2>1, <2>2
  <2> QED
    BY <1>6, <2>1, <2>2, <2>3 DEF Apart
<1> HIDE DEF Apart
<1> QED
  BY <1>1, <1>2, <1>5, <1>6

\* A call goes on.
LEMMA ChangeCalls ==
    ASSUME calls \in Seq(Call), NEW i \in DOMAIN calls, NEW d \in Call,
           calls' \in Seq(Call), DOMAIN calls' = DOMAIN calls,
           calls'[i] = d, \A k \in DOMAIN calls : k # i => calls'[k] = calls[k],
           d.op = calls[i].op, d.t = calls[i].t, d.who = calls[i].who
    PROVE  /\ Running' = Others(i) \cup {d}
           /\ \A u, t : JoinsPaid(u, t)' =
                  JoinsPaid(u, t) - (IF calls[i] \in PaidJoins(u, t) THEN 1 ELSE 0)
                                  + (IF d \in PaidJoins(u, t) THEN 1 ELSE 0)
           /\ \A t : Apart(t) => Apart(t)'
<1>1. DOMAIN calls = 1..Len(calls) /\ Len(calls) \in Nat /\ Len(calls') = Len(calls)
  OBVIOUS
<1>2. ASSUME NEW u, NEW t
      PROVE  JoinsPaid(u, t)' = JoinsPaid(u, t) - (IF calls[i] \in PaidJoins(u, t) THEN 1 ELSE 0)
                                                + (IF d \in PaidJoins(u, t) THEN 1 ELSE 0)
  <2>1. JoinsPaid(u, t) = HowMany(calls, PaidJoins(u, t))
        /\ JoinsPaid(u, t)' = HowMany(calls', PaidJoins(u, t))
    BY <1>1, JoinsAre, JoinsWillBe
  <2>2. PICK m, s, G : m = calls' /\ s = calls /\ G = PaidJoins(u, t)
    OBVIOUS
  <2>3. /\ s \in Seq(Call) /\ m \in Seq(Call) /\ Len(m) = Len(s) /\ i \in DOMAIN s
        /\ \A k \in 1..Len(s) : k # i => m[k] = s[k]
    BY <1>1, <2>2
  <2>4. HowMany(m, G) = HowMany(s, G) - (IF s[i] \in G THEN 1 ELSE 0)
                                      + (IF m[i] \in G THEN 1 ELSE 0)
    BY <2>3, PlacesSame
  <2> QED
    BY <1>1, <2>1, <2>2, <2>4
<1>3. Running' = Others(i) \cup {d}
  <2>1. ASSUME NEW c \in Running' PROVE c \in Others(i) \cup {d}
    BY <1>1 DEF Running, Others
  <2>2. d \in Running'
    BY <1>1 DEF Running
  <2>3. ASSUME NEW c \in Others(i) PROVE c \in Running'
    <3>1. PICK k \in DOMAIN calls : k # i /\ c = calls[k]
      BY DEF Others
    <3>2. k \in DOMAIN calls' /\ c = calls'[k]
      BY <1>1, <3>1
    <3> QED
      BY <3>2 DEF Running
  <2> QED
    BY <2>1, <2>2, <2>3
<1>4. ASSUME NEW t, Apart(t) PROVE Apart(t)'
  <2> SUFFICES ASSUME NEW k \in DOMAIN calls', NEW j \in DOMAIN calls',
                      k # j, calls'[k].t = t, calls'[j].t = t
               PROVE  ~Clash(calls'[k], calls'[j].op, calls'[j].who)
    BY DEF Apart, Clash
  <2>1. \A l \in DOMAIN calls :
          calls'[l].op = calls[l].op /\ calls'[l].t = calls[l].t /\ calls'[l].who = calls[l].who
    BY <1>1
  <2>2. ~Clash(calls[k], calls[j].op, calls[j].who)
    BY <1>1, <1>4, <2>1 DEF Apart
  <2> QED
    BY <1>1, <2>1, <2>2 DEF Clash
<1> HIDE DEF Apart
<1> QED
  BY <1>1, <1>2, <1>3, <1>4

-----------------------------------------------------------------------------
(* What a step leaves as it is.                                            *)

\* Nothing has happened to t but calls that begin, and calls that end before they pay.
Kept(t) ==
    /\ tournament'[t] = tournament[t]
    /\ entrants'[t] = entrants[t]
    /\ \A u \in Users : \A kind \in Kinds : Posted(u, kind, t)' = Posted(u, kind, t)
    /\ \A u : JoinsPaid(u, t)' = JoinsPaid(u, t)

\* What has happened to t does not take anything from the calls that go on.
Grown(t) ==
    /\ tournament'[t].status # "none"
    /\ tournament'[t].fee = tournament[t].fee
    /\ tournament'[t].prize = tournament[t].prize
    /\ \A u \in Users : Entries(u, t) > 0 => Entries(u, t)' > 0
    /\ \A u \in Users : Posted(u, "REFUND", t) > 0 => Posted(u, "REFUND", t)' > 0

LEMMA CallStays ==
    ASSUME NEW c \in Call, CallOK(c), Grown(c.t)
    PROVE  CallOK(c)'
<1>1. c.todo \in Seq(Users)
  BY DEF Call
<1>2. \A k \in DOMAIN c.todo : c.todo[k] \in Users
  BY <1>1
<1> QED
  BY <1>2 DEF CallOK, Grown

LEMMA EntriesKept ==
    ASSUME NEW t, entrants'[t] = entrants[t], NEW u
    PROVE  Entries(u, t)' = Entries(u, t)
BY DEF Entries

LEMMA KeptRows ==
    ASSUME NEW t, RowsOK(t), Kept(t)
    PROVE  RowsOK(t)'
<1>1. \A u : Entries(u, t)' = Entries(u, t)
  BY EntriesKept DEF Kept
<1> QED
  BY <1>1 DEF RowsOK, Kept, Kinds

LEMMA KeptCalm ==
    ASSUME NEW t, CalmOK(t), Kept(t), Apart(t)',
           \A c \in Running' : c.t = t => c \in Running \/ CalmCall(c)',
           \A c \in Running : c.op = "cancel" /\ c.t = t /\ c.at # "read" =>
               \E d \in Running' : d.op = "cancel" /\ d.t = t /\ d.at # "read"
    PROVE  CalmOK(t)'
<1>1. \A u : Entries(u, t)' = Entries(u, t)
  BY EntriesKept DEF Kept
<1>2. ASSUME NEW c \in Running', c.t = t PROVE CalmCall(c)'
  <2>1. CASE c \in Running
    <3>1. CalmCall(c)
      BY <1>2, <2>1 DEF CalmOK
    <3> QED
      BY <1>1, <1>2, <3>1 DEF CalmCall, Kept, Kinds, Open
  <2> QED
    BY <1>2, <2>1
<1>3. HalfWay("cancel", t)' = {} => HalfWay("cancel", t) = {}
  <2> SUFFICES ASSUME NEW i \in HalfWay("cancel", t) PROVE HalfWay("cancel", t)' # {}
    OBVIOUS
  <2>1. /\ i \in DOMAIN calls /\ calls[i].op = "cancel" /\ calls[i].t = t /\ calls[i].at # "read"
        /\ calls[i] \in Running
    BY DEF HalfWay, Running
  <2>2. PICK d \in Running' : d.op = "cancel" /\ d.t = t /\ d.at # "read"
    BY <2>1
  <2>3. PICK j \in DOMAIN calls' : calls'[j] = d
    BY DEF Running
  <2> QED
    BY <2>2, <2>3 DEF HalfWay
<1>4. PaidExactly(t)'
  <2>1. ASSUME NEW u \in Users PROVE PaidTo(u, t)'
    <3>1. PaidTo(u, t)
      BY PaidIs DEF CalmOK
    <3> QED
      BY <1>1, <1>3, <3>1 DEF PaidTo, Kept, Kinds
  <2> QED
    BY <2>1, PaidIs
<1> QED
  BY <1>2, <1>4 DEF CalmOK, Kept

\* A step on the tournament t0.
LEMMA OnOneTournament ==
    ASSUME TournamentInv, TournamentTypeOK', NEW t0 \in Tournaments,
           tournament[t0].status = "none" \/ Grown(t0),
           \A c \in Running' : c \in Running \/ (c.t = t0 /\ CallOK(c)'),
           \A c \in Running : c \in Running' \/ c.t = t0,
           \A t \in Tournaments \ {t0} : Kept(t) /\ (Apart(t) => Apart(t)'),
           disturbed \subseteq disturbed', disturbed' \subseteq disturbed \cup {t0},
           RowsOK(t0)',
           t0 \notin disturbed' => CalmOK(t0)'
    PROVE  TournamentInv'
<1>1. \A c \in Running : c \in Call /\ c.t \in Tournaments
  BY RunningAre DEF TournamentInv
<1>2. ASSUME NEW c \in Running' PROVE CallOK(c)'
  <2>1. CASE c \in Running
    <3>1. CallOK(c) /\ tournament[c.t].status # "none"
      BY <2>1 DEF TournamentInv, CallOK
    <3>2. Grown(c.t)
      <4>1. CASE c.t = t0
        BY <3>1, <4>1
      <4>2. CASE c.t # t0
        <5>1. Kept(c.t)
          BY <1>1, <2>1, <4>2
        <5>2. \A u : Entries(u, c.t)' = Entries(u, c.t)
          BY <5>1, EntriesKept DEF Kept
        <5> QED
          BY <3>1, <5>1, <5>2 DEF Kept, Grown, Kinds
      <4> QED
        BY <4>1, <4>2
    <3> QED
      BY <1>1, <2>1, <3>1, <3>2, CallStays
  <2> QED
    BY <2>1
<1>3. ASSUME NEW t \in Tournaments PROVE RowsOK(t)' /\ (t \notin disturbed' => CalmOK(t)')
  <2>1. CASE t # t0
    <3>1. Kept(t) /\ RowsOK(t)
      BY <2>1 DEF TournamentInv
    <3>2. ASSUME t \notin disturbed' PROVE CalmOK(t)'
      <4>1. CalmOK(t)
        BY <2>1, <3>2 DEF TournamentInv
      <4>2. Apart(t)'
        BY <2>1, <4>1 DEF CalmOK
      <4> QED
        BY <2>1, <3>1, <4>1, <4>2, KeptCalm
    <3> QED
      BY <3>1, <3>2, KeptRows
  <2> QED
    BY <2>1
<1> QED
  BY <1>2, <1>3 DEF TournamentInv

\* While nothing is disturbed, every posting starts from the balance of the wallet.
LEMMA PostBalances ==
    ASSUME WalletTypeOK, BalancesOK,
           NEW u \in Users, NEW seen \in Nat, NEW amount \in Int, seen + amount >= 0,
           NEW type \in RowTypes, NEW ref \in Refs,
           Post(u, seen, amount, type, ref),
           disturbed = {} => seen = wallet[u],
           disturbed \subseteq disturbed'
    PROVE  BalancesOK'
<1> SUFFICES ASSUME disturbed' = {}, NEW v \in Users PROVE wallet'[v] = Total(v)'
  BY DEF BalancesOK
<1>1. wallet[v] = Total(v) /\ seen = wallet[u]
  BY DEF BalancesOK
<1>2. wallet'[u] = seen + amount /\ (v # u => wallet'[v] = wallet[v])
  BY PostEffect
<1>3. Total(v)' = IF v = u THEN Total(v) + amount ELSE Total(v)
  BY PostTotal
<1> QED
  BY <1>1, <1>2, <1>3

LEMMA SameBalances ==
    ASSUME BalancesOK, UNCHANGED walletVars, disturbed \subseteq disturbed'
    PROVE  BalancesOK'
BY DEF BalancesOK, walletVars, Total

LEMMA SamePosted ==
    ASSUME UNCHANGED walletVars
    PROVE  \A u, kind, t : Posted(u, kind, t)' = Posted(u, kind, t)
BY SameLedger DEF Posted

-----------------------------------------------------------------------------
(* The steps of the tournaments.                                           *)

\* Nobody has called anything of a tournament that does not exist.
LEMMA NoCalls ==
    ASSUME TournamentInv, NEW t \in Tournaments, tournament[t].status = "none"
    PROVE  /\ \A c \in Running : c.t # t
           /\ \A i \in DOMAIN calls : calls[i].t # t
           /\ \A op : HalfWay(op, t) = {}
           /\ \A u : JoinsPaid(u, t) = 0
<1>1. \A c \in Running : c.t # t
  BY DEF TournamentInv, CallOK
<1>2. \A i \in DOMAIN calls : calls[i].t # t
  BY <1>1 DEF Running
<1>3. \A op : HalfWay(op, t) = {}
  BY <1>2 DEF HalfWay
<1>4. \A u : {i \in HalfWay("join", t) : calls[i].who = u} = {}
  BY <1>3
<1> QED
  BY <1>1, <1>2, <1>3, <1>4, FS_EmptySet DEF JoinsPaid

LEMMA CreateOK ==
    ASSUME TournamentInv, NEW t \in Tournaments, NEW fee \in Fees, NEW prize \in Prizes,
           CreateTournament(t, fee, prize)
    PROVE  TournamentInv'
<1>1. /\ UNCHANGED <<walletVars, entrants, calls, disturbed>>
      /\ tournament[t].status = "none"
      /\ tournament \in [Tournaments -> TournamentRow]
  BY DEF CreateTournament, TournamentInv, TournamentTypeOK
<1>2. /\ tournament' \in [Tournaments -> TournamentRow]
      /\ tournament'[t].status = "ACTIVE" /\ tournament'[t].winner = Nobody
      /\ tournament'[t].fee = fee /\ tournament'[t].prize = prize
      /\ \A s \in Tournaments \ {t} : tournament'[s] = tournament[s]
  BY <1>1 DEF CreateTournament, TournamentRow, TournamentStatuses, Row0
<1>3. TournamentTypeOK'
  BY <1>1, <1>2 DEF TournamentInv, TournamentTypeOK
<1>4. /\ Running' = Running
      /\ \A s : Apart(s)' = Apart(s)
      /\ \A u, s : JoinsPaid(u, s)' = JoinsPaid(u, s)
      /\ \A u, s : Entries(u, s)' = Entries(u, s)
      /\ \A u, kind, s : Posted(u, kind, s)' = Posted(u, kind, s)
      /\ \A op, s : HalfWay(op, s)' = HalfWay(op, s)
  BY <1>1, SamePosted DEF Running, Apart, Clash, JoinsPaid, HalfWay, Entries
<1>5. /\ \A c \in Running : c.t # t
      /\ \A i \in DOMAIN calls : calls[i].t # t
      /\ \A u : JoinsPaid(u, t) = 0
  BY <1>1, NoCalls
<1>6. \A u \in Users :
        /\ Entries(u, t) = 0
        /\ Posted(u, "TOURNAMENT_ENTRY", t) = 0
        /\ Posted(u, "TOURNAMENT_PRIZE", t) = 0
        /\ Posted(u, "REFUND", t) = 0
  <2>1. entrants[t] = <<>> /\ \A u \in Users : \A kind \in Kinds : Posted(u, kind, t) = 0
    BY <1>1 DEF TournamentInv, RowsOK
  <2>2. \A u : {i \in DOMAIN entrants[t] : entrants[t][i] = u} = {}
    <3>1. DOMAIN entrants[t] = {}
      BY <2>1
    <3> QED
      BY <3>1
  <2> QED
    BY <2>1, <2>2, FS_EmptySet DEF Entries, Kinds
<1>7. RowsOK(t)'
  <2>1. \A u \in Users : tournament'[t].winner # u
    BY <1>2, TournamentAssumption
  <2> QED
    BY <1>2, <1>4, <1>5, <1>6, <2>1 DEF RowsOK
<1>8. CalmOK(t)'
  <2>1. Apart(t)'
    BY <1>1, <1>5 DEF Apart
  <2>2. PaidExactly(t)'
    <3> SUFFICES ASSUME NEW u \in Users
                 PROVE  /\ Entries(u, t)' <= 1
                        /\ Posted(u, "TOURNAMENT_ENTRY", t)' = Entries(u, t)' + JoinsPaid(u, t)'
                        /\ Posted(u, "REFUND", t)' = 0
                        /\ Posted(u, "TOURNAMENT_PRIZE", t)' = 0
      BY <1>2 DEF PaidExactly, JoinsPaid
    <3> QED
      BY <1>4, <1>5, <1>6
  <2> QED
    BY <1>2, <1>4, <1>5, <2>1, <2>2 DEF CalmOK
<1>9. \A s \in Tournaments \ {t} : Kept(s)
  BY <1>1, <1>2, <1>4 DEF Kept
<1> QED
  BY <1>1, <1>3, <1>4, <1>7, <1>8, <1>9, OnOneTournament

\* A call begins, of a tournament that exists and that the caller finds as it says.
LEMMA BeginOK ==
    ASSUME TournamentInv, NEW t \in Tournaments, NEW op \in {"join", "end", "cancel", "settle"},
           NEW who \in Users \cup {Nobody},
           Open(t),
           op = "join" => who \in Users /\ Entries(who, t) = 0,
           Begin(op, t, who)
    PROVE  TournamentInv'
<1>0. PICK new : new = [op |-> op, t |-> t, at |-> "read", who |-> who, row |-> tournament[t],
                       todo |-> <<>>, seen |-> [u \in Users |-> Unloaded]]
  OBVIOUS
<1>1. /\ UNCHANGED <<walletVars, tournament, entrants>>
      /\ calls' = Append(calls, new)
      /\ disturbed' = IF \E i \in DOMAIN calls : calls[i].t = t /\ Clash(calls[i], op, who)
                      THEN disturbed \cup {t} ELSE disturbed
      /\ TournamentTypeOK
  BY <1>0 DEF Begin, TournamentInv
<1>2. new \in Call
  <2>1. tournament[t] \in TournamentRow /\ <<>> \in Seq(Users)
    BY <1>1 DEF TournamentTypeOK
  <2>2. [u \in Users |-> Unloaded] \in [Users -> Nat \cup {Unloaded}]
    OBVIOUS
  <2> QED
    BY <1>0, <2>1, <2>2 DEF Call
<1>3. /\ new.op = op /\ new.t = t /\ new.at = "read" /\ new.who = who /\ new.row = tournament[t]
      /\ new.todo = <<>> /\ \A u \in Users : new.seen[u] = Unloaded
  BY <1>0
<1>4. /\ calls' \in Seq(Call)
      /\ Running' = Running \cup {new}
      /\ \A u, s : JoinsPaid(u, s)' = JoinsPaid(u, s)
      /\ \A s : Apart(s) /\ (\A c \in Running : c.t = s /\ new.t = s =>
                                 ~Clash(c, new.op, new.who)) => Apart(s)'
  BY <1>1, <1>2, <1>3, BeginCalls DEF TournamentTypeOK
<1>5. /\ \A u, s : Entries(u, s)' = Entries(u, s)
      /\ \A u, kind, s : Posted(u, kind, s)' = Posted(u, kind, s)
  BY <1>1, SamePosted DEF Entries
<1>6. TournamentTypeOK'
  BY <1>1, <1>4 DEF TournamentTypeOK
<1>7. \A s \in Tournaments : Kept(s)
  BY <1>1, <1>4, <1>5 DEF Kept
<1>8. CallOK(new)'
  <2>1. DOMAIN new.todo = {}
    BY <1>3
  <2> QED
    BY <1>1, <1>3, <2>1 DEF CallOK, Open
<1>9. t \notin disturbed' => CalmOK(t)'
  <2> SUFFICES ASSUME t \notin disturbed' PROVE CalmOK(t)'
    OBVIOUS
  <2>1. CalmOK(t) /\ \A i \in DOMAIN calls : ~(calls[i].t = t /\ Clash(calls[i], op, who))
    BY <1>1 DEF TournamentInv
  <2>2. \A c \in Running : c.t = t => ~Clash(c, new.op, new.who)
    BY <1>3, <2>1 DEF Running
  <2>3. Apart(t)'
    BY <1>4, <2>1, <2>2 DEF CalmOK
  <2>4. CalmCall(new)'
    BY <1>1, <1>3, <1>5, <2>1 DEF CalmCall, CalmOK, Open
  <2> QED
    BY <1>4, <1>7, <2>1, <2>3, <2>4, KeptCalm
<1>10. Grown(t)
  BY <1>1, <1>5 DEF Grown, Open
<1>11. RowsOK(t)'
  BY <1>7, KeptRows DEF TournamentInv
<1> QED
  BY <1>1, <1>3, <1>4, <1>6, <1>7, <1>8, <1>9, <1>10, <1>11, OnOneTournament

LEMMA FeesArePaid ==
    ASSUME NEW row \in TournamentRow
    PROVE  row.fee \in Nat /\ row.prize \in Nat
<1>1. Fees \subseteq Nat /\ Prizes \subseteq Nat
  BY TournamentAssumption
<1>2. (\A x \in Fees : x \in Nat) /\ (\A x \in Prizes : x \in Nat) /\ 0 \in Nat
  BY <1>1
<1>3. row.fee \in Fees \cup {0} /\ row.prize \in Prizes \cup {0}
  BY DEF TournamentRow
<1> QED
  BY <1>2, <1>3

\* What a call in progress carries.
LEMMA CallIs ==
    ASSUME TournamentInv, NEW i \in DOMAIN calls, NEW c, c = calls[i]
    PROVE  /\ c \in Call /\ c.t \in Tournaments /\ c \in Running /\ CallOK(c)
           /\ c.row.fee \in Nat /\ c.row.prize \in Nat
           /\ RowsOK(c.t)
           /\ c.t \notin disturbed => CalmOK(c.t) /\ CalmCall(c)
<1>1. c \in Call /\ c.t \in Tournaments /\ c \in Running
  BY RunningAre DEF TournamentInv
<1>2. CallOK(c) /\ RowsOK(c.t) /\ (c.t \notin disturbed => CalmOK(c.t))
  BY <1>1 DEF TournamentInv
<1>3. c.t \notin disturbed => CalmCall(c)
  BY <1>1, <1>2 DEF CalmOK
<1>4. c.row \in TournamentRow
  BY <1>1 DEF Call
<1>5. c.row.fee \in Nat /\ c.row.prize \in Nat
  BY <1>4, FeesArePaid
<1> QED
  BY <1>1, <1>2, <1>3, <1>5

LEMMA NoClash ==
    ASSUME NEW c \in Call, NEW d \in Call, ~Clash(c, d.op, d.who)
    PROVE  /\ c.op # "cancel"
           /\ c.op = "settle" => d.op = "join"
           /\ c.op = "end" => d.op \in {"end", "join"}
           /\ c.op = "join" => d.op # "cancel" /\ (d.op = "join" => d.who # c.who)
<1>1. c.op \in {"join", "end", "cancel", "settle"} /\ d.op \in {"join", "end", "cancel", "settle"}
  BY DEF Call
<1> QED
  BY <1>1 DEF Clash

\* The other calls of a calm tournament.
LEMMA TheOthers ==
    ASSUME TournamentInv, NEW i \in DOMAIN calls, NEW c, c = calls[i], c.t \notin disturbed,
           NEW d \in Others(i), d.t = c.t
    PROVE  /\ d \in Call /\ CalmCall(d) /\ CallOK(d)
           /\ c.op # "cancel"
           /\ c.op = "settle" => d.op = "join"
           /\ c.op = "end" => d.op \in {"end", "join"}
           /\ c.op = "join" => d.op # "cancel" /\ (d.op = "join" => d.who # c.who)
<1>1. PICK k \in DOMAIN calls : k # i /\ d = calls[k]
  BY DEF Others
<1>2. c \in Call /\ d \in Call /\ CalmOK(c.t) /\ d \in Running
  BY <1>1, CallIs
<1>3. ~Clash(c, d.op, d.who)
  BY <1>1, <1>2 DEF CalmOK, Apart
<1>4. CalmCall(d) /\ CallOK(d)
  BY <1>2 DEF CalmOK, TournamentInv
<1> QED
  BY <1>2, <1>3, <1>4, NoClash

\* A call that ends before it has paid.
LEMMA EarlyEndOK ==
    ASSUME TournamentInv, NEW i \in DOMAIN calls, calls[i].at = "read", Done(i),
           UNCHANGED <<walletVars, tournament, entrants, disturbed>>
    PROVE  TournamentInv'
<1>0. PICK c, t : c = calls[i] /\ t = c.t
  OBVIOUS
<1>1. /\ c \in Call /\ t \in Tournaments /\ c \in Running /\ CallOK(c) /\ RowsOK(t)
      /\ TournamentTypeOK
  BY <1>0, CallIs DEF TournamentInv
<1>2. /\ calls' \in Seq(Call)
      /\ Running' = Others(i)
      /\ \A u, s : JoinsPaid(u, s)' =
            JoinsPaid(u, s) - (IF calls[i] \in PaidJoins(u, s) THEN 1 ELSE 0)
      /\ \A s : Apart(s) => Apart(s)'
  BY <1>1, RemoveCalls DEF Done, TournamentTypeOK
<1>3. \A u, s : JoinsPaid(u, s)' = JoinsPaid(u, s)
  <2> TAKE u, s
  <2>1. calls[i] \notin PaidJoins(u, s)
    BY DEF PaidJoins
  <2>2. JoinsPaid(u, s) \in Nat
    BY <1>1, JoinsAre DEF TournamentTypeOK
  <2> QED
    BY <1>2, <2>1, <2>2
<1>4. Running = Others(i) \cup {c}
  BY <1>0, <1>1, RunningAre
<1>5. /\ \A u, s : Entries(u, s)' = Entries(u, s)
      /\ \A u, kind, s : Posted(u, kind, s)' = Posted(u, kind, s)
  BY SamePosted DEF Entries
<1>6. \A s \in Tournaments : Kept(s)
  BY <1>3, <1>5 DEF Kept
<1>7. TournamentTypeOK'
  BY <1>1, <1>2 DEF TournamentTypeOK
<1>8. t \notin disturbed' => CalmOK(t)'
  <2> SUFFICES ASSUME t \notin disturbed PROVE CalmOK(t)'
    OBVIOUS
  <2>1. CalmOK(t) /\ Apart(t)'
    BY <1>1, <1>2 DEF CalmOK, TournamentInv
  <2> QED
    BY <1>0, <1>1, <1>2, <1>4, <1>6, <2>1, KeptCalm
<1>9. Grown(t) /\ RowsOK(t)'
  BY <1>0, <1>1, <1>5, <1>6, KeptRows DEF Grown, CallOK
<1> QED
  BY <1>0, <1>1, <1>2, <1>4, <1>6, <1>7, <1>8, <1>9, OnOneTournament

\* A call that stops half-way: its tournament is disturbed.
LEMMA HalfWayEndOK ==
    ASSUME TournamentInv, WalletTypeOK, NEW i \in DOMAIN calls, Done(i),
           disturbed' = disturbed \cup {calls[i].t},
           UNCHANGED <<walletVars, tournament, entrants>>
    PROVE  TournamentInv'
<1>0. PICK c, t : c = calls[i] /\ t = c.t
  OBVIOUS
<1>1. /\ c \in Call /\ t \in Tournaments /\ c \in Running /\ CallOK(c) /\ RowsOK(t)
      /\ TournamentTypeOK
  BY <1>0, CallIs DEF TournamentInv
<1>2. /\ calls' \in Seq(Call)
      /\ Running' = Others(i)
      /\ \A u, s : JoinsPaid(u, s)' =
            JoinsPaid(u, s) - (IF c \in PaidJoins(u, s) THEN 1 ELSE 0)
      /\ \A s : Apart(s) => Apart(s)'
  BY <1>0, <1>1, RemoveCalls DEF Done, TournamentTypeOK
<1>3. \A u, s : JoinsPaid(u, s) \in Nat
  BY <1>1, JoinsAre DEF TournamentTypeOK
<1>4. Running = Others(i) \cup {c}
  BY <1>0, <1>1, RunningAre
<1>5. /\ \A u, s : Entries(u, s)' = Entries(u, s)
      /\ \A u, kind, s : Posted(u, kind, s)' = Posted(u, kind, s)
  BY SamePosted DEF Entries
<1>6. \A s \in Tournaments \ {t} : Kept(s)
  <2> TAKE s \in Tournaments \ {t}
  <2>1. \A u : c \notin PaidJoins(u, s)
    BY <1>0 DEF PaidJoins
  <2> QED
    BY <1>2, <1>3, <1>5, <2>1 DEF Kept
<1>7. TournamentTypeOK'
  BY <1>0, <1>1, <1>2 DEF TournamentTypeOK
<1>8. RowsOK(t)'
  <2>1. ASSUME NEW u \in Users, tournament[t].fee > 0
        PROVE  Entries(u, t) + JoinsPaid(u, t)' <= Posted(u, "TOURNAMENT_ENTRY", t)
    <3>1. Entries(u, t) + JoinsPaid(u, t) <= Posted(u, "TOURNAMENT_ENTRY", t)
      BY <1>1, <2>1 DEF RowsOK
    <3>2. Entries(u, t) \in Nat /\ Posted(u, "TOURNAMENT_ENTRY", t) \in Nat
      BY <1>1, EntriesAre, PostedNat
    <3>3. JoinsPaid(u, t) \in Nat /\ (JoinsPaid(u, t)' = JoinsPaid(u, t) \/ JoinsPaid(u, t)' = JoinsPaid(u, t) - 1)
      BY <1>2, <1>3
    <3> QED
      BY <3>1, <3>2, <3>3
  <2> QED
    BY <1>1, <1>5, <2>1 DEF RowsOK
<1>9. Grown(t)
  BY <1>0, <1>1, <1>5 DEF Grown, CallOK
<1> QED
  BY <1>0, <1>1, <1>2, <1>4, <1>6, <1>7, <1>8, <1>9, OnOneTournament

\* Where a place is, there is one.
LEMMA SomePlace ==
    ASSUME NEW S, NEW s \in Seq(S), NEW k \in DOMAIN s
    PROVE  HowMany(s, {s[k]}) > 0
<1>1. IsFiniteSet(Places(s, {s[k]})) /\ HowMany(s, {s[k]}) \in Nat
  BY PlacesFinite
<1>2. k \in Places(s, {s[k]})
  BY DEF Places
<1>3. Cardinality(Places(s, {s[k]})) # 0
  BY <1>1, <1>2, FS_EmptySet
<1> QED
  BY <1>1, <1>3 DEF HowMany

LEMMA PayEntryOK ==
    ASSUME TournamentInv, WalletTypeOK, BalancesOK, NEW i \in DOMAIN calls, PayEntry(i)
    PROVE  TournamentInv' /\ BalancesOK'
<1>0. PICK c, t, u : c = calls[i] /\ t = c.t /\ u = c.who
  OBVIOUS
<1>1. /\ c \in Call /\ t \in Tournaments /\ c \in Running /\ CallOK(c) /\ RowsOK(t)
      /\ TournamentTypeOK /\ c.row.fee \in Nat
  BY <1>0, CallIs DEF TournamentInv
<1>2. /\ c.op = "join" /\ c.at = "read" /\ c.row.fee > 0 /\ u \in Users
      /\ UNCHANGED <<tournament, entrants, disturbed>>
  BY <1>0, <1>1 DEF PayEntry, CallOK
<1>3. CASE wallet[c.who] < c.row.fee /\ Done(i) /\ UNCHANGED walletVars
  <2>1. TournamentInv'
    BY <1>0, <1>2, <1>3, EarlyEndOK
  <2> QED
    BY <1>2, <1>3, <2>1, SameBalances
<1>4. CASE /\ Debit(c.who, wallet[c.who], c.row.fee, "TOURNAMENT_ENTRY", c.t)
           /\ calls' = [calls EXCEPT ![i].at = "paid"]
  <2>0. PICK d, amount : d = [c EXCEPT !.at = "paid"] /\ amount = -c.row.fee
    OBVIOUS
  <2>1. /\ d \in Call /\ d.op = "join" /\ d.t = t /\ d.who = u /\ d.at = "paid"
        /\ d.row = c.row /\ d.todo = c.todo /\ d.seen = c.seen
    BY <1>0, <1>1, <1>2, <2>0 DEF Call
  <2>2. /\ calls' \in Seq(Call) /\ DOMAIN calls' = DOMAIN calls
        /\ calls'[i] = d /\ \A k \in DOMAIN calls : k # i => calls'[k] = calls[k]
    <3>1. calls \in Seq(Call)
      BY <1>1 DEF TournamentTypeOK
    <3>2. calls' = [calls EXCEPT ![i] = d]
      BY <1>0, <1>4, <2>0
    <3> QED
      BY <2>1, <3>1, <3>2
  <2>3. /\ Running' = Others(i) \cup {d}
        /\ \A v, s : JoinsPaid(v, s)' =
              JoinsPaid(v, s) - (IF c \in PaidJoins(v, s) THEN 1 ELSE 0)
                              + (IF d \in PaidJoins(v, s) THEN 1 ELSE 0)
        /\ \A s : Apart(s) => Apart(s)'
    BY <1>0, <1>1, <1>2, <2>1, <2>2, ChangeCalls DEF TournamentTypeOK
  <2>4. \A v, s : JoinsPaid(v, s)' = JoinsPaid(v, s) + (IF v = u /\ s = t THEN 1 ELSE 0)
    <3> TAKE v, s
    <3>1. c \notin PaidJoins(v, s) /\ (d \in PaidJoins(v, s) <=> v = u /\ s = t)
      BY <1>2, <2>1 DEF PaidJoins
    <3>2. JoinsPaid(v, s) \in Nat
      BY <1>1, JoinsAre DEF TournamentTypeOK
    <3> QED
      BY <2>3, <3>1, <3>2
  <2>5. /\ Post(u, wallet[u], amount, "TOURNAMENT_ENTRY", t)
        /\ wallet[u] \in Nat /\ amount \in Int /\ wallet[u] + amount >= 0
        /\ "TOURNAMENT_ENTRY" \in RowTypes /\ t \in Refs
    BY <1>0, <1>1, <1>2, <1>4, <2>0, TournamentAssumption DEF Debit, WalletTypeOK, RowTypes
  <2>6. \A v \in Users : \A kind, s : Posted(v, kind, s)' =
          Posted(v, kind, s) + (IF v = u /\ kind = "TOURNAMENT_ENTRY" /\ s = t THEN 1 ELSE 0)
    <3> TAKE v \in Users
    <3> TAKE kind, s
    <3> QED
      BY <1>2, <2>5, PostCounts
  <2>7. \A v \in Users : \A kind, s : Posted(v, kind, s) \in Nat
    BY PostedNat
  <2>8. Running = Others(i) \cup {c}
    BY <1>0, <1>1, RunningAre
  <2>9. \A v, s : Entries(v, s)' = Entries(v, s)
    BY <1>2 DEF Entries
  <2>10. \A s \in Tournaments \ {t} : Kept(s)
    <3> TAKE s \in Tournaments \ {t}
    <3>1. \A v : JoinsPaid(v, s)' = JoinsPaid(v, s)
      BY <2>4, <1>1, JoinsAre DEF TournamentTypeOK
    <3> QED
      BY <1>2, <2>6, <2>7, <3>1 DEF Kept
  <2>11. TournamentTypeOK'
    BY <1>1, <1>2, <2>2 DEF TournamentTypeOK
  <2>12. \A v \in Users :
           /\ Posted(v, "REFUND", t)' = Posted(v, "REFUND", t)
           /\ Posted(v, "TOURNAMENT_PRIZE", t)' = Posted(v, "TOURNAMENT_PRIZE", t)
    BY <2>6, <2>7
  <2>13. Grown(t)
    BY <1>0, <1>1, <1>2, <2>9, <2>12 DEF Grown, CallOK
  <2>14. CallOK(d)'
    <3>1. CallOK(c)'
      BY <1>0, <1>1, <2>13, CallStays
    <3> QED
      BY <1>0, <1>2, <2>1, <3>1 DEF CallOK
  <2>15. \A v \in Users : \E n \in Nat :
           /\ Posted(v, "TOURNAMENT_ENTRY", t)' = Posted(v, "TOURNAMENT_ENTRY", t) + n
           /\ JoinsPaid(v, t)' = JoinsPaid(v, t) + n
    <3> TAKE v \in Users
    <3>1. CASE v = u
      BY <2>4, <2>6, <3>1
    <3>2. CASE v # u
      BY <2>4, <2>6, <3>2
    <3> QED
      BY <3>1, <3>2
  <2>16. \A v \in Users : /\ Entries(v, t) \in Nat /\ JoinsPaid(v, t) \in Nat
                          /\ Posted(v, "TOURNAMENT_ENTRY", t) \in Nat
    BY <1>1, <2>7, EntriesAre, JoinsAre DEF TournamentTypeOK
  <2>17. RowsOK(t)'
    <3>1. tournament[t].status # "none"
      BY <1>0, <1>1 DEF CallOK
    <3>2. ASSUME NEW v \in Users, tournament[t].fee > 0
          PROVE  Entries(v, t) + JoinsPaid(v, t)' <= Posted(v, "TOURNAMENT_ENTRY", t)'
      <4>1. Entries(v, t) + JoinsPaid(v, t) <= Posted(v, "TOURNAMENT_ENTRY", t)
        BY <1>1, <3>2 DEF RowsOK
      <4> QED
        BY <2>15, <2>16, <4>1
    <3> QED
      BY <1>1, <1>2, <2>9, <2>12, <3>1, <3>2 DEF RowsOK
  <2>18. t \notin disturbed' => CalmOK(t)'
    <3> SUFFICES ASSUME t \notin disturbed PROVE CalmOK(t)'
      BY <1>2
    <3>1. CalmOK(t) /\ CalmCall(c) /\ Apart(t)'
      BY <1>0, <2>3, CallIs DEF CalmOK
    <3>2. \A e \in Running' : e.t = t => CalmCall(e)'
      <4> SUFFICES ASSUME NEW e \in Running', e.t = t PROVE CalmCall(e)'
        OBVIOUS
      <4>1. CASE e = d
        BY <1>0, <1>2, <2>1, <2>9, <3>1, <4>1 DEF CalmCall
      <4>2. CASE e \in Others(i)
        <5>1. CalmCall(e)
          BY <1>0, <4>2, TheOthers
        <5> QED
          BY <1>2, <2>9, <2>12, <5>1 DEF CalmCall, Open
      <4> QED
        BY <2>3, <4>1, <4>2
    <3>3. HalfWay("cancel", t)' = HalfWay("cancel", t)
      BY <1>0, <1>2, <2>1, <2>2 DEF HalfWay
    <3>4. PaidExactly(t)'
      <4>1. ASSUME NEW v \in Users PROVE PaidTo(v, t)'
        <5>1. PaidTo(v, t)
          BY <3>1, PaidIs DEF CalmOK
        <5>2. tournament[t].fee > 0 =>
                Posted(v, "TOURNAMENT_ENTRY", t)' = Entries(v, t) + JoinsPaid(v, t)'
          BY <2>15, <2>16, <5>1 DEF PaidTo
        <5> QED
          BY <1>2, <2>9, <2>12, <3>3, <5>1, <5>2 DEF PaidTo
      <4> QED
        BY <4>1, PaidIs
    <3> QED
      BY <1>2, <3>1, <3>2, <3>4 DEF CalmOK
  <2>19. TournamentInv'
    BY <1>0, <1>1, <1>2, <2>1, <2>3, <2>8, <2>10, <2>11, <2>13, <2>14, <2>17, <2>18,
       OnOneTournament
  <2>20. BalancesOK'
    BY <1>2, <2>5, PostBalances
  <2> QED
    BY <2>19, <2>20
<1> QED
  BY <1>0, <1>3, <1>4 DEF PayEntry

LEMMA EntriesWillBe ==
    ASSUME entrants' \in [Tournaments -> Seq(Users)], NEW t \in Tournaments, NEW u
    PROVE  Entries(u, t)' = HowMany(entrants'[t], {u})
<1>1. {i \in DOMAIN entrants'[t] : entrants'[t][i] = u} = Places(entrants'[t], {u})
  BY DEF Places
<1> QED
  BY <1>1 DEF Entries, HowMany

\* One more participant.
LEMMA OneMoreEntry ==
    ASSUME TournamentTypeOK, NEW t \in Tournaments, NEW u \in Users,
           entrants' = [entrants EXCEPT ![t] = Append(@, u)]
    PROVE  /\ entrants' \in [Tournaments -> Seq(Users)]
           /\ \A s \in Tournaments \ {t} : entrants'[s] = entrants[s]
           /\ \A v : Entries(v, t)' = Entries(v, t) + (IF v = u THEN 1 ELSE 0)
<1>1. entrants \in [Tournaments -> Seq(Users)]
  BY DEF TournamentTypeOK
<1>2. /\ entrants' \in [Tournaments -> Seq(Users)]
      /\ \A s \in Tournaments : s # t => entrants'[s] = entrants[s]
      /\ Len(entrants'[t]) = Len(entrants[t]) + 1
      /\ \A i \in 1..Len(entrants[t]) : entrants'[t][i] = entrants[t][i]
      /\ entrants'[t][Len(entrants[t]) + 1] = u
  BY <1>1, AppendRow
<1>3. PICK s, m : s = entrants[t] /\ m = entrants'[t]
  OBVIOUS
<1>4. /\ s \in Seq(Users) /\ m \in Seq(Users) /\ Len(m) = Len(s) + 1
      /\ \A i \in 1..Len(s) : m[i] = s[i]
      /\ m[Len(s) + 1] = u
  BY <1>1, <1>2, <1>3
<1>5. ASSUME NEW v PROVE Entries(v, t)' = Entries(v, t) + (IF v = u THEN 1 ELSE 0)
  <2>1. Entries(v, t) = HowMany(s, {v}) /\ Entries(v, t)' = HowMany(m, {v})
    BY <1>2, <1>3, EntriesAre, EntriesWillBe
  <2>2. HowMany(m, {v}) = HowMany(s, {v}) + (IF m[Len(s) + 1] \in {v} THEN 1 ELSE 0)
    BY <1>4, PlacesAppend
  <2> QED
    BY <1>4, <2>1, <2>2
<1> QED
  BY <1>2, <1>5

LEMMA AddParticipantOK ==
    ASSUME TournamentInv, WalletTypeOK, NEW i \in DOMAIN calls, AddParticipant(i)
    PROVE  TournamentInv'
<1>0. PICK c, t, u : c = calls[i] /\ t = c.t /\ u = c.who
  OBVIOUS
<1>1. /\ c \in Call /\ t \in Tournaments /\ c \in Running /\ CallOK(c) /\ RowsOK(t)
      /\ TournamentTypeOK /\ c.row.fee = tournament[t].fee /\ tournament[t].status # "none"
  BY <1>0, CallIs DEF TournamentInv, CallOK
<1>2. /\ c.op = "join" /\ u \in Users
      /\ c.at = "paid" \/ tournament[t].fee = 0
      /\ entrants' = [entrants EXCEPT ![t] = Append(@, u)]
      /\ Done(i)
      /\ UNCHANGED <<walletVars, tournament, disturbed>>
  BY <1>0, <1>1 DEF AddParticipant, CallOK
<1>3. /\ entrants' \in [Tournaments -> Seq(Users)]
      /\ \A s \in Tournaments \ {t} : entrants'[s] = entrants[s]
      /\ \A v : Entries(v, t)' = Entries(v, t) + (IF v = u THEN 1 ELSE 0)
  BY <1>1, <1>2, OneMoreEntry
<1>4. /\ calls' \in Seq(Call)
      /\ Running' = Others(i)
      /\ \A v, s : JoinsPaid(v, s)' =
            JoinsPaid(v, s) - (IF c \in PaidJoins(v, s) THEN 1 ELSE 0)
      /\ \A s : Apart(s) => Apart(s)'
  BY <1>0, <1>1, <1>2, RemoveCalls DEF Done, TournamentTypeOK
<1>5. \A v \in Users : /\ Entries(v, t) \in Nat /\ JoinsPaid(v, t) \in Nat
                       /\ Posted(v, "TOURNAMENT_ENTRY", t) \in Nat
  BY <1>1, PostedNat, EntriesAre, JoinsAre DEF TournamentTypeOK
<1>6. /\ \A v : c \in PaidJoins(v, t) <=> v = u /\ c.at # "read"
      /\ \A v : \A s \in Tournaments \ {t} : c \notin PaidJoins(v, s)
  BY <1>0, <1>1, <1>2 DEF PaidJoins
<1>7. \A v, kind, s : Posted(v, kind, s)' = Posted(v, kind, s)
  BY <1>2, SamePosted
<1>8. Running = Others(i) \cup {c}
  BY <1>0, <1>1, RunningAre
<1>9. \A s \in Tournaments \ {t} : Kept(s)
  <2> TAKE s \in Tournaments \ {t}
  <2>1. \A v : JoinsPaid(v, s)' = JoinsPaid(v, s)
    BY <1>1, <1>4, <1>6, JoinsAre DEF TournamentTypeOK
  <2> QED
    BY <1>2, <1>3, <1>7, <2>1 DEF Kept
<1>10. TournamentTypeOK'
  BY <1>1, <1>2, <1>3, <1>4 DEF TournamentTypeOK
<1>11. Grown(t)
  <2>1. \A v \in Users : Entries(v, t) > 0 => Entries(v, t)' > 0
    BY <1>3, <1>5
  <2> QED
    BY <1>1, <1>2, <1>7, <2>1 DEF Grown
<1>12. \A v \in Users : tournament[t].fee > 0 =>
         Entries(v, t)' + JoinsPaid(v, t)' = Entries(v, t) + JoinsPaid(v, t)
  <2> SUFFICES ASSUME NEW v \in Users, tournament[t].fee > 0
               PROVE  Entries(v, t)' + JoinsPaid(v, t)' = Entries(v, t) + JoinsPaid(v, t)
    OBVIOUS
  <2>1. c.at = "paid"
    BY <1>2
  <2>2. CASE v = u
    BY <1>3, <1>4, <1>5, <1>6, <2>1, <2>2
  <2>3. CASE v # u
    BY <1>3, <1>4, <1>5, <1>6, <2>3
  <2> QED
    BY <2>2, <2>3
<1>13. RowsOK(t)'
  <2>1. ASSUME NEW v \in Users
        PROVE  /\ tournament[t].fee > 0 =>
                    Entries(v, t)' + JoinsPaid(v, t)' <= Posted(v, "TOURNAMENT_ENTRY", t)
               /\ Posted(v, "REFUND", t) + Posted(v, "TOURNAMENT_PRIZE", t) > 0
                     => Entries(v, t)' > 0
    <3>1. tournament[t].fee > 0 =>
            Entries(v, t) + JoinsPaid(v, t) <= Posted(v, "TOURNAMENT_ENTRY", t)
      BY <1>1 DEF RowsOK
    <3>2. Posted(v, "REFUND", t) + Posted(v, "TOURNAMENT_PRIZE", t) > 0 => Entries(v, t) > 0
      BY <1>1 DEF RowsOK
    <3>3. Entries(v, t) > 0 => Entries(v, t)' > 0
      BY <1>3, <1>5
    <3> QED
      BY <1>12, <3>1, <3>2, <3>3
  <2> QED
    BY <1>1, <1>2, <1>7, <2>1 DEF RowsOK
<1>14. t \notin disturbed' => CalmOK(t)'
  <2> SUFFICES ASSUME t \notin disturbed PROVE CalmOK(t)'
    BY <1>2
  <2>1. CalmOK(t) /\ CalmCall(c) /\ Apart(t)'
    BY <1>0, <1>4, CallIs DEF CalmOK
  <2>2. Entries(u, t) = 0 /\ tournament[t].status # "CANCELLED"
    BY <1>0, <1>2, <2>1 DEF CalmCall
  <2>3. ASSUME NEW e \in Others(i), e.t = t
        PROVE  e.op # "cancel" /\ CalmCall(e)'
    <3>1. /\ CalmCall(e) /\ CallOK(e) /\ e.op # "cancel"
          /\ e.op = "join" => e.who # u
      BY <1>0, <1>2, <2>3, TheOthers
    <3>2. e.at # "refund" /\ (e.op = "join" => e.who \in Users)
      BY <3>1 DEF CallOK
    <3> QED
      BY <1>2, <1>3, <1>5, <2>3, <3>1, <3>2 DEF CalmCall, Open
  <2>4. HalfWay("cancel", t) = {}
    <3>1. \A e \in Running : e.t = t => e.op # "cancel"
      BY <1>2, <1>8, <2>3
    <3> QED
      BY <3>1 DEF HalfWay, Running
  <2>5. PaidExactly(t)'
    <3>1. ASSUME NEW v \in Users PROVE PaidTo(v, t)'
      <4>1. PaidTo(v, t)
        BY <2>1, PaidIs DEF CalmOK
      <4>2. Entries(v, t)' <= 1
        BY <1>3, <1>5, <2>2, <4>1 DEF PaidTo
      <4>3. tournament[t].fee > 0 =>
              Posted(v, "TOURNAMENT_ENTRY", t) = Entries(v, t)' + JoinsPaid(v, t)'
        BY <1>12, <4>1 DEF PaidTo
      <4> QED
        BY <1>2, <1>7, <2>2, <2>4, <4>1, <4>2, <4>3 DEF PaidTo
    <3> QED
      BY <3>1, PaidIs
  <2> QED
    BY <1>2, <1>4, <2>1, <2>3, <2>5 DEF CalmOK
<1> QED
  BY <1>0, <1>1, <1>2, <1>4, <1>8, <1>9, <1>10, <1>11, <1>13, <1>14, OnOneTournament

\* A call that writes the status of its tournament and ends, without a posting.
LEMMA FlushTypes ==
    ASSUME TournamentTypeOK, NEW i \in DOMAIN calls, NEW c, c = calls[i], c.t \in Tournaments,
           NEW status \in TournamentStatuses, NEW winner \in Users \cup {Nobody},
           Flush(c, status, winner)
    PROVE  /\ tournament' \in [Tournaments -> TournamentRow]
           /\ tournament'[c.t].status = status
           /\ tournament'[c.t].fee = tournament[c.t].fee
           /\ tournament'[c.t].prize = tournament[c.t].prize
           /\ tournament'[c.t].winner = IF winner = c.row.winner THEN tournament[c.t].winner
                                                                ELSE winner
           /\ \A s \in Tournaments \ {c.t} : tournament'[s] = tournament[s]
<1>1. tournament \in [Tournaments -> TournamentRow]
  BY DEF TournamentTypeOK
<1>2. PICK old, new : /\ old = tournament[c.t]
                      /\ new = IF winner = c.row.winner THEN old.winner ELSE winner
  OBVIOUS
<1>3. PICK row : row = [old EXCEPT !.status = status, !.winner = new]
  OBVIOUS
<1>4. old \in TournamentRow /\ new \in Users \cup {Nobody}
  <2>1. old \in TournamentRow
    BY <1>1, <1>2
  <2> QED
    BY <1>2, <2>1 DEF TournamentRow
<1>5. /\ row \in TournamentRow
      /\ row.status = status /\ row.fee = old.fee /\ row.prize = old.prize /\ row.winner = new
  BY <1>3, <1>4 DEF TournamentRow
<1>6. tournament' = [tournament EXCEPT ![c.t] = row]
  BY <1>1, <1>2, <1>3 DEF Flush
<1> QED
  BY <1>1, <1>2, <1>5, <1>6

\* What the end of a call of the admins leaves to the other calls.
LEMMA AdminCallEnds ==
    ASSUME TournamentInv, NEW i \in DOMAIN calls, NEW c, c = calls[i], c.op # "join", Done(i)
    PROVE  /\ calls' \in Seq(Call)
           /\ Running' = Others(i)
           /\ Running = Others(i) \cup {c}
           /\ \A u, s : JoinsPaid(u, s)' = JoinsPaid(u, s)
           /\ \A s : Apart(s) => Apart(s)'
<1>1. TournamentTypeOK /\ c \in Call
  BY CallIs DEF TournamentInv
<1>2. /\ calls' \in Seq(Call)
      /\ Running' = Others(i)
      /\ \A u, s : JoinsPaid(u, s)' =
            JoinsPaid(u, s) - (IF c \in PaidJoins(u, s) THEN 1 ELSE 0)
      /\ \A s : Apart(s) => Apart(s)'
  BY <1>1, RemoveCalls DEF Done, TournamentTypeOK
<1>3. \A u, s : JoinsPaid(u, s)' = JoinsPaid(u, s)
  <2> TAKE u, s
  <2>1. c \notin PaidJoins(u, s)
    BY DEF PaidJoins
  <2>2. JoinsPaid(u, s) \in Nat
    BY <1>1, JoinsAre DEF TournamentTypeOK
  <2> QED
    BY <1>2, <2>1, <2>2
<1> QED
  BY <1>1, <1>2, <1>3, RunningAre

LEMMA NobodyIsNoUser ==
    ASSUME NEW u \in Users
    PROVE  u # Nobody
BY TournamentAssumption

LEMMA EndNowOK ==
    ASSUME TournamentInv, NEW i \in DOMAIN calls, EndNow(i)
    PROVE  TournamentInv'
<1>0. PICK c, t : c = calls[i] /\ t = c.t
  OBVIOUS
<1>1. /\ c \in Call /\ t \in Tournaments /\ c \in Running /\ CallOK(c) /\ RowsOK(t)
      /\ TournamentTypeOK /\ tournament[t].status # "none"
  BY <1>0, CallIs DEF TournamentInv, CallOK
<1>2. /\ c.op = "end" /\ Done(i) /\ UNCHANGED <<walletVars, entrants, disturbed>>
      /\ Flush(c, "ENDED", c.row.winner)
  BY <1>0 DEF EndNow
<1>3. /\ tournament' \in [Tournaments -> TournamentRow]
      /\ tournament'[t].status = "ENDED"
      /\ tournament'[t].fee = tournament[t].fee
      /\ tournament'[t].prize = tournament[t].prize
      /\ tournament'[t].winner = tournament[t].winner
      /\ \A s \in Tournaments \ {t} : tournament'[s] = tournament[s]
  <2>1. c.row.winner \in Users \cup {Nobody} /\ "ENDED" \in TournamentStatuses
    BY <1>1 DEF Call, TournamentRow, TournamentStatuses
  <2> QED
    BY <1>0, <1>1, <1>2, <2>1, FlushTypes
<1>4. /\ calls' \in Seq(Call)
      /\ Running' = Others(i)
      /\ Running = Others(i) \cup {c}
      /\ \A u, s : JoinsPaid(u, s)' = JoinsPaid(u, s)
      /\ \A s : Apart(s) => Apart(s)'
  BY <1>0, <1>2, AdminCallEnds
<1>5. /\ \A u, s : Entries(u, s)' = Entries(u, s)
      /\ \A u, kind, s : Posted(u, kind, s)' = Posted(u, kind, s)
  BY <1>2, SamePosted DEF Entries
<1>6. \A s \in Tournaments \ {t} : Kept(s)
  BY <1>2, <1>3, <1>4, <1>5 DEF Kept
<1>7. TournamentTypeOK'
  BY <1>1, <1>2, <1>3, <1>4 DEF TournamentTypeOK
<1>8. RowsOK(t)'
  BY <1>1, <1>3, <1>4, <1>5 DEF RowsOK
<1>9. t \notin disturbed' => CalmOK(t)'
  <2> SUFFICES ASSUME t \notin disturbed PROVE CalmOK(t)'
    BY <1>2
  <2>1. CalmOK(t) /\ CalmCall(c) /\ Apart(t)' /\ Open(t) /\ tournament[t].winner = Nobody
    <3>1. CalmOK(t) /\ CalmCall(c)
      BY <1>0, <1>2, CallIs
    <3>2. Apart(t)' /\ Open(t)
      BY <1>0, <1>2, <1>4, <3>1 DEF CalmOK, CalmCall
    <3> QED
      BY <3>1, <3>2 DEF CalmOK, Open
  <2>2. ASSUME NEW e \in Others(i), e.t = t
        PROVE  e.op # "cancel" /\ CalmCall(e)'
    <3>1. CalmCall(e) /\ e.op \in {"end", "join"}
      BY <1>0, <1>2, <2>2, TheOthers
    <3>2. e.at # "refund"
      BY <1>0, <2>2, <3>1, TheOthers DEF CallOK
    <3> QED
      BY <1>3, <1>5, <2>2, <3>1, <3>2 DEF CalmCall, Open
  <2>3. HalfWay("cancel", t) = {}
    <3>1. \A e \in Running : e.t = t => e.op # "cancel"
      BY <1>2, <1>4, <2>2
    <3> QED
      BY <3>1 DEF HalfWay, Running
  <2>4. PaidExactly(t)'
    <3>1. ASSUME NEW v \in Users PROVE PaidTo(v, t)'
      <4>1. PaidTo(v, t)
        BY <2>1, PaidIs DEF CalmOK
      <4> QED
        BY <1>3, <1>4, <1>5, <2>1, <2>3, <4>1 DEF PaidTo, Open
    <3> QED
      BY <3>1, PaidIs
  <2> QED
    BY <1>3, <1>4, <2>1, <2>2, <2>4 DEF CalmOK
<1>10. Grown(t)
  BY <1>1, <1>3, <1>5 DEF Grown
<1> QED
  BY <1>0, <1>1, <1>2, <1>4, <1>6, <1>7, <1>8, <1>9, <1>10, OnOneTournament

LEMMA ReadParticipantsOK ==
    ASSUME TournamentInv, NEW i \in DOMAIN calls, ReadParticipants(i)
    PROVE  TournamentInv'
<1>0. PICK c, t : c = calls[i] /\ t = c.t
  OBVIOUS
<1>1. /\ c \in Call /\ t \in Tournaments /\ c \in Running /\ CallOK(c) /\ RowsOK(t)
      /\ TournamentTypeOK /\ tournament[t].status # "none"
      /\ c.row.fee = tournament[t].fee /\ c.row.fee \in Nat
  BY <1>0, CallIs DEF TournamentInv, CallOK
<1>2. PICK todo : todo = IF c.row.fee > 0 THEN entrants[t] ELSE <<>>
  OBVIOUS
<1>3. /\ c.op = "cancel" /\ c.at = "read"
      /\ calls' = [calls EXCEPT ![i].at = "refund", ![i].todo = todo]
      /\ UNCHANGED <<walletVars, tournament, entrants, disturbed>>
  BY <1>0, <1>2 DEF ReadParticipants
<1>4. todo \in Seq(Users) /\ (todo = <<>> \/ todo = entrants[t])
  BY <1>1, <1>2 DEF TournamentTypeOK
<1>5. PICK d : d = [c EXCEPT !.at = "refund", !.todo = todo]
  OBVIOUS
<1>6. /\ d \in Call /\ d.op = c.op /\ d.t = t /\ d.who = c.who /\ d.at = "refund"
      /\ d.row = c.row /\ d.todo = todo /\ d.seen = c.seen
  BY <1>0, <1>1, <1>4, <1>5 DEF Call
<1>7. /\ calls' \in Seq(Call) /\ DOMAIN calls' = DOMAIN calls
      /\ calls'[i] = d /\ \A k \in DOMAIN calls : k # i => calls'[k] = calls[k]
  <2>1. calls \in Seq(Call)
    BY <1>1 DEF TournamentTypeOK
  <2>2. calls' = [calls EXCEPT ![i] = d]
    BY <1>0, <1>3, <1>5
  <2> QED
    BY <1>6, <2>1, <2>2
<1>8. /\ Running' = Others(i) \cup {d}
      /\ \A v, s : JoinsPaid(v, s)' =
            JoinsPaid(v, s) - (IF c \in PaidJoins(v, s) THEN 1 ELSE 0)
                            + (IF d \in PaidJoins(v, s) THEN 1 ELSE 0)
      /\ \A s : Apart(s) => Apart(s)'
  BY <1>0, <1>1, <1>6, <1>7, ChangeCalls DEF TournamentTypeOK
<1>9. \A v, s : JoinsPaid(v, s)' = JoinsPaid(v, s)
  <2> TAKE v, s
  <2>1. c \notin PaidJoins(v, s) /\ d \notin PaidJoins(v, s)
    BY <1>3, <1>6 DEF PaidJoins
  <2>2. JoinsPaid(v, s) \in Nat
    BY <1>1, JoinsAre DEF TournamentTypeOK
  <2> QED
    BY <1>8, <2>1, <2>2
<1>10. Running = Others(i) \cup {c}
  BY <1>0, <1>1, RunningAre
<1>11. /\ \A u, s : Entries(u, s)' = Entries(u, s)
       /\ \A u, kind, s : Posted(u, kind, s)' = Posted(u, kind, s)
  BY <1>3, SamePosted DEF Entries
<1>12. \A s \in Tournaments : Kept(s)
  BY <1>3, <1>9, <1>11 DEF Kept
<1>13. TournamentTypeOK'
  BY <1>1, <1>3, <1>7 DEF TournamentTypeOK
<1>14. Grown(t)
  BY <1>1, <1>3, <1>11 DEF Grown
<1>15. CallOK(d)'
  <2>1. CallOK(c)'
    BY <1>0, <1>1, <1>14, CallStays
  <2>2. ASSUME NEW k \in DOMAIN todo PROVE Entries(todo[k], t) > 0
    <3>1. todo = entrants[t]
      BY <1>4, <2>2
    <3> QED
      BY <1>1, <3>1, SomePlace, EntriesAre, <1>4
  <2>3. d.todo # <<>> => c.row.fee > 0
    BY <1>2, <1>6
  <2> QED
    BY <1>0, <1>3, <1>6, <1>11, <2>1, <2>2, <2>3 DEF CallOK
<1>16. t \notin disturbed' => CalmOK(t)'
  <2> SUFFICES ASSUME t \notin disturbed PROVE CalmOK(t)'
    BY <1>3
  <2>1. CalmOK(t) /\ CalmCall(c) /\ Apart(t)' /\ Open(t) /\ c.row.winner = Nobody
    BY <1>0, <1>3, <1>8, CallIs DEF CalmOK, CalmCall
  <2>2. HalfWay("cancel", t) = {}
    <3>1. \A e \in Running : e.t = t => e = c
      BY <1>0, <1>3, <1>10, TheOthers
    <3> QED
      BY <1>3, <3>1 DEF HalfWay, Running
  <2>3. ASSUME NEW u \in Users
        PROVE  Posted(u, "REFUND", t) + HowMany(todo, {u}) =
                   IF tournament[t].fee > 0 THEN Entries(u, t) ELSE 0
    <3>1. Posted(u, "REFUND", t) = 0
      BY <2>1, <2>2, PaidIs DEF CalmOK, PaidTo, Open
    <3>2. Entries(u, t) = HowMany(entrants[t], {u}) /\ HowMany(todo, {u}) \in Nat
      BY <1>1, <1>4, EntriesAre, PlacesFinite
    <3>3. CASE tournament[t].fee > 0
      <4>1. todo = entrants[t]
        BY <1>1, <1>2, <3>3
      <4> QED
        BY <3>1, <3>2, <3>3, <4>1
    <3>4. CASE ~ (tournament[t].fee > 0)
      <4>1. todo = <<>>
        BY <1>1, <1>2, <3>4
      <4>2. Places(todo, {u}) = {}
        BY <4>1 DEF Places
      <4> QED
        BY <3>1, <3>4, <4>2, FS_EmptySet DEF HowMany
    <3> QED
      BY <3>3, <3>4
  <2>4. CalmCall(d)'
    BY <1>3, <1>6, <1>11, <2>1, <2>3 DEF CalmCall, Open
  <2> QED
    BY <1>1, <1>3, <1>8, <1>10, <1>12, <2>1, <2>4, KeptCalm
<1>17. RowsOK(t)'
  BY <1>1, <1>12, KeptRows
<1> QED
  BY <1>0, <1>1, <1>3, <1>6, <1>8, <1>10, <1>12, <1>13, <1>14, <1>15, <1>16, <1>17,
     OnOneTournament

LEMMA RefundOK ==
    ASSUME TournamentInv, WalletTypeOK, BalancesOK, NEW i \in DOMAIN calls, Refund(i)
    PROVE  TournamentInv' /\ BalancesOK'
<1>0. PICK c, t : c = calls[i] /\ t = c.t
  OBVIOUS
<1>1. /\ c \in Call /\ t \in Tournaments /\ c \in Running /\ CallOK(c) /\ RowsOK(t)
      /\ TournamentTypeOK /\ tournament[t].status # "none"
      /\ c.row.fee = tournament[t].fee /\ c.row.fee \in Nat
  BY <1>0, CallIs DEF TournamentInv, CallOK
<1>2. PICK u, fee, balance : /\ u = Head(c.todo) /\ fee = c.row.fee
                             /\ balance = IF c.seen[u] = Unloaded THEN wallet[u] ELSE c.seen[u]
  OBVIOUS
<1>3. /\ c.op = "cancel" /\ c.at = "refund" /\ c.todo # <<>>
      /\ Credit(u, balance, fee, "REFUND", t)
      /\ calls' = [calls EXCEPT ![i].todo = Tail(@), ![i].seen[u] = balance + fee]
      /\ UNCHANGED <<tournament, entrants, disturbed>>
  BY <1>0, <1>2 DEF Refund
<1>4. /\ c.todo \in Seq(Users) /\ u \in Users
      /\ Tail(c.todo) \in Seq(Users)
      /\ \A k \in DOMAIN Tail(c.todo) : \E j \in DOMAIN c.todo : Tail(c.todo)[k] = c.todo[j]
      /\ Entries(u, t) > 0
  <2>1. c.todo \in Seq(Users)
    BY <1>1 DEF Call
  <2>2. /\ Len(c.todo) \in Nat /\ Head(c.todo) = c.todo[1] /\ 1 \in DOMAIN c.todo
        /\ Tail(c.todo) \in Seq(Users) /\ Len(Tail(c.todo)) = Len(c.todo) - 1
        /\ \A k \in 1..(Len(c.todo) - 1) : Tail(c.todo)[k] = c.todo[k + 1]
    BY <1>3, <2>1, HeadTailProperties
  <2>3. \A k \in DOMAIN Tail(c.todo) : k + 1 \in DOMAIN c.todo /\ Tail(c.todo)[k] = c.todo[k + 1]
    BY <2>1, <2>2
  <2>4. Entries(c.todo[1], t) > 0
    BY <1>0, <1>1, <2>2 DEF CallOK
  <2> QED
    BY <1>2, <2>1, <2>2, <2>3, <2>4
<1>5. balance \in Nat /\ fee \in Nat /\ fee > 0
  <2>1. c.seen \in [Users -> Nat \cup {Unloaded}]
    BY <1>1 DEF Call
  <2>2. wallet[u] \in Nat
    BY <1>4 DEF WalletTypeOK
  <2>3. c.seen[u] \in Nat \cup {Unloaded}
    BY <1>4, <2>1
  <2> QED
    BY <1>1, <1>2, <1>3, <2>2, <2>3 DEF Credit
<1>6. PICK seen : seen = [c.seen EXCEPT ![u] = balance + fee]
  OBVIOUS
<1>7. PICK d : d = [c EXCEPT !.todo = Tail(c.todo), !.seen = seen]
  OBVIOUS
<1>8. /\ seen \in [Users -> Nat \cup {Unloaded}]
      /\ \A v \in Users : v # u => seen[v] = c.seen[v]
  <2>1. c.seen \in [Users -> Nat \cup {Unloaded}]
    BY <1>1 DEF Call
  <2>2. balance + fee \in Nat \cup {Unloaded}
    BY <1>5
  <2> QED
    BY <1>4, <1>6, <2>1, <2>2
<1>9. /\ d \in Call /\ d.op = c.op /\ d.t = t /\ d.who = c.who /\ d.at = "refund"
      /\ d.row = c.row /\ d.todo = Tail(c.todo) /\ d.seen = seen
  BY <1>0, <1>1, <1>3, <1>4, <1>7, <1>8 DEF Call
<1>10. /\ calls' \in Seq(Call) /\ DOMAIN calls' = DOMAIN calls
       /\ calls'[i] = d /\ \A k \in DOMAIN calls : k # i => calls'[k] = calls[k]
  <2>1. calls \in Seq(Call)
    BY <1>1 DEF TournamentTypeOK
  <2>2. calls' = [calls EXCEPT ![i] = d]
    BY <1>0, <1>3, <1>6, <1>7
  <2> QED
    BY <1>9, <2>1, <2>2
<1>11. /\ Running' = Others(i) \cup {d}
       /\ \A v, s : JoinsPaid(v, s)' =
             JoinsPaid(v, s) - (IF c \in PaidJoins(v, s) THEN 1 ELSE 0)
                             + (IF d \in PaidJoins(v, s) THEN 1 ELSE 0)
       /\ \A s : Apart(s) => Apart(s)'
  BY <1>0, <1>1, <1>9, <1>10, ChangeCalls DEF TournamentTypeOK
<1>12. \A v, s : JoinsPaid(v, s)' = JoinsPaid(v, s)
  <2> TAKE v, s
  <2>1. c \notin PaidJoins(v, s) /\ d \notin PaidJoins(v, s)
    BY <1>3, <1>9 DEF PaidJoins
  <2>2. JoinsPaid(v, s) \in Nat
    BY <1>1, JoinsAre DEF TournamentTypeOK
  <2> QED
    BY <1>11, <2>1, <2>2
<1>13. Running = Others(i) \cup {c}
  BY <1>0, <1>1, RunningAre
<1>14. \A v, s : Entries(v, s)' = Entries(v, s)
  BY <1>3 DEF Entries
<1>15. /\ Post(u, balance, fee, "REFUND", t)
       /\ fee \in Int /\ balance + fee >= 0
       /\ "REFUND" \in RowTypes /\ t \in Refs
  BY <1>1, <1>3, <1>5, TournamentAssumption DEF Credit, RowTypes
<1>16. \A v \in Users : \A kind, s : /\ Posted(v, kind, s) \in Nat
                                     /\ Posted(v, kind, s)' = Posted(v, kind, s) +
                                          (IF v = u /\ kind = "REFUND" /\ s = t THEN 1 ELSE 0)
  <2> TAKE v \in Users
  <2> TAKE kind, s
  <2>1. Posted(v, kind, s) \in Nat
    BY PostedNat
  <2>2. Posted(v, kind, s)' = Posted(v, kind, s) +
          (IF v = u /\ kind = "REFUND" /\ s = t THEN 1 ELSE 0)
    BY <1>4, <1>5, <1>15, PostCounts
  <2> QED
    BY <2>1, <2>2
<1>17. /\ Posted(u, "REFUND", t)' = Posted(u, "REFUND", t) + 1
       /\ \A v \in Users : v # u => Posted(v, "REFUND", t)' = Posted(v, "REFUND", t)
       /\ \A v \in Users : Posted(v, "TOURNAMENT_ENTRY", t)' = Posted(v, "TOURNAMENT_ENTRY", t)
       /\ \A v \in Users : Posted(v, "TOURNAMENT_PRIZE", t)' = Posted(v, "TOURNAMENT_PRIZE", t)
       /\ \A v \in Users : Posted(v, "REFUND", t) > 0 => Posted(v, "REFUND", t)' > 0
  BY <1>4, <1>16
<1>18. \A s \in Tournaments \ {t} : Kept(s)
  <2> TAKE s \in Tournaments \ {t}
  <2>1. \A v \in Users : \A kind : Posted(v, kind, s)' = Posted(v, kind, s)
    BY <1>16
  <2> QED
    BY <1>3, <1>12, <2>1 DEF Kept
<1>19. TournamentTypeOK'
  BY <1>1, <1>3, <1>10 DEF TournamentTypeOK
<1>20. Grown(t)
  BY <1>1, <1>3, <1>14, <1>17 DEF Grown
<1>21. CallOK(d)'
  <2>1. CallOK(c)'
    BY <1>0, <1>1, <1>20, CallStays
  <2>2. Posted(u, "REFUND", t)' > 0
    BY <1>4, <1>16, <1>17
  <2>3. \A v \in Users : d.seen[v] # Unloaded => Posted(v, "REFUND", t)' > 0
    BY <1>0, <1>8, <1>9, <2>1, <2>2 DEF CallOK
  <2>4. \A k \in DOMAIN d.todo : Entries(d.todo[k], t)' > 0
    BY <1>0, <1>4, <1>9, <2>1 DEF CallOK
  <2> QED
    BY <1>0, <1>3, <1>9, <2>1, <2>3, <2>4 DEF CallOK
<1>22. RowsOK(t)'
  <2>1. ASSUME NEW v \in Users, Posted(v, "REFUND", t)' + Posted(v, "TOURNAMENT_PRIZE", t) > 0
        PROVE  Entries(v, t) > 0
    <3>1. CASE v = u
      BY <1>4, <3>1
    <3>2. CASE v # u
      BY <1>1, <1>17, <2>1, <3>2 DEF RowsOK
    <3> QED
      BY <3>1, <3>2
  <2> QED
    BY <1>1, <1>3, <1>12, <1>14, <1>17, <2>1 DEF RowsOK
<1>23. ASSUME t \notin disturbed
       PROVE  CalmOK(t)' /\ c.seen[u] = Unloaded
  <2>1. CalmOK(t) /\ CalmCall(c) /\ Apart(t)'
    BY <1>0, <1>11, <1>23, CallIs DEF CalmOK
  <2>2. \A e \in Running' : e.t = t => e = d
    BY <1>0, <1>3, <1>11, <1>23, TheOthers
  <2>3. tournament[t].fee > 0
    BY <1>1, <1>2, <1>5
  <2>4. ASSUME NEW v \in Users
        PROVE  /\ Posted(v, "REFUND", t) + HowMany(c.todo, {v}) = Entries(v, t)
               /\ HowMany(c.todo, {v}) \in Nat
               /\ HowMany(Tail(c.todo), {v}) = HowMany(c.todo, {v}) - (IF v = u THEN 1 ELSE 0)
    <3>1. Posted(v, "REFUND", t) + HowMany(c.todo, {v}) = Entries(v, t)
      BY <1>0, <1>3, <2>1, <2>3 DEF CalmCall
    <3>2. HowMany(Tail(c.todo), {v}) =
            HowMany(c.todo, {v}) - (IF Head(c.todo) \in {v} THEN 1 ELSE 0)
      BY <1>3, <1>4, PlacesTail
    <3> QED
      BY <1>2, <1>4, <3>1, <3>2, PlacesFinite
  <2>5. ASSUME NEW v \in Users
        PROVE  Posted(v, "REFUND", t)' + HowMany(Tail(c.todo), {v}) = Entries(v, t)
    <3>1. CASE v = u
      <4>1. /\ Posted(v, "REFUND", t) + HowMany(c.todo, {v}) = Entries(v, t)
            /\ HowMany(c.todo, {v}) \in Nat
            /\ HowMany(Tail(c.todo), {v}) = HowMany(c.todo, {v}) - 1
        BY <2>4, <3>1
      <4>2. Posted(v, "REFUND", t) \in Nat /\ Posted(v, "REFUND", t)' = Posted(v, "REFUND", t) + 1
        BY <1>16, <1>17, <3>1
      <4> QED
        BY <4>1, <4>2
    <3>2. CASE v # u
      <4>1. /\ Posted(v, "REFUND", t) + HowMany(c.todo, {v}) = Entries(v, t)
            /\ HowMany(c.todo, {v}) \in Nat
            /\ HowMany(Tail(c.todo), {v}) = HowMany(c.todo, {v}) - 0
        BY <2>4, <3>2
      <4>2. Posted(v, "REFUND", t)' = Posted(v, "REFUND", t)
        BY <1>17, <3>2
      <4> QED
        BY <4>1, <4>2
    <3> QED
      BY <3>1, <3>2
  <2>6. CalmCall(d)'
    BY <1>0, <1>3, <1>9, <1>14, <2>1, <2>3, <2>5 DEF CalmCall, Open
  <2>7. HalfWay("cancel", t)' # {}
    <3>1. i \in DOMAIN calls' /\ calls'[i] = d
      BY <1>10
    <3> QED
      BY <1>3, <1>9, <3>1 DEF HalfWay
  <2>8. PaidExactly(t)'
    <3>1. ASSUME NEW v \in Users PROVE PaidTo(v, t)'
      <4>1. PaidTo(v, t)
        BY <2>1, PaidIs DEF CalmOK
      <4> QED
        BY <1>3, <1>12, <1>14, <1>17, <2>7, <4>1 DEF PaidTo
    <3> QED
      BY <3>1, PaidIs
  <2>9. c.seen[u] = Unloaded
    <3>1. HowMany(c.todo, {u}) > 0
      BY <1>2, <1>3, <1>4, SomePlace, HeadTailProperties
    <3>2. Entries(u, t) <= 1 /\ Entries(u, t) \in Nat
      BY <1>1, <1>4, <2>1, PaidIs, EntriesAre DEF CalmOK, PaidTo
    <3>3. Posted(u, "REFUND", t) = 0
      BY <1>4, <1>16, <2>4, <3>1, <3>2
    <3> QED
      BY <1>0, <1>1, <1>4, <3>3 DEF CallOK
  <2> QED
    BY <1>3, <2>1, <2>2, <2>6, <2>8, <2>9 DEF CalmOK
<1>24. TournamentInv'
  BY <1>0, <1>1, <1>3, <1>9, <1>11, <1>13, <1>18, <1>19, <1>20, <1>21, <1>22, <1>23,
     OnOneTournament
<1>25. BalancesOK'
  <2>1. disturbed = {} => balance = wallet[u]
    BY <1>2, <1>23
  <2> QED
    BY <1>3, <1>4, <1>5, <1>15, <2>1, PostBalances
<1> QED
  BY <1>24, <1>25

LEMMA CancelledOK ==
    ASSUME TournamentInv, WalletTypeOK, NEW i \in DOMAIN calls, Cancelled(i)
    PROVE  TournamentInv'
<1>0. PICK c, t : c = calls[i] /\ t = c.t
  OBVIOUS
<1>1. /\ c \in Call /\ t \in Tournaments /\ c \in Running /\ CallOK(c) /\ RowsOK(t)
      /\ TournamentTypeOK /\ tournament[t].status # "none"
  BY <1>0, CallIs DEF TournamentInv, CallOK
<1>2. /\ c.op = "cancel" /\ c.at = "refund" /\ c.todo = <<>>
      /\ Done(i) /\ UNCHANGED <<walletVars, entrants, disturbed>>
      /\ Flush(c, "CANCELLED", c.row.winner)
  BY <1>0 DEF Cancelled
<1>3. /\ tournament' \in [Tournaments -> TournamentRow]
      /\ tournament'[t].status = "CANCELLED"
      /\ tournament'[t].fee = tournament[t].fee
      /\ tournament'[t].prize = tournament[t].prize
      /\ tournament'[t].winner = tournament[t].winner
      /\ \A s \in Tournaments \ {t} : tournament'[s] = tournament[s]
  <2>1. c.row.winner \in Users \cup {Nobody} /\ "CANCELLED" \in TournamentStatuses
    BY <1>1 DEF Call, TournamentRow, TournamentStatuses
  <2> QED
    BY <1>0, <1>1, <1>2, <2>1, FlushTypes
<1>4. /\ calls' \in Seq(Call)
      /\ Running' = Others(i)
      /\ Running = Others(i) \cup {c}
      /\ \A u, s : JoinsPaid(u, s)' = JoinsPaid(u, s)
      /\ \A s : Apart(s) => Apart(s)'
  BY <1>0, <1>2, AdminCallEnds
<1>5. /\ \A u, s : Entries(u, s)' = Entries(u, s)
      /\ \A u, kind, s : Posted(u, kind, s)' = Posted(u, kind, s)
  BY <1>2, SamePosted DEF Entries
<1>6. \A s \in Tournaments \ {t} : Kept(s)
  BY <1>2, <1>3, <1>4, <1>5 DEF Kept
<1>7. TournamentTypeOK'
  BY <1>1, <1>2, <1>3, <1>4 DEF TournamentTypeOK
<1>8. RowsOK(t)'
  BY <1>1, <1>3, <1>4, <1>5 DEF RowsOK
<1>9. t \notin disturbed' => CalmOK(t)'
  <2> SUFFICES ASSUME t \notin disturbed PROVE CalmOK(t)'
    BY <1>2
  <2>1. CalmOK(t) /\ CalmCall(c) /\ Apart(t)' /\ Open(t) /\ tournament[t].winner = Nobody
    <3>1. CalmOK(t) /\ CalmCall(c)
      BY <1>0, <1>2, CallIs
    <3>2. Apart(t)' /\ Open(t)
      BY <1>0, <1>2, <1>4, <3>1 DEF CalmOK, CalmCall
    <3> QED
      BY <3>1, <3>2 DEF CalmOK, Open
  <2>2. \A e \in Running' : e.t # t
    BY <1>0, <1>2, <1>4, TheOthers
  <2>3. ASSUME NEW v \in Users
        PROVE  Posted(v, "REFUND", t) = IF tournament[t].fee > 0 THEN Entries(v, t) ELSE 0
    <3>1. Places(c.todo, {v}) = {}
      BY <1>2 DEF Places
    <3>2. HowMany(c.todo, {v}) = 0
      BY <3>1, FS_EmptySet DEF HowMany
    <3>3. Posted(v, "REFUND", t) + HowMany(c.todo, {v}) =
            IF tournament[t].fee > 0 THEN Entries(v, t) ELSE 0
      BY <1>0, <1>2, <2>1 DEF CalmCall
    <3>4. Posted(v, "REFUND", t) \in Nat
      BY PostedNat
    <3> QED
      BY <3>2, <3>3, <3>4
  <2>4. PaidExactly(t)'
    <3>1. ASSUME NEW v \in Users PROVE PaidTo(v, t)'
      <4>1. PaidTo(v, t)
        BY <2>1, PaidIs DEF CalmOK
      <4> QED
        BY <1>3, <1>4, <1>5, <2>1, <2>3, <4>1 DEF PaidTo, Open
    <3> QED
      BY <3>1, PaidIs
  <2> QED
    BY <1>3, <1>4, <2>1, <2>2, <2>4 DEF CalmOK
<1>10. Grown(t)
  BY <1>1, <1>3, <1>5 DEF Grown
<1> QED
  BY <1>0, <1>1, <1>2, <1>4, <1>6, <1>7, <1>8, <1>9, <1>10, OnOneTournament

LEMMA FirstOf ==
    ASSUME NEW n \in Nat, NEW B, B \subseteq 1..n, B # {}
    PROVE  \E i \in B : \A j \in B : i <= j
<1>1. PICK S, T : S = 1..n /\ T = {1..i : i \in B}
  OBVIOUS
<1>2. \A i \in B : i \in Nat /\ 1 <= i /\ i <= n
  OBVIOUS
<1>3. ASSUME NEW i \in B PROVE 1..i \subseteq 1..n
  BY <1>2
<1>4. IsFiniteSet(S)
  BY <1>1, FS_Interval
<1>5. T \subseteq SUBSET S /\ T # {}
  BY <1>1, <1>3
<1>6. PICK s \in T : \A r \in T : ~ (r \subseteq s /\ r # s)
  BY <1>4, <1>5, Least
<1>7. PICK i \in B : s = 1..i
  BY <1>1
<1>8. ASSUME NEW j \in B PROVE i <= j
  <2>1. i \in Nat /\ j \in Nat /\ 1 <= i /\ 1 <= j /\ 1..j \in T
    BY <1>1, <1>2
  <2>2. CASE j < i
    <3>1. 1..j \subseteq 1..i /\ i \in 1..i /\ i \notin 1..j
      BY <2>1, <2>2
    <3> QED
      BY <1>6, <1>7, <2>1, <3>1
  <2> QED
    BY <2>1, <2>2
<1> QED
  BY <1>8

\* The leader of a tournament, if there is one, takes part in it.
LEMMA LeaderTakesPart ==
    ASSUME NEW us \in Seq(Users), NEW score
    PROVE  \/ Leader(us, score) = Nobody
           \/ \E k \in DOMAIN us : us[k] = Leader(us, score)
<1> DEFINE best == {i \in DOMAIN us : \A j \in DOMAIN us : score[us[j]] <= score[us[i]]}
           first == CHOOSE i \in best : \A j \in best : i <= j
<1>1. best \subseteq 1..Len(us) /\ Len(us) \in Nat /\ DOMAIN us = 1..Len(us)
  OBVIOUS
<1>2. Leader(us, score) = IF best = {} \/ score[us[first]] = 0 THEN Nobody ELSE us[first]
  BY DEF Leader
<1> HIDE DEF best
<1>3. best # {} => first \in best
  BY <1>1, FirstOf
<1> HIDE DEF first
<1> QED
  BY <1>1, <1>2, <1>3

\* The winner is a participant, and nobody has settled this tournament before.
LEMMA PayPrizeOK ==
    ASSUME TournamentInv, WalletTypeOK, BalancesOK, NEW i \in DOMAIN calls, NEW score,
           PayPrize(i, score)
    PROVE  TournamentInv' /\ BalancesOK'
<1>0. PICK c, t : c = calls[i] /\ t = c.t
  OBVIOUS
<1>1. /\ c \in Call /\ t \in Tournaments /\ c \in Running /\ CallOK(c) /\ RowsOK(t)
      /\ TournamentTypeOK /\ tournament[t].status # "none"
      /\ c.row.prize = tournament[t].prize /\ c.row.prize \in Nat
  BY <1>0, CallIs DEF TournamentInv, CallOK
<1>2. PICK w, prize : w = Leader(entrants[t], score) /\ prize = c.row.prize
  OBVIOUS
<1>3. /\ c.op = "settle" /\ Done(i) /\ UNCHANGED <<entrants, disturbed>>
      /\ Flush(c, "SETTLED", w)
      /\ IF w # Nobody /\ prize > 0
         THEN Credit(w, wallet[w], prize, "TOURNAMENT_PRIZE", t)
         ELSE UNCHANGED walletVars
  BY <1>0, <1>2 DEF PayPrize
<1>4. /\ w \in Users \cup {Nobody}
      /\ w \in Users => w # Nobody /\ Entries(w, t) > 0
  <2>1. entrants[t] \in Seq(Users)
    BY <1>1 DEF TournamentTypeOK
  <2>2. CASE w = Nobody
    BY <2>2, NobodyIsNoUser
  <2>3. CASE w # Nobody
    <3>1. PICK k \in DOMAIN entrants[t] : entrants[t][k] = w
      BY <1>2, <2>1, <2>3, LeaderTakesPart
    <3>2. w \in Users
      BY <2>1, <3>1
    <3>3. HowMany(entrants[t], {w}) > 0
      BY <2>1, <3>1, SomePlace
    <3> QED
      BY <1>1, <2>3, <3>2, <3>3, EntriesAre
  <2> QED
    BY <2>2, <2>3
<1>5. /\ tournament' \in [Tournaments -> TournamentRow]
      /\ tournament'[t].status = "SETTLED"
      /\ tournament'[t].fee = tournament[t].fee
      /\ tournament'[t].prize = tournament[t].prize
      /\ tournament'[t].winner = IF w = c.row.winner THEN tournament[t].winner ELSE w
      /\ \A s \in Tournaments \ {t} : tournament'[s] = tournament[s]
  <2>1. "SETTLED" \in TournamentStatuses
    BY DEF TournamentStatuses
  <2> QED
    BY <1>0, <1>1, <1>3, <1>4, <2>1, FlushTypes
<1>6. /\ calls' \in Seq(Call)
      /\ Running' = Others(i)
      /\ Running = Others(i) \cup {c}
      /\ \A u, s : JoinsPaid(u, s)' = JoinsPaid(u, s)
      /\ \A s : Apart(s) => Apart(s)'
  BY <1>0, <1>3, AdminCallEnds
<1>7. \A u, s : Entries(u, s)' = Entries(u, s)
  BY <1>3 DEF Entries
<1>8. \A v \in Users : \A kind, s :
        /\ Posted(v, kind, s) \in Nat
        /\ Posted(v, kind, s)' = Posted(v, kind, s) +
             (IF v = w /\ prize > 0 /\ kind = "TOURNAMENT_PRIZE" /\ s = t THEN 1 ELSE 0)
  <2> TAKE v \in Users
  <2> TAKE kind, s
  <2>1. Posted(v, kind, s) \in Nat /\ v # Nobody
    BY PostedNat, NobodyIsNoUser
  <2>2. CASE w # Nobody /\ prize > 0
    <3>1. /\ Post(w, wallet[w], prize, "TOURNAMENT_PRIZE", t)
          /\ w \in Users /\ wallet[w] \in Nat /\ prize \in Int /\ wallet[w] + prize >= 0
          /\ "TOURNAMENT_PRIZE" \in RowTypes /\ t \in Refs
      BY <1>1, <1>2, <1>3, <1>4, <2>2, TournamentAssumption DEF Credit, WalletTypeOK, RowTypes
    <3>2. Posted(v, kind, s)' = Posted(v, kind, s) +
            (IF v = w /\ kind = "TOURNAMENT_PRIZE" /\ s = t THEN 1 ELSE 0)
      BY <3>1, PostCounts
    <3> QED
      BY <2>1, <2>2, <3>2
  <2>3. CASE ~ (w # Nobody /\ prize > 0)
    <3>1. Posted(v, kind, s)' = Posted(v, kind, s)
      BY <1>3, <2>3, SamePosted
    <3> QED
      BY <2>1, <2>3, <3>1
  <2> QED
    BY <2>2, <2>3
<1>9. BalancesOK'
  <2>1. CASE w # Nobody /\ prize > 0
    <3>1. /\ Post(w, wallet[w], prize, "TOURNAMENT_PRIZE", t)
          /\ w \in Users /\ wallet[w] \in Nat /\ prize \in Int /\ wallet[w] + prize >= 0
          /\ "TOURNAMENT_PRIZE" \in RowTypes /\ t \in Refs
      BY <1>1, <1>2, <1>3, <1>4, <2>1, TournamentAssumption DEF Credit, WalletTypeOK, RowTypes
    <3> QED
      BY <1>3, <3>1, PostBalances
  <2>2. CASE ~ (w # Nobody /\ prize > 0)
    BY <1>3, <2>2, SameBalances
  <2> QED
    BY <2>1, <2>2
<1>10. \A v \in Users :
         /\ Posted(v, "TOURNAMENT_ENTRY", t)' = Posted(v, "TOURNAMENT_ENTRY", t)
         /\ Posted(v, "REFUND", t)' = Posted(v, "REFUND", t)
         /\ v # w \/ ~ (prize > 0) =>
              Posted(v, "TOURNAMENT_PRIZE", t)' = Posted(v, "TOURNAMENT_PRIZE", t)
         /\ v = w /\ prize > 0 =>
              Posted(v, "TOURNAMENT_PRIZE", t)' = Posted(v, "TOURNAMENT_PRIZE", t) + 1
         /\ Posted(v, "TOURNAMENT_PRIZE", t) \in Nat
         /\ Posted(v, "TOURNAMENT_PRIZE", t) > 0 => Posted(v, "TOURNAMENT_PRIZE", t)' > 0
  BY <1>8
<1>11. \A s \in Tournaments \ {t} : Kept(s)
  <2> TAKE s \in Tournaments \ {t}
  <2>1. \A v \in Users : \A kind : Posted(v, kind, s)' = Posted(v, kind, s)
    BY <1>8
  <2> QED
    BY <1>3, <1>5, <1>6, <2>1 DEF Kept
<1>12. TournamentTypeOK'
  BY <1>1, <1>3, <1>5, <1>6 DEF TournamentTypeOK
<1>13. Grown(t)
  BY <1>1, <1>5, <1>7, <1>10 DEF Grown
<1>14. RowsOK(t)'
  <2>1. ASSUME NEW v \in Users,
               Posted(v, "REFUND", t) + Posted(v, "TOURNAMENT_PRIZE", t)' > 0
        PROVE  Entries(v, t) > 0
    <3>1. CASE v = w
      BY <1>4, <3>1
    <3>2. CASE v # w
      BY <1>1, <1>10, <2>1, <3>2 DEF RowsOK
    <3> QED
      BY <3>1, <3>2
  <2>2. ASSUME NEW v \in Users, tournament'[t].winner = v, tournament[t].prize > 0
        PROVE  Posted(v, "TOURNAMENT_PRIZE", t)' > 0
    <3>1. CASE w = c.row.winner
      BY <1>1, <1>5, <1>10, <2>2, <3>1 DEF RowsOK
    <3>2. CASE w # c.row.winner
      <4>1. v = w /\ prize > 0
        BY <1>1, <1>2, <1>5, <2>2, <3>2
      <4> QED
        BY <1>10, <4>1
    <3> QED
      BY <3>1, <3>2
  <2> QED
    BY <1>1, <1>5, <1>6, <1>7, <1>10, <2>1, <2>2 DEF RowsOK
<1>15. t \notin disturbed' => CalmOK(t)'
  <2> SUFFICES ASSUME t \notin disturbed PROVE CalmOK(t)'
    BY <1>3
  <2>1. /\ CalmOK(t) /\ CalmCall(c) /\ Apart(t)' /\ Open(t)
        /\ tournament[t].winner = Nobody /\ c.row.winner = Nobody
    <3>1. CalmOK(t) /\ CalmCall(c)
      BY <1>0, <1>3, CallIs
    <3>2. Apart(t)' /\ Open(t) /\ c.row.winner = Nobody
      BY <1>0, <1>3, <1>6, <3>1 DEF CalmOK, CalmCall
    <3> QED
      BY <3>1, <3>2 DEF CalmOK, Open
  <2>2. ASSUME NEW e \in Others(i), e.t = t
        PROVE  e.op = "join" /\ CalmCall(e)'
    <3>1. CalmCall(e) /\ e.op = "join" /\ CallOK(e)
      BY <1>0, <1>3, <2>2, TheOthers
    <3>2. e.at # "refund"
      BY <3>1 DEF CallOK
    <3> QED
      BY <1>5, <1>7, <2>2, <3>1, <3>2 DEF CalmCall
  <2>3. HalfWay("cancel", t) = {}
    <3>1. \A e \in Running : e.t = t => e.op # "cancel"
      BY <1>3, <1>6, <2>2
    <3> QED
      BY <3>1 DEF HalfWay, Running
  <2>4. PaidExactly(t)'
    <3>1. ASSUME NEW v \in Users PROVE PaidTo(v, t)'
      <4>1. PaidTo(v, t) /\ v # Nobody
        BY <2>1, PaidIs, NobodyIsNoUser DEF CalmOK
      <4>2. Posted(v, "TOURNAMENT_PRIZE", t) = 0 /\ Posted(v, "REFUND", t) = 0
        BY <2>1, <2>3, <4>1 DEF PaidTo, Open
      <4>3. tournament'[t].winner = w
        BY <1>5, <2>1
      <4>4. Posted(v, "TOURNAMENT_PRIZE", t)' =
              IF tournament'[t].winner = v /\ tournament'[t].prize > 0 THEN 1 ELSE 0
        <5>1. tournament'[t].prize = prize
          BY <1>1, <1>2, <1>5
        <5> QED
          BY <1>10, <4>2, <4>3, <5>1
      <4> QED
        BY <1>5, <1>6, <1>7, <1>10, <4>1, <4>2, <4>4 DEF PaidTo
    <3> QED
      BY <3>1, PaidIs
  <2> QED
    BY <1>5, <1>6, <2>1, <2>2, <2>4 DEF CalmOK
<1>16. TournamentInv'
  BY <1>0, <1>1, <1>3, <1>6, <1>11, <1>12, <1>13, <1>14, <1>15, OnOneTournament
<1> QED
  BY <1>9, <1>16

-----------------------------------------------------------------------------
(* What payments and tournaments do to each other: they share the wallets. *)

\* A posting of one of the types, for one of the references, or none.
Posting(types, refs) ==
    \/ UNCHANGED walletVars
    \/ \E u \in Users, seen \in Nat, amount \in Int, type \in types, ref \in refs :
           seen + amount >= 0 /\ Post(u, seen, amount, type, ref)

LEMMA TournamentPosting ==
    ASSUME TournamentInv, WalletTypeOK, TournamentStart \/ TournamentStep
    PROVE  Posting(Kinds, Tournaments) /\ disturbed \subseteq disturbed'
<1>1. CASE TournamentStart
  BY <1>1 DEF TournamentStart, CreateTournament, BeginJoin, BeginEnd, BeginCancel, BeginSettle,
              Begin, Posting
<1>2. CASE TournamentStep
  <2>1. PICK i \in DOMAIN calls :
          \/ PayEntry(i)
          \/ AddParticipant(i)
          \/ EndNow(i)
          \/ ReadParticipants(i)
          \/ Refund(i)
          \/ Cancelled(i)
          \/ \E score \in [Users -> Scores] : PayPrize(i, score)
          \/ CallStops(i)
    BY <1>2 DEF TournamentStep
  <2>2. CASE AddParticipant(i) \/ EndNow(i) \/ ReadParticipants(i) \/ Cancelled(i) \/ CallStops(i)
    BY <2>2 DEF AddParticipant, EndNow, ReadParticipants, Cancelled, CallStops, Posting
  <2>3. PICK c : c = calls[i]
    OBVIOUS
  <2>4. /\ c \in Call /\ c.t \in Tournaments /\ c.row.fee \in Nat /\ c.row.prize \in Nat
        /\ CallOK(c)
    BY <2>3, CallIs
  <2>5. CASE PayEntry(i)
    <3>1. disturbed' = disturbed
      BY <2>5 DEF PayEntry
    <3>2. CASE UNCHANGED walletVars
      BY <3>1, <3>2 DEF Posting
    <3>3. CASE c.op = "join" /\ Debit(c.who, wallet[c.who], c.row.fee, "TOURNAMENT_ENTRY", c.t)
      <4>1. PICK amount : amount = -c.row.fee
        OBVIOUS
      <4>2. /\ Post(c.who, wallet[c.who], amount, "TOURNAMENT_ENTRY", c.t)
            /\ c.who \in Users /\ wallet[c.who] \in Nat /\ amount \in Int
            /\ wallet[c.who] + amount >= 0 /\ "TOURNAMENT_ENTRY" \in Kinds
        BY <2>4, <3>3, <4>1 DEF Debit, CallOK, WalletTypeOK, Kinds
      <4> QED
        BY <2>4, <3>1, <4>2 DEF Posting
    <3> QED
      BY <2>3, <2>5, <3>2, <3>3 DEF PayEntry
  <2>6. CASE Refund(i)
    <3>1. PICK u, balance : /\ u = Head(c.todo)
                            /\ balance = IF c.seen[u] = Unloaded THEN wallet[u] ELSE c.seen[u]
      OBVIOUS
    <3>2. /\ c.todo # <<>> /\ Credit(u, balance, c.row.fee, "REFUND", c.t)
          /\ disturbed' = disturbed
      BY <2>3, <2>6, <3>1 DEF Refund
    <3>3. c.todo \in Seq(Users) /\ c.seen \in [Users -> Nat \cup {Unloaded}]
      BY <2>4 DEF Call
    <3>4. u \in Users
      BY <3>1, <3>2, <3>3, HeadTailProperties
    <3>5. balance \in Nat
      BY <3>1, <3>3, <3>4 DEF WalletTypeOK
    <3>6. /\ Post(u, balance, c.row.fee, "REFUND", c.t) /\ c.row.fee \in Int
          /\ balance + c.row.fee >= 0 /\ "REFUND" \in Kinds
      BY <2>4, <3>2, <3>5 DEF Credit, Kinds
    <3> QED
      BY <2>4, <3>2, <3>4, <3>5, <3>6 DEF Posting
  <2>7. ASSUME NEW score \in [Users -> Scores], PayPrize(i, score)
        PROVE  Posting(Kinds, Tournaments) /\ disturbed \subseteq disturbed'
    <3>1. PICK w : w = Leader(entrants[c.t], score)
      OBVIOUS
    <3>2. disturbed' = disturbed
      BY <2>7 DEF PayPrize
    <3>3. CASE UNCHANGED walletVars
      BY <3>2, <3>3 DEF Posting
    <3>4. CASE w # Nobody /\ Credit(w, wallet[w], c.row.prize, "TOURNAMENT_PRIZE", c.t)
      <4>1. entrants[c.t] \in Seq(Users)
        BY <2>4 DEF TournamentInv, TournamentTypeOK
      <4>2. w \in Users
        BY <3>1, <3>4, <4>1, LeaderTakesPart
      <4>3. /\ Post(w, wallet[w], c.row.prize, "TOURNAMENT_PRIZE", c.t)
            /\ c.row.prize \in Int /\ wallet[w] \in Nat
            /\ wallet[w] + c.row.prize >= 0 /\ "TOURNAMENT_PRIZE" \in Kinds
        BY <2>4, <3>4, <4>2 DEF Credit, WalletTypeOK, Kinds
      <4> QED
        BY <2>4, <3>2, <4>2, <4>3 DEF Posting
    <3> QED
      BY <2>3, <2>7, <3>1, <3>3, <3>4 DEF PayPrize
  <2> QED
    BY <2>1, <2>2, <2>5, <2>6, <2>7
<1> QED
  BY <1>1, <1>2

\* What one posting does, without the row's other fields.
Grows(u, ref) ==
    /\ WalletTypeOK'
    /\ \A v \in Users : v # u => wallet'[v] = wallet[v] /\ ledger'[v] = ledger[v]
    /\ Len(ledger'[u]) = Len(ledger[u]) + 1
    /\ \A i \in 1..Len(ledger[u]) : ledger'[u][i] = ledger[u][i]
    /\ ledger'[u][Len(ledger[u]) + 1].ref = ref

LEMMA PostLonger ==
    ASSUME WalletTypeOK,
           NEW u \in Users, NEW seen \in Nat, NEW amount \in Int, seen + amount >= 0,
           NEW type \in RowTypes, NEW ref \in Refs,
           Post(u, seen, amount, type, ref)
    PROVE  Grows(u, ref)
<1>1. ledger'[u][Len(ledger[u]) + 1] =
        [type |-> type, ref |-> ref, amount |-> amount,
         before |-> seen, after |-> seen + amount]
  BY PostEffect
<1>2. ledger'[u][Len(ledger[u]) + 1].ref = ref
  BY <1>1
<1>3. /\ WalletTypeOK'
      /\ \A v \in Users : v # u => wallet'[v] = wallet[v] /\ ledger'[v] = ledger[v]
      /\ Len(ledger'[u]) = Len(ledger[u]) + 1
      /\ \A i \in 1..Len(ledger[u]) : ledger'[u][i] = ledger[u][i]
  BY PostEffect
<1> QED
  BY <1>2, <1>3 DEF Grows

\* The payments do not notice what the tournaments post.
LEMMA PaymentsUnmoved ==
    ASSUME PaymentsInv, Posting(Kinds, Tournaments), UNCHANGED paymentVars
    PROVE  PaymentsInv' /\ \A p \in Payments : SameBill(p)
<1>1. WalletTypeOK /\ Payments \cap Tournaments = {} /\ Tournaments \subseteq Refs
      /\ Payer \in [Payments -> Users]
  BY FundsAssumption, TournamentAssumption, PaymentsAssumption DEF PaymentsInv, PaymentsTypeOK
<1>2. payment' = payment /\ hooks' = hooks
  BY DEF paymentVars
<1>3. CASE UNCHANGED walletVars
  <2>1. ASSUME NEW p \in Payments PROVE PaymentOK(p)' /\ SameBill(p)
    <3>1. PaymentKept(p)
      BY <1>2, <1>3, SameLedger DEF PaymentKept
    <3> QED
      BY <3>1, KeptOK DEF PaymentsInv
  <2>2. PaymentsTypeOK'
    BY <1>2, <1>3, SameLedger DEF PaymentsInv, PaymentsTypeOK
  <2> QED
    BY <2>1, <2>2 DEF PaymentsInv
<1>4. ASSUME NEW u \in Users, NEW seen \in Nat, NEW amount \in Int, NEW type \in Kinds,
             NEW ref \in Tournaments, seen + amount >= 0, Post(u, seen, amount, type, ref)
      PROVE  PaymentsInv' /\ \A p \in Payments : SameBill(p)
  <2>1. type \in RowTypes /\ type # "DEPOSIT" /\ ref \in Refs
    BY <1>1 DEF Kinds, RowTypes
  <2>0. Grows(u, ref)
    BY <1>1, <1>4, <2>1, PostLonger
  <2>2. /\ WalletTypeOK'
        /\ \A v \in Users : v # u => wallet'[v] = wallet[v] /\ ledger'[v] = ledger[v]
        /\ Len(ledger'[u]) = Len(ledger[u]) + 1
        /\ \A i \in 1..Len(ledger[u]) : ledger'[u][i] = ledger[u][i]
        /\ ledger'[u][Len(ledger[u]) + 1].ref = ref
    BY <2>0 DEF Grows
  <2>3. ASSUME NEW p \in Payments PROVE PaymentOK(p)' /\ SameBill(p)
    <3>0. Payer[p] \in Users /\ p # ref /\ PaymentOK(p) /\ BillCredited(p) \in Nat
      BY <1>1 DEF PaymentsInv, PaymentOK
    <3>1. RowsFor(Payer[p], "DEPOSIT", p)' = RowsFor(Payer[p], "DEPOSIT", p)
      BY <1>1, <1>4, <2>1, <3>0, PostRows
    <3>2. \A i \in RowsFor(Payer[p], "DEPOSIT", p) : ledger'[Payer[p]][i] = ledger[Payer[p]][i]
      <4>1. CASE Payer[p] # u
        BY <2>2, <3>0, <4>1
      <4>2. CASE Payer[p] = u
        <5>1. ledger[u] \in Seq(FundsRow)
          BY <1>1 DEF WalletTypeOK
        <5>2. RowsFor(Payer[p], "DEPOSIT", p) \subseteq 1..Len(ledger[u])
          BY <4>2, <5>1 DEF RowsFor
        <5> QED
          BY <2>2, <4>2, <5>2
      <4> QED
        BY <4>1, <4>2
    <3>3. BillCredited(p) = SumOf(ledger[Payer[p]], p) /\ BillCredited(p)' = SumOf(ledger'[Payer[p]], p)
      BY DEF BillCredited
    <3>4. BillCredited(p)' = BillCredited(p)
      <4>1. CASE Payer[p] # u
        BY <2>2, <3>0, <3>3, <4>1
      <4>2. CASE Payer[p] = u
        <5>1. SumOf(ledger'[u], p) = SumOf(ledger[u], p) +
                (IF ledger'[u][Len(ledger[u]) + 1].ref = p
                 THEN ledger'[u][Len(ledger[u]) + 1].amount ELSE 0)
          BY <1>1, <2>2, LedgerSum
        <5> QED
          BY <2>2, <3>0, <3>3, <4>2, <5>1
      <4> QED
        BY <4>1, <4>2
    <3>5. PaymentKept(p)
      BY <1>2, <3>1, <3>2, <3>4 DEF PaymentKept
    <3> QED
      BY <3>0, <3>5, KeptOK
  <2>4. PaymentsTypeOK'
    BY <1>2, <2>2 DEF PaymentsInv, PaymentsTypeOK
  <2> QED
    BY <2>3, <2>4 DEF PaymentsInv
<1> QED
  BY <1>3, <1>4 DEF Posting

\* A payment's posting is a deposit from the wallet's balance.
LEMMA SettlePosting ==
    ASSUME WalletTypeOK, NEW p \in Payments, NEW toman, NEW known, NEW rest,
           Settle(p, toman, known, rest), toman \in Int
    PROVE  UNCHANGED walletVars \/ \E u \in Users, amount \in Nat :
               Post(u, wallet[u], amount, "DEPOSIT", p)
<1>1. Payer[p] \in Users
  BY PaymentsAssumption
<1>2. CASE Credit(Payer[p], wallet[Payer[p]], toman, "DEPOSIT", p)
  BY <1>1, <1>2 DEF Credit
<1> QED
  BY <1>2 DEF Settle

LEMMA PaymentsPosting ==
    ASSUME PaymentsInv, PaymentsStart \/ PaymentsStep
    PROVE  UNCHANGED walletVars \/ \E u \in Users, amount \in Nat, p \in Payments :
               Post(u, wallet[u], amount, "DEPOSIT", p)
<1>1. WalletTypeOK /\ \A toman \in Told : toman \in Int
  <2>1. WalletTypeOK
    BY DEF PaymentsInv, PaymentsTypeOK
  <2>2. Sums \subseteq Nat \ {0}
    BY PaymentsAssumption
  <2>3. ASSUME NEW toman \in Told PROVE toman \in Int
    <3>1. PICK sum \in Sums, d \in {-1, 0, 1} : toman = sum + d
      BY DEF Told
    <3>2. sum \in Int /\ d \in Int
      BY <2>2
    <3> QED
      BY <3>1, <3>2
  <2> QED
    BY <2>1, <2>3
<1>2. ASSUME NEW p \in Payments, NEW report \in Reports, HandleTronadoWebhook(p, report)
      PROVE  UNCHANGED walletVars \/ \E u \in Users, amount \in Nat :
                 Post(u, wallet[u], amount, "DEPOSIT", p)
  <2>1. CASE UNCHANGED walletVars
    BY <2>1
  <2>2. CASE report.toman # Unsaid /\ Settle(p, report.toman, payment[p].known \/ report.names, hooks)
    <3>1. report.toman \in Int
      BY <1>1, <2>2 DEF Reports
    <3> QED
      BY <1>1, <2>2, <3>1, SettlePosting
  <2> QED
    BY <1>2, <2>1, <2>2 DEF HandleTronadoWebhook
<1>3. CASE PaymentsStart
  BY <1>2, <1>3 DEF PaymentsStart, CreateTronadoDeposit
<1>4. CASE PaymentsStep
  <2>1. PICK h \in hooks : \/ \E toman \in Told : StatusArrives(h, toman)
                           \/ MarkPaid(h)
                           \/ HookStops(h)
    BY <1>4 DEF PaymentsStep
  <2>2. h.p \in Payments
    BY DEF PaymentsInv, PaymentsTypeOK, Hook
  <2>3. CASE MarkPaid(h) \/ HookStops(h)
    BY <2>3 DEF MarkPaid, HookStops
  <2>4. ASSUME NEW toman \in Told, StatusArrives(h, toman)
        PROVE  UNCHANGED walletVars \/ \E u \in Users, amount \in Nat :
                   Post(u, wallet[u], amount, "DEPOSIT", h.p)
    BY <1>1, <2>2, <2>4, SettlePosting DEF StatusArrives
  <2> QED
    BY <2>1, <2>2, <2>3, <2>4
<1> QED
  BY <1>3, <1>4

\* The tournaments do not notice the payments.
LEMMA TournamentsUnmoved ==
    ASSUME TournamentInv, WalletTypeOK, BalancesOK, UNCHANGED tournamentVars,
           UNCHANGED walletVars \/ \E u \in Users, amount \in Nat, p \in Payments :
               Post(u, wallet[u], amount, "DEPOSIT", p)
    PROVE  TournamentInv' /\ BalancesOK'
<1>1. /\ tournament' = tournament /\ entrants' = entrants
      /\ calls' = calls /\ disturbed' = disturbed
  BY DEF tournamentVars
<1>2. /\ Running' = Running
      /\ \A t : Apart(t)' = Apart(t)
      /\ \A u, t : JoinsPaid(u, t)' = JoinsPaid(u, t)
  BY <1>1 DEF Running, Apart, Clash, JoinsPaid, HalfWay
<1>3. ASSUME \A u \in Users : \A kind \in Kinds : \A t : Posted(u, kind, t)' = Posted(u, kind, t)
      PROVE  TournamentInv'
  <2>1. \A t : Kept(t)
    BY <1>1, <1>2, <1>3 DEF Kept
  <2>2. TournamentTypeOK'
    BY <1>1 DEF TournamentInv, TournamentTypeOK
  <2>3. ASSUME NEW c \in Running PROVE CallOK(c)'
    <3>1. c \in Call /\ CallOK(c) /\ tournament[c.t].status # "none"
      BY RunningAre DEF TournamentInv, CallOK
    <3>2. \A u : Entries(u, c.t)' = Entries(u, c.t)
      BY <1>1 DEF Entries
    <3>3. Grown(c.t)
      BY <1>1, <1>3, <3>1, <3>2 DEF Grown, Kinds
    <3> QED
      BY <3>1, <3>3, CallStays
  <2>4. ASSUME NEW t \in Tournaments PROVE RowsOK(t)' /\ (t \notin disturbed' => CalmOK(t)')
    <3>1. RowsOK(t) /\ (t \notin disturbed' => CalmOK(t))
      BY <1>1 DEF TournamentInv
    <3>2. ASSUME CalmOK(t) PROVE CalmOK(t)'
      <4>1. Apart(t)'
        BY <1>2, <3>2 DEF CalmOK
      <4> QED
        BY <1>2, <2>1, <3>2, <4>1, KeptCalm
    <3> QED
      BY <2>1, <3>1, <3>2, KeptRows
  <2> QED
    BY <1>2, <2>2, <2>3, <2>4 DEF TournamentInv
<1>4. CASE UNCHANGED walletVars
  BY <1>1, <1>3, <1>4, SamePosted, SameBalances
<1>5. ASSUME NEW u \in Users, NEW amount \in Nat, NEW p \in Payments,
             Post(u, wallet[u], amount, "DEPOSIT", p)
      PROVE  TournamentInv' /\ BalancesOK'
  <2>1. /\ wallet[u] \in Nat /\ amount \in Int /\ wallet[u] + amount >= 0
        /\ "DEPOSIT" \in RowTypes /\ p \in Refs
    BY PaymentsAssumption DEF WalletTypeOK, RowTypes
  <2>2. ASSUME NEW v \in Users, NEW kind \in Kinds, NEW t
        PROVE  Posted(v, kind, t)' = Posted(v, kind, t)
    <3>1. Posted(v, kind, t)' = Posted(v, kind, t) +
            (IF v = u /\ kind = "DEPOSIT" /\ t = p THEN 1 ELSE 0)
      BY <1>5, <2>1, PostCounts
    <3>2. kind # "DEPOSIT" /\ Posted(v, kind, t) \in Nat
      BY PostedNat DEF Kinds
    <3> QED
      BY <3>1, <3>2
  <2>3. BalancesOK'
    BY <1>1, <1>5, <2>1, PostBalances
  <2> QED
    BY <1>3, <2>2, <2>3
<1> QED
  BY <1>4, <1>5

\* A step of the tournaments.
LEMMA BeginStepOK ==
    ASSUME TournamentInv, TournamentStart
    PROVE  TournamentInv'
<1>1. PICK t \in Tournaments :
        \/ \E fee \in Fees, prize \in Prizes : CreateTournament(t, fee, prize)
        \/ \E u \in Users : BeginJoin(t, u)
        \/ BeginEnd(t)
        \/ BeginCancel(t)
        \/ BeginSettle(t)
  BY DEF TournamentStart
<1>2. CASE \E fee \in Fees, prize \in Prizes : CreateTournament(t, fee, prize)
  BY <1>2, CreateOK
<1>3. ASSUME NEW u \in Users, BeginJoin(t, u) PROVE TournamentInv'
  <2>1. Open(t) /\ Begin("join", t, u)
    BY <1>3 DEF BeginJoin, Open
  <2>2. Entries(u, t) = 0
    <3>1. {i \in DOMAIN entrants[t] : entrants[t][i] = u} = {}
      BY <1>3 DEF BeginJoin
    <3> QED
      BY <3>1, FS_EmptySet DEF Entries
  <2> QED
    BY <2>1, <2>2, BeginOK
<1>4. ASSUME NEW op \in {"end", "cancel", "settle"}, Open(t), Begin(op, t, Nobody)
      PROVE  TournamentInv'
  BY <1>4, BeginOK
<1>5. CASE BeginEnd(t) \/ BeginCancel(t) \/ BeginSettle(t)
  BY <1>4, <1>5 DEF BeginEnd, BeginCancel, BeginSettle, Open
<1> QED
  BY <1>1, <1>2, <1>3, <1>5

LEMMA TournamentStepOK ==
    ASSUME TournamentInv, WalletTypeOK, BalancesOK, TournamentStart \/ TournamentStep
    PROVE  TournamentInv' /\ BalancesOK'
<1>1. disturbed \subseteq disturbed'
  BY TournamentPosting
<1>2. UNCHANGED walletVars => BalancesOK'
  BY <1>1, SameBalances
<1>3. CASE TournamentStart
  <2>1. UNCHANGED walletVars
    BY <1>3 DEF TournamentStart, CreateTournament, BeginJoin, BeginEnd, BeginCancel, BeginSettle,
                Begin
  <2> QED
    BY <1>2, <1>3, <2>1, BeginStepOK
<1>4. ASSUME NEW i \in DOMAIN calls,
             \/ PayEntry(i)
             \/ AddParticipant(i)
             \/ EndNow(i)
             \/ ReadParticipants(i)
             \/ Refund(i)
             \/ Cancelled(i)
             \/ \E score \in [Users -> Scores] : PayPrize(i, score)
             \/ CallStops(i)
      PROVE  TournamentInv' /\ BalancesOK'
  <2>1. CASE PayEntry(i)
    BY <2>1, PayEntryOK
  <2>2. CASE AddParticipant(i)
    BY <1>2, <2>2, AddParticipantOK DEF AddParticipant
  <2>3. CASE EndNow(i)
    BY <1>2, <2>3, EndNowOK DEF EndNow
  <2>4. CASE ReadParticipants(i)
    BY <1>2, <2>4, ReadParticipantsOK DEF ReadParticipants
  <2>5. CASE Refund(i)
    BY <2>5, RefundOK
  <2>6. CASE Cancelled(i)
    BY <1>2, <2>6, CancelledOK DEF Cancelled
  <2>7. CASE \E score \in [Users -> Scores] : PayPrize(i, score)
    BY <2>7, PayPrizeOK
  <2>8. CASE CallStops(i)
    <3>1. UNCHANGED walletVars /\ UNCHANGED <<walletVars, tournament, entrants>> /\ Done(i)
      BY <2>8 DEF CallStops
    <3>2. CASE calls[i].at = "read"
      BY <1>2, <2>8, <3>1, <3>2, EarlyEndOK DEF CallStops
    <3>3. CASE calls[i].at # "read"
      BY <1>2, <2>8, <3>1, <3>3, HalfWayEndOK DEF CallStops
    <3> QED
      BY <3>2, <3>3
  <2> QED
    BY <1>4, <2>1, <2>2, <2>3, <2>4, <2>5, <2>6, <2>7, <2>8
<1> QED
  BY <1>3, <1>4 DEF TournamentStep

-----------------------------------------------------------------------------
(* All of them together.                                                   *)

FundsInv == PaymentsInv /\ CryptoInv /\ TournamentInv /\ BalancesOK

\* What a step does to the bills: to one of them what PaymentPromise allows, or nothing.
BillsMove == \E b \in Bill : BillStep(b) /\ \A q \in Bill \ {b} : SameBill(q)

BillsSame == \A b \in Bill : SameBill(b)

LEMMA CoinsUnmoved ==
    ASSUME CryptoInv, UNCHANGED cryptoVars
    PROVE  CryptoInv' /\ \A o \in CoinOrders : SameBill(o)
<1>1. order' = order /\ callbacks' = callbacks /\ coins' = coins /\ coinLedger' = coinLedger
  BY DEF cryptoVars
<1>2. ASSUME NEW o \in CoinOrders PROVE OrderOK(o)' /\ SameBill(o)
  <2>1. OrderOK(o)
    BY DEF CryptoInv
  <2>2. \A c, d \in callbacks' :
          c.o = o /\ d.o = o /\ c.at = "verifying" /\ d.at = "verifying" => c = d
    BY <1>1, <2>1 DEF OrderOK
  <2> QED
    BY <1>1, <2>1, <2>2, OrderKept
<1>3. CryptoTypeOK'
  BY <1>1 DEF CryptoInv, CryptoTypeOK
<1> QED
  BY <1>2, <1>3 DEF CryptoInv

\* The bills of the coin orders and those of the payments are apart.
LEMMA BillIs ==
    ASSUME NEW b \in Bill
    PROVE  \/ b \in Payments /\ b \notin CoinOrders
           \/ b \in CoinOrders /\ b \notin Payments
BY FundsAssumption DEF Bill

LEMMA PayersStep ==
    ASSUME FundsInv, PayersPart(PaymentsStart) \/ PayersPart(PaymentsStep)
    PROVE  FundsInv' /\ BillsMove
<1>1. /\ PaymentsStart \/ PaymentsStep
      /\ UNCHANGED cryptoVars /\ UNCHANGED tournamentVars
  BY DEF PayersPart
<1>2. PaymentsInv' /\ PaymentsMove
  BY <1>1, PaymentsStepOK DEF FundsInv
<1>3. CryptoInv' /\ \A o \in CoinOrders : SameBill(o)
  BY <1>1, CoinsUnmoved DEF FundsInv
<1>4. WalletTypeOK
  BY DEF FundsInv, PaymentsInv, PaymentsTypeOK
<1>5. UNCHANGED walletVars \/ \E u \in Users, amount \in Nat, p \in Payments :
          Post(u, wallet[u], amount, "DEPOSIT", p)
  BY <1>1, PaymentsPosting DEF FundsInv
<1>6. TournamentInv' /\ BalancesOK'
  BY <1>1, <1>4, <1>5, TournamentsUnmoved DEF FundsInv
<1>7. BillsMove
  BY <1>2, <1>3, BillIs DEF PaymentsMove, BillsMove, Bill
<1> QED
  BY <1>2, <1>3, <1>6, <1>7 DEF FundsInv

LEMMA HoldersStep ==
    ASSUME FundsInv, HoldersPart(CryptoStart) \/ HoldersPart(CryptoStep)
    PROVE  FundsInv' /\ BillsMove
<1>1. /\ CryptoStart \/ CryptoStep
      /\ UNCHANGED walletVars /\ UNCHANGED paymentVars /\ UNCHANGED tournamentVars
  BY DEF HoldersPart
<1>2. CryptoInv' /\ CryptoMove
  BY <1>1, CryptoStepOK DEF FundsInv
<1>3. PaymentsInv' /\ \A p \in Payments : SameBill(p)
  <2>1. Posting(Kinds, Tournaments)
    BY <1>1 DEF Posting
  <2> QED
    BY <1>1, <2>1, PaymentsUnmoved DEF FundsInv
<1>4. WalletTypeOK
  BY DEF FundsInv, PaymentsInv, PaymentsTypeOK
<1>5. TournamentInv' /\ BalancesOK'
  BY <1>1, <1>4, TournamentsUnmoved DEF FundsInv
<1>6. BillsMove
  BY <1>2, <1>3, BillIs DEF CryptoMove, BillsMove, Bill
<1> QED
  BY <1>2, <1>3, <1>5, <1>6 DEF FundsInv

LEMMA PlayersStep ==
    ASSUME FundsInv, PlayersPart(TournamentStart) \/ PlayersPart(TournamentStep)
    PROVE  FundsInv' /\ BillsSame
<1>1. /\ TournamentStart \/ TournamentStep
      /\ UNCHANGED paymentVars /\ UNCHANGED cryptoVars
  BY DEF PlayersPart
<1>2. WalletTypeOK
  BY DEF FundsInv, PaymentsInv, PaymentsTypeOK
<1>3. TournamentInv' /\ BalancesOK'
  BY <1>1, <1>2, TournamentStepOK DEF FundsInv
<1>4. CryptoInv' /\ \A o \in CoinOrders : SameBill(o)
  BY <1>1, CoinsUnmoved DEF FundsInv
<1>5. PaymentsInv' /\ \A p \in Payments : SameBill(p)
  <2>1. Posting(Kinds, Tournaments)
    BY <1>1, <1>2, TournamentPosting DEF FundsInv
  <2> QED
    BY <1>1, <2>1, PaymentsUnmoved DEF FundsInv
<1>6. BillsSame
  BY <1>4, <1>5, BillIs DEF BillsSame
<1> QED
  BY <1>3, <1>4, <1>5, <1>6 DEF FundsInv

LEMMA FundsStep ==
    ASSUME FundsInv, [Next]_vars
    PROVE  FundsInv' /\ (BillsMove \/ BillsSame)
<1>1. CASE Start
  BY <1>1, PayersStep, HoldersStep, PlayersStep DEF Start
<1>2. CASE Step
  BY <1>2, PayersStep, HoldersStep, PlayersStep DEF Step
<1>3. CASE UNCHANGED vars
  <2>1. /\ UNCHANGED walletVars /\ UNCHANGED paymentVars /\ UNCHANGED cryptoVars
        /\ UNCHANGED tournamentVars
    BY <1>3 DEF vars
  <2>2. WalletTypeOK
    BY DEF FundsInv, PaymentsInv, PaymentsTypeOK
  <2>3. TournamentInv' /\ BalancesOK'
    BY <2>1, <2>2, TournamentsUnmoved DEF FundsInv
  <2>4. CryptoInv' /\ \A o \in CoinOrders : SameBill(o)
    BY <2>1, CoinsUnmoved DEF FundsInv
  <2>5. PaymentsInv' /\ \A p \in Payments : SameBill(p)
    BY <2>1, PaymentsUnmoved DEF FundsInv, Posting
  <2>6. BillsSame
    BY <2>4, <2>5, BillIs DEF BillsSame
  <2> QED
    BY <2>3, <2>4, <2>5, <2>6 DEF FundsInv
<1> QED
  BY <1>1, <1>2, <1>3 DEF Next

-----------------------------------------------------------------------------
(* The first state: a wallet with one deposit row, and nothing else.       *)

LEMMA OpeningRow ==
    ASSUME Init, NEW u \in Users
    PROVE  /\ ledger[u] \in Seq(FundsRow)
           /\ Len(ledger[u]) = 1
           /\ ledger[u][1].type = "DEPOSIT" /\ ledger[u][1].ref = Earlier
           /\ ledger[u][1].amount = Opening[u]
<1>1. Opening[u] \in Nat /\ Earlier \in Refs
  BY FundsAssumption
<1>2. PICK row : row = [type |-> "DEPOSIT", ref |-> Earlier, amount |-> Opening[u],
                        before |-> 0, after |-> Opening[u]]
  OBVIOUS
<1>3. row \in FundsRow
  BY <1>1, <1>2 DEF FundsRow
<1>4. ledger[u] = <<row>>
  BY <1>2 DEF Init
<1> QED
  BY <1>2, <1>3, <1>4

LEMMA SumOfOne ==
    ASSUME NEW f, f[1] \in Int
    PROVE  SumFunctionOnSet(f, 1..1) = f[1]
<1>1. PICK none : none = {}
  OBVIOUS
<1>2. IsFiniteSet(none) /\ 1 \notin none /\ (\A x \in none : f[x] \in Int)
  BY <1>1, FS_EmptySet
<1>3. SumFunctionOnSet(f, none \cup {1}) = SumFunctionOnSet(f, none) + f[1]
  BY <1>2, SumExtend
<1>4. SumFunctionOnSet(f, none) = 0
  BY <1>1, SumEmpty
<1>5. none \cup {1} = 1..1
  BY <1>1
<1>6. SumFunctionOnSet(f, 1..1) = SumFunctionOnSet(f, none) + f[1]
  BY <1>3, <1>5, Zenon
<1> QED
  BY <1>4, <1>6

LEMMA OpeningTotal ==
    ASSUME Init, NEW u \in Users
    PROVE  Total(u) = Opening[u]
<1>1. DOMAIN ledger[u] = 1..1 /\ ledger[u][1].amount = Opening[u] /\ Opening[u] \in Int
  BY OpeningRow, FundsAssumption
<1>2. PICK f : f = [i \in DOMAIN ledger[u] |-> ledger[u][i].amount]
  OBVIOUS
<1>3. f[1] = Opening[u] /\ f[1] \in Int
  BY <1>1, <1>2
<1>4. Total(u) = SumFunctionOnSet(f, 1..1)
  BY <1>1, <1>2 DEF Total
<1> QED
  BY <1>3, <1>4, SumOfOne

LEMMA OpeningCredit ==
    ASSUME Init, NEW u \in Users, NEW p \in Payments
    PROVE  SumOf(ledger[u], p) = 0
<1>1. DOMAIN ledger[u] = 1..1 /\ ledger[u][1].ref # p
  BY OpeningRow, FundsAssumption
<1>2. PICK f : f = [i \in DOMAIN ledger[u] |->
                      IF ledger[u][i].ref = p THEN ledger[u][i].amount ELSE 0]
  OBVIOUS
<1>3. f[1] = 0 /\ f[1] \in Int
  BY <1>1, <1>2
<1>4. SumOf(ledger[u], p) = SumFunctionOnSet(f, 1..1)
  BY <1>1, <1>2 DEF SumOf
<1> QED
  BY <1>3, <1>4, SumOfOne

LEMMA WalletStarts ==
    ASSUME Init
    PROVE  WalletTypeOK /\ BalancesOK
<1>1. wallet = Opening /\ Opening \in [Users -> Nat]
  BY FundsAssumption DEF Init
<1>2. ledger \in [Users -> Seq(FundsRow)]
  <2>1. DOMAIN ledger = Users /\ ledger = [u \in Users |-> ledger[u]]
    BY DEF Init
  <2> QED
    BY <2>1, OpeningRow
<1> QED
  BY <1>1, <1>2, OpeningTotal DEF WalletTypeOK, BalancesOK

LEMMA NoRows ==
    ASSUME Init, NEW u \in Users, NEW type, NEW r, r # Earlier \/ type # "DEPOSIT"
    PROVE  RowsFor(u, type, r) = {}
<1>1. DOMAIN ledger[u] = {1}
  BY OpeningRow
<1> QED
  BY <1>1, OpeningRow DEF RowsFor

LEMMA PaymentsStart0 ==
    ASSUME Init
    PROVE  PaymentsInv /\ \A p \in Payments : BillDue(p) = 0 /\ BillCredited(p) = 0 /\ ~BillSettled(p)
<1>1. /\ payment = [p \in Payments |-> [status |-> "none", amount |-> 0, known |-> FALSE]]
      /\ hooks = {}
  BY DEF Init, PaymentsInit
<1>2. PaymentsTypeOK
  BY <1>1, WalletStarts DEF PaymentsTypeOK, Payment, PaymentStatuses
<1>3. ASSUME NEW p \in Payments
      PROVE  PaymentOK(p) /\ BillDue(p) = 0 /\ BillCredited(p) = 0 /\ ~BillSettled(p)
  <2>1. Payer[p] \in Users /\ p # Earlier
    BY PaymentsAssumption, FundsAssumption
  <2>2. RowsFor(Payer[p], "DEPOSIT", p) = {} /\ ~Credited(p)
    BY <2>1, NoRows DEF Credited
  <2>3. BillCredited(p) = 0
    BY <2>1, OpeningCredit DEF BillCredited
  <2>4. payment[p].status = "none" /\ payment[p].amount = 0
    BY <1>1
  <2>5. BillDue(p) = 0 /\ ~BillSettled(p)
    BY <2>4 DEF BillDue, BillSettled
  <2> QED
    BY <1>1, <2>2, <2>3, <2>4, <2>5 DEF PaymentOK
<1> QED
  BY <1>2, <1>3 DEF PaymentsInv

LEMMA CryptoStart0 ==
    ASSUME Init
    PROVE  CryptoInv /\ \A o \in CoinOrders : BillDue(o) = 0 /\ BillCredited(o) = 0 /\ ~BillSettled(o)
<1>1. /\ order = [o \in CoinOrders |-> [status |-> "none", amount |-> 0]]
      /\ callbacks = {}
      /\ coins = [u \in Users |-> 0]
      /\ coinLedger = [u \in Users |-> <<>>]
  BY FundsAssumption DEF Init, CryptoInit
<1>2. CryptoTypeOK
  <2>1. <<>> \in Seq(CoinRow)
    OBVIOUS
  <2> QED
    BY <1>1, <2>1 DEF CryptoTypeOK, OrderState
<1>3. ASSUME NEW o \in CoinOrders
      PROVE  OrderOK(o) /\ BillDue(o) = 0 /\ BillCredited(o) = 0 /\ ~BillSettled(o)
  <2>1. Holder[o] \in Users
    BY CoinBill
  <2>2. coinLedger[Holder[o]] = <<>> /\ order[o].status = "none" /\ order[o].amount = 0
    BY <1>1, <2>1
  <2>3. CoinRows(o) = {}
    BY <2>2 DEF CoinRows
  <2>4. SumOf(coinLedger[Holder[o]], o) = 0
    <3>1. DOMAIN coinLedger[Holder[o]] = {}
      BY <2>2
    <3> QED
      BY <3>1, SumEmpty DEF SumOf
  <2>5. BillDue(o) = 0 /\ BillCredited(o) = 0 /\ ~BillSettled(o)
    BY <2>2, <2>4, CoinBill
  <2> QED
    BY <1>1, <2>2, <2>3, <2>5 DEF OrderOK
<1> QED
  BY <1>2, <1>3 DEF CryptoInv

LEMMA TournamentStart0 ==
    ASSUME Init
    PROVE  TournamentInv
<1>1. /\ tournament = [t \in Tournaments |-> Row0]
      /\ entrants = [t \in Tournaments |-> <<>>]
      /\ calls = <<>>
      /\ disturbed = {}
  BY DEF Init, TournamentInit
<1>2. TournamentTypeOK
  <2>1. <<>> \in Seq(Users) /\ <<>> \in Seq(Call) /\ Row0 \in TournamentRow
    BY DEF Row0, TournamentRow, TournamentStatuses
  <2> QED
    BY <1>1, <2>1 DEF TournamentTypeOK
<1>3. Running = {} /\ \A op, t : HalfWay(op, t) = {}
  BY <1>1 DEF Running, HalfWay
<1>4. ASSUME NEW t \in Tournaments PROVE RowsOK(t) /\ CalmOK(t)
  <2>1. /\ tournament[t] = Row0 /\ entrants[t] = <<>>
        /\ tournament[t].status = "none" /\ tournament[t].fee = 0 /\ tournament[t].prize = 0
        /\ tournament[t].winner = Nobody
    BY <1>1 DEF Row0
  <2>2. ASSUME NEW u \in Users, NEW kind \in Kinds PROVE Posted(u, kind, t) = 0
    <3>1. RowsFor(u, kind, t) = {}
      BY NoRows DEF Kinds
    <3> QED
      BY <3>1, FS_EmptySet DEF Posted
  <2>3. ASSUME NEW u \in Users PROVE Entries(u, t) = 0
    <3>1. {i \in DOMAIN entrants[t] : entrants[t][i] = u} = {}
      BY <2>1
    <3> QED
      BY <3>1, FS_EmptySet DEF Entries
  <2>4. \A u \in Users : /\ Posted(u, "TOURNAMENT_ENTRY", t) = 0
                         /\ Posted(u, "REFUND", t) = 0
                         /\ Posted(u, "TOURNAMENT_PRIZE", t) = 0
    BY <2>2 DEF Kinds
  <2>5. RowsOK(t)
    BY <2>1, <2>2, <2>3, <2>4 DEF RowsOK
  <2>6. Apart(t)
    BY <1>1 DEF Apart
  <2>7. PaidExactly(t)
    <3>1. ASSUME NEW u \in Users
          PROVE  /\ Entries(u, t) <= 1
                 /\ ~ (tournament[t].fee > 0)
                 /\ Posted(u, "REFUND", t) = 0 /\ tournament[t].status # "CANCELLED"
                 /\ Posted(u, "TOURNAMENT_PRIZE", t) = 0 /\ tournament[t].status # "SETTLED"
      BY <2>1, <2>3, <2>4
    <3> QED
      BY <3>1, Zenon DEF PaidExactly
  <2> QED
    BY <1>3, <2>1, <2>5, <2>6, <2>7 DEF CalmOK
<1> QED
  BY <1>2, <1>3, <1>4 DEF TournamentInv

LEMMA FundsStart ==
    ASSUME Init
    PROVE  FundsInv /\ \A b \in Bill : BillDue(b) = 0 /\ BillCredited(b) = 0 /\ ~BillSettled(b)
<1>1. \A b \in Bill : b \in Payments \/ b \in CoinOrders
  BY DEF Bill
<1> QED
  BY <1>1, WalletStarts, PaymentsStart0, CryptoStart0, TournamentStart0 DEF FundsInv

-----------------------------------------------------------------------------
(* What holds of every behaviour.                                          *)

LEMMA FundsInvariant == Spec => []FundsInv
<1>1. Init => FundsInv
  BY FundsStart
<1>2. FundsInv /\ [Next]_vars => FundsInv'
  BY FundsStep
<1> QED
  BY <1>1, <1>2, PTL DEF Spec

\* Every column keeps its range: no wallet is overdrawn, by a debit, a stale refund or two
\* sessions at once (wallet_service.py, payment_service.py, tournament_service.py).
THEOREM FundsTypes == Spec => []FundsTypeOK
<1>1. FundsInv => FundsTypeOK
  BY DEF FundsInv, PaymentsInv, PaymentsTypeOK, WalletTypeOK, CryptoInv, CryptoTypeOK,
         TournamentInv, TournamentTypeOK, FundsTypeOK
<1> QED
  BY <1>1, FundsInvariant, PTL

\* A payment is credited at most once and never below what it asked for, whatever the
\* webhooks say, and PAID only when it is (payment_service.py:137-158).
THEOREM PaymentsPaidOnce == Spec => []PaidOnce
<1>1. FundsInv => PaidOnce
  BY DEF FundsInv, PaymentsInv, PaymentOK, PaidOnce
<1> QED
  BY <1>1, FundsInvariant, PTL

-----------------------------------------------------------------------------
(* The refinement of PaymentPromise.                                       *)

Dues == [b \in Bill |-> BillDue(b)]

Credits == [b \in Bill |-> BillCredited(b)]

Settlements == [b \in Bill |-> BillSettled(b)]

LEMMA IssueIs ==
    ASSUME NEW b \in Bill, NEW sum, Dues[b] = 0, Dues' = [Dues EXCEPT ![b] = sum],
           Credits' = Credits, Settlements' = Settlements
    PROVE  Promise!Issue(b, sum)
BY DEF Promise!Issue, Dues, Credits, Settlements, BillDue, BillCredited, BillSettled

LEMMA CreditIs ==
    ASSUME NEW b \in Bill, NEW sum, Dues[b] > 0, sum >= Dues[b], Credits[b] = 0,
           Dues' = Dues, Credits' = [Credits EXCEPT ![b] = sum], Settlements' = Settlements
    PROVE  Promise!CreditBill(b, sum)
BY DEF Promise!CreditBill, Dues, Credits, Settlements, BillDue, BillCredited, BillSettled

LEMMA SettleIs ==
    ASSUME NEW b \in Bill, Credits[b] > 0,
           Dues' = Dues, Credits' = Credits, Settlements' = [Settlements EXCEPT ![b] = TRUE]
    PROVE  Promise!SettleBill(b)
BY DEF Promise!SettleBill, Dues, Credits, Settlements, BillDue, BillCredited, BillSettled

LEMMA PromiseStep ==
    ASSUME BillsMove \/ BillsSame
    PROVE  Promise!PromiseNext \/ UNCHANGED <<Dues, Credits, Settlements>>
<1>1. CASE BillsSame
  BY <1>1 DEF BillsSame, SameBill, SameDue, SameCredit, SameSettled, Dues, Credits, Settlements
<1>2. ASSUME NEW b \in Bill, BillStep(b), \A q \in Bill \ {b} : SameBill(q)
      PROVE  Promise!PromiseNext \/ UNCHANGED <<Dues, Credits, Settlements>>
  <2>1. /\ \A q \in Bill \ {b} : BillDue(q)' = BillDue(q)
        /\ \A q \in Bill \ {b} : BillCredited(q)' = BillCredited(q)
        /\ \A q \in Bill \ {b} : BillSettled(q)' = BillSettled(q)
    BY <1>2 DEF SameBill, SameDue, SameCredit, SameSettled
  <2>2. SameDue(b) => Dues' = Dues
    BY <2>1 DEF SameDue, Dues
  <2>3. SameCredit(b) => Credits' = Credits
    BY <2>1 DEF SameCredit, Credits
  <2>4. SameSettled(b) => Settlements' = Settlements
    BY <2>1 DEF SameSettled, Settlements
  <2>5. CASE SameBill(b)
    BY <2>2, <2>3, <2>4, <2>5 DEF SameBill
  <2>6. CASE /\ BillDue(b) = 0 /\ BillDue(b)' \in BillSums
             /\ SameCredit(b) /\ SameSettled(b)
    <3>1. PICK sum : sum = BillDue(b)'
      OBVIOUS
    <3>2. Dues' = [Dues EXCEPT ![b] = sum]
      BY <2>1, <3>1 DEF Dues
    <3>3. Dues[b] = 0
      BY <2>6 DEF Dues
    <3>4. Promise!Issue(b, sum)
      BY <2>3, <2>4, <2>6, <3>2, <3>3, IssueIs
    <3> QED
      BY <2>6, <3>1, <3>4 DEF Promise!PromiseNext, BillSums
  <2>7. CASE /\ BillDue(b) > 0 /\ BillCredited(b) = 0
             /\ BillCredited(b)' \in BillSums /\ BillCredited(b)' >= BillDue(b)
             /\ SameDue(b) /\ SameSettled(b)
    <3>1. PICK sum : sum = BillCredited(b)'
      OBVIOUS
    <3>2. Credits' = [Credits EXCEPT ![b] = sum]
      BY <2>1, <3>1 DEF Credits
    <3>3. Dues[b] > 0 /\ sum >= Dues[b] /\ Credits[b] = 0
      BY <2>7, <3>1 DEF Dues, Credits
    <3>4. Promise!CreditBill(b, sum)
      BY <2>2, <2>4, <2>7, <3>2, <3>3, CreditIs
    <3> QED
      BY <2>7, <3>1, <3>4 DEF Promise!PromiseNext, BillSums
  <2>8. CASE /\ BillCredited(b) > 0 /\ BillSettled(b)' = TRUE
             /\ SameDue(b) /\ SameCredit(b)
    <3>1. Settlements' = [Settlements EXCEPT ![b] = TRUE]
      BY <2>1, <2>8 DEF Settlements
    <3>2. Credits[b] > 0
      BY <2>8 DEF Credits
    <3>3. Promise!SettleBill(b)
      BY <2>2, <2>3, <2>8, <3>1, <3>2, SettleIs
    <3> QED
      BY <3>3 DEF Promise!PromiseNext
  <2> QED
    BY <1>2, <2>5, <2>6, <2>7, <2>8 DEF BillStep
<1> QED
  BY <1>1, <1>2 DEF BillsMove

\* Toman payments and coin orders keep the promise of PaymentPromise: whatever the
\* provider reports, twice, late or in contradiction, and wherever the process stops between
\* the two commits, a bill is credited once, in full, and settled only then
\* (payment_service.py:137-158, crypto_deposit_service.py:112-135).
THEOREM PaymentsImplementPromise == Spec => PaymentsKeepPromise
<1>1. Init => Promise!PromiseInit
  <2> SUFFICES ASSUME Init PROVE Promise!PromiseInit
    OBVIOUS
  <2>1. \A b \in Bill : BillDue(b) = 0 /\ BillCredited(b) = 0 /\ BillSettled(b) = FALSE
    BY FundsStart DEF BillSettled
  <2>2. /\ Dues = [b \in Bill |-> 0]
        /\ Credits = [b \in Bill |-> 0]
        /\ Settlements = [b \in Bill |-> FALSE]
    BY <2>1 DEF Dues, Credits, Settlements
  <2> QED
    BY <2>2 DEF Promise!PromiseInit, Dues, Credits, Settlements, BillDue, BillCredited, BillSettled
<1>2. Init => FundsInv
  BY FundsStart
<1>3. FundsInv /\ [Next]_vars => FundsInv'
  BY FundsStep
<1>4. FundsInv /\ [Next]_vars =>
        [Promise!PromiseNext]_<<
            [b \in Bill |-> IF b \in Payments THEN payment[b].amount ELSE order[b].amount],
            [b \in Bill |-> IF b \in Payments THEN SumOf(ledger[Payer[b]], b)
                            ELSE SumOf(coinLedger[Holder[b]], b)],
            [b \in Bill |-> IF b \in Payments THEN payment[b].status = "PAID"
                            ELSE order[b].status = "VERIFIED"]>>
  BY FundsStep, PromiseStep DEF Dues, Credits, Settlements, BillDue, BillCredited, BillSettled
<1> QED
  BY <1>1, <1>2, <1>3, <1>4, PTL DEF Spec, PaymentsKeepPromise, Promise!PromiseSpec, Promise!promiseVars

\* What holds of a tournament's money however its calls interleave and wherever they
\* stop, what it promises while none of them clashes, and that no credit is lost
\* while no tournament is disturbed (tournament_service.py:98-101, 224-228).
THEOREM TournamentsPay == Spec => []TournamentMoney
<1>1. ASSUME FundsInv PROVE TournamentMoney
  <2>1. TournamentTypeOK /\ calls \in Seq(Call) /\ WalletTypeOK
    BY <1>1 DEF FundsInv, TournamentInv, TournamentTypeOK, PaymentsInv, PaymentsTypeOK
  <2>2. ASSUME NEW t \in Tournaments PROVE NothingUnpaid(t) /\ (t \notin disturbed => PaidExactly(t))
    <3>1. RowsOK(t) /\ (t \notin disturbed => CalmOK(t))
      BY <1>1 DEF FundsInv, TournamentInv
    <3>2. ASSUME NEW u \in Users, tournament[t].fee > 0
          PROVE  Entries(u, t) <= Posted(u, "TOURNAMENT_ENTRY", t)
      <4>1. Entries(u, t) \in Nat /\ JoinsPaid(u, t) \in Nat
        BY <2>1, EntriesAre, JoinsAre
      <4>2. Posted(u, "TOURNAMENT_ENTRY", t) \in Nat
        BY <2>1, PostedNat
      <4>3. Entries(u, t) + JoinsPaid(u, t) <= Posted(u, "TOURNAMENT_ENTRY", t)
        BY <3>1, <3>2 DEF RowsOK
      <4> QED
        BY <4>1, <4>2, <4>3
    <3> QED
      BY <3>1, <3>2 DEF RowsOK, CalmOK, NothingUnpaid
  <2> QED
    BY <1>1, <2>2 DEF FundsInv, BalancesOK, Total, TournamentMoney
<1>2. FundsInv => TournamentMoney
  BY <1>1
<1> QED
  BY <1>2, FundsInvariant, PTL
=============================================================================
