------------------------------ MODULE RowProofs ------------------------------
(***************************************************************************)
(* What the other proof modules need to know of sums and of tables.        *)
(*                                                                         *)
(* Sums are those of the community modules: SumFunctionOnSet(f, S), which  *)
(* is defined by a recursive function that CHOOSE picks.  Whether there is *)
(* such a function, and what it adds up to, would be shown by induction    *)
(* over the finite set.  Here each fact is shown of a smallest set it does *)
(* not hold of: the subsets of a finite set are well-founded, so there is  *)
(* one (Least), and its subsets lead to a contradiction.                   *)
(*                                                                         *)
(* A table of rows is a function from users to sequences; AppendRow says   *)
(* what one more row changes.                                              *)
(***************************************************************************)
EXTENDS Integers, Sequences, Functions, SequenceTheorems,
        FiniteSetTheorems, WellFoundedInduction, TLAPS

\* The element the library takes first.
Chosen(s) == CHOOSE x \in s : TRUE

\* h gives every subset of S the sum of f over it, as the fold of the library computes it.
AddsUp(h, f, S) ==
    h = [s \in SUBSET S |-> IF s = {} THEN 0 ELSE f[Chosen(s)] + h[s \ {Chosen(s)}]]

\* A family of subsets of a finite set has a smallest member.
LEMMA Least ==
    ASSUME NEW S, IsFiniteSet(S), NEW T, T \subseteq SUBSET S, T # {}
    PROVE  \E s \in T : \A t \in T : ~ (t \subseteq s /\ t # s)
<1>1. IsWellFoundedOn(StrictSubsetOrdering(S), SUBSET S)
  BY FS_StrictSubsetOrderingWellFounded, FS_FiniteSubsetsOfFinite
<1>2. PICK s \in T : \A t \in T : ~ (<<t, s>> \in StrictSubsetOrdering(S))
  BY <1>1, WFMin
<1> QED
  BY <1>2 DEF StrictSubsetOrdering

LEMMA ChosenIn ==
    ASSUME NEW s, s # {}
    PROVE  Chosen(s) \in s
BY DEF Chosen

LEMMA SumIsFold ==
    ASSUME NEW S, NEW f
    PROVE  SumFunctionOnSet(f, S) = (CHOOSE h : AddsUp(h, f, S))[S]
BY DEF SumFunctionOnSet, FoldFunctionOnSet, MapThenFoldSet, AddsUp, Chosen

LEMMA AddsUpOnce ==
    ASSUME NEW S, IsFiniteSet(S), NEW f, NEW h, AddsUp(h, f, S),
           NEW R, NEW k, AddsUp(k, f, R), NEW u \in SUBSET S, u \subseteq R
    PROVE  h[u] = k[u]
<1> DEFINE Bad == {s \in SUBSET S : s \subseteq R /\ h[s] # k[s]}
<1> SUFFICES ASSUME Bad # {} PROVE FALSE
  OBVIOUS
<1>0. Bad \subseteq SUBSET S
  OBVIOUS
<1>1. PICK s \in Bad : \A t \in Bad : ~ (t \subseteq s /\ t # s)
  <2> HIDE DEF Bad
  <2> QED
    BY <1>0, Least
<1>2. h[s] = IF s = {} THEN 0 ELSE f[Chosen(s)] + h[s \ {Chosen(s)}]
  BY DEF AddsUp
<1>3. k[s] = IF s = {} THEN 0 ELSE f[Chosen(s)] + k[s \ {Chosen(s)}]
  BY DEF AddsUp
<1>4. s # {}
  BY <1>2, <1>3
<1>5. Chosen(s) \in s
  BY <1>4, ChosenIn
<1>6. s \ {Chosen(s)} \notin Bad
  BY <1>1, <1>5
<1>7. h[s \ {Chosen(s)}] = k[s \ {Chosen(s)}]
  BY <1>6
<1> QED
  BY <1>2, <1>3, <1>7

\* What the library's sum is by definition, for a function h that nothing is known of yet.
Folded(f, t) == (CHOOSE h : AddsUp(h, f, t))[t]

LEMMA TotalStep ==
    ASSUME NEW v, IsFiniteSet(v), NEW f, \E h : AddsUp(h, f, v),
           v # {} => \E h : AddsUp(h, f, v \ {Chosen(v)})
    PROVE  Folded(f, v) = IF v = {} THEN 0 ELSE f[Chosen(v)] + Folded(f, v \ {Chosen(v)})
<1>1. PICK h : AddsUp(h, f, v) /\ Folded(f, v) = h[v]
  BY DEF Folded
<1>2. h[v] = IF v = {} THEN 0 ELSE f[Chosen(v)] + h[v \ {Chosen(v)}]
  BY <1>1 DEF AddsUp
<1>3. CASE v = {}
  BY <1>1, <1>2, <1>3
<1>4. CASE v # {}
  <2> DEFINE x == v \ {Chosen(v)}
  <2>1. PICK k : AddsUp(k, f, x) /\ Folded(f, x) = k[x]
    BY <1>4 DEF Folded
  <2>2. x \in SUBSET v
    OBVIOUS
  <2>3. h[x] = k[x]
    BY <1>1, <2>1, <2>2, AddsUpOnce
  <2> QED
    BY <1>1, <1>2, <1>4, <2>1, <2>3
<1> QED
  BY <1>3, <1>4

LEMMA AddsUpExists ==
    ASSUME NEW S, IsFiniteSet(S), NEW f
    PROVE  \E h : AddsUp(h, f, S)
<1> DEFINE Bad == {s \in SUBSET S : ~ \E h : AddsUp(h, f, s)}
<1> SUFFICES ASSUME Bad # {} PROVE FALSE
  <2> S \in SUBSET S
    OBVIOUS
  <2> QED
    OBVIOUS
<1>0. Bad \subseteq SUBSET S
  OBVIOUS
<1>1. PICK v \in Bad : \A t \in Bad : ~ (t \subseteq v /\ t # v)
  <2> HIDE DEF Bad
  <2> QED
    BY <1>0, Least
<1>2. \A w \in SUBSET v : w # v => \E h : AddsUp(h, f, w)
  BY <1>0, <1>1
<1>3. ASSUME NEW w \in SUBSET v, w # v
      PROVE  Folded(f, w) = IF w = {} THEN 0 ELSE f[Chosen(w)] + Folded(f, w \ {Chosen(w)})
  <2>1. w \ {Chosen(w)} \in SUBSET v /\ w \ {Chosen(w)} # v
    BY <1>3
  <2>2. IsFiniteSet(w)
    BY <1>0, <1>3, FS_Subset
  <2> QED
    BY <1>2, <1>3, <2>1, <2>2, TotalStep
<1>4. PICK hv : hv = [s \in SUBSET v |-> IF s = {} THEN 0
                                         ELSE f[Chosen(s)] + Folded(f, s \ {Chosen(s)})]
  OBVIOUS
<1>5. ASSUME NEW s \in SUBSET v, s # {}
      PROVE  hv[s \ {Chosen(s)}] = Folded(f, s \ {Chosen(s)})
  <2> DEFINE w == s \ {Chosen(s)}
  <2>1. w \in SUBSET v /\ w # v
    BY <1>5, ChosenIn
  <2>2. hv[w] = IF w = {} THEN 0 ELSE f[Chosen(w)] + Folded(f, w \ {Chosen(w)})
    BY <1>4, <2>1
  <2> HIDE DEF w
  <2>3. hv[w] = Folded(f, w)
    BY <2>1, <2>2, <1>3
  <2> QED
    BY <2>3 DEF w
<1>6. hv = [s \in SUBSET v |-> IF s = {} THEN 0
                               ELSE f[Chosen(s)] + hv[s \ {Chosen(s)}]]
  BY <1>4, <1>5
<1>7. AddsUp(hv, f, v)
  BY <1>6 DEF AddsUp
<1> QED
  BY <1>7, <1>1

-----------------------------------------------------------------------------
(* Sums over finite sets.                                                  *)

LEMMA SumStep ==
    ASSUME NEW S, IsFiniteSet(S), NEW f
    PROVE  SumFunctionOnSet(f, S) =
             IF S = {} THEN 0
             ELSE f[Chosen(S)] + SumFunctionOnSet(f, S \ {Chosen(S)})
<1>1. \A t : SumFunctionOnSet(f, t) = Folded(f, t)
  BY SumIsFold DEF Folded
<1>2. IsFiniteSet(S \ {Chosen(S)})
  BY FS_Subset
<1>3. Folded(f, S) = IF S = {} THEN 0 ELSE f[Chosen(S)] + Folded(f, S \ {Chosen(S)})
  BY <1>2, AddsUpExists, TotalStep
<1> QED
  BY <1>1, <1>3

LEMMA SumEmpty ==
    ASSUME NEW f
    PROVE  SumFunctionOnSet(f, {}) = 0
BY SumStep, FS_EmptySet

LEMMA SumInt ==
    ASSUME NEW S, IsFiniteSet(S), NEW f, \A x \in S : f[x] \in Int
    PROVE  SumFunctionOnSet(f, S) \in Int
<1> DEFINE Bad == {s \in SUBSET S : SumFunctionOnSet(f, s) \notin Int}
<1> SUFFICES ASSUME Bad # {} PROVE FALSE
  <2> S \in SUBSET S
    OBVIOUS
  <2> QED
    OBVIOUS
<1>0. Bad \subseteq SUBSET S
  OBVIOUS
<1>1. PICK v \in Bad : \A t \in Bad : ~ (t \subseteq v /\ t # v)
  <2> HIDE DEF Bad
  <2> QED
    BY <1>0, Least
<1>2. CASE v = {}
  BY <1>2, <1>1, SumEmpty
<1>3. CASE v # {}
  <2> DEFINE w == v \ {Chosen(v)}
  <2>1. Chosen(v) \in v /\ v \subseteq S /\ w \in SUBSET S
    BY <1>0, <1>3, ChosenIn
  <2>2. w \subseteq v /\ w # v
    BY <2>1
  <2>3. SumFunctionOnSet(f, w) \in Int
    BY <1>1, <2>1, <2>2
  <2>4. IsFiniteSet(v)
    BY <2>1, FS_Subset
  <2>5. SumFunctionOnSet(f, v) = f[Chosen(v)] + SumFunctionOnSet(f, w)
    BY <1>3, <2>4, SumStep
  <2>6. f[Chosen(v)] \in Int
    BY <2>1
  <2> HIDE DEF w
  <2>7. SumFunctionOnSet(f, v) \in Int
    BY <2>3, <2>5, <2>6
  <2> QED
    BY <1>1, <2>7
<1> QED
  BY <1>2, <1>3

\* The order of the summands does not matter: any of them can be taken out first.
LEMMA SumTake ==
    ASSUME NEW S, IsFiniteSet(S), NEW f, \A x \in S : f[x] \in Int, NEW x \in S
    PROVE  SumFunctionOnSet(f, S) = f[x] + SumFunctionOnSet(f, S \ {x})
<1> DEFINE Out(s, y) == SumFunctionOnSet(f, s) = f[y] + SumFunctionOnSet(f, s \ {y})
           Bad == {s \in SUBSET S : \E y \in s : ~ Out(s, y)}
<1> SUFFICES ASSUME Bad # {} PROVE FALSE
  <2> S \in SUBSET S
    OBVIOUS
  <2> QED
    OBVIOUS
<1>0. Bad \subseteq SUBSET S
  OBVIOUS
<1>1. PICK v \in Bad : \A t \in Bad : ~ (t \subseteq v /\ t # v)
  <2> HIDE DEF Bad
  <2> QED
    BY <1>0, Least
<1>2. PICK y \in v : ~ Out(v, y)
  BY <1>1
<1> DEFINE c == Chosen(v)
           w == v \ {c}
           z == v \ {y}
           r == v \ {c, y}
<1>3. v \subseteq S /\ c \in v /\ w \in SUBSET S /\ z \in SUBSET S /\ r \in SUBSET S
  BY <1>0, <1>1, <1>2, ChosenIn
<1>4. IsFiniteSet(v) /\ IsFiniteSet(w) /\ IsFiniteSet(z) /\ IsFiniteSet(r)
  BY <1>3, FS_Subset
<1>5. SumFunctionOnSet(f, v) = f[c] + SumFunctionOnSet(f, w)
  BY <1>2, <1>4, SumStep
<1>6. c # y
  BY <1>2, <1>5
<1>7. w \notin Bad /\ z \notin Bad
  BY <1>1, <1>2, <1>3
<1>8. Out(w, y)
  BY <1>2, <1>3, <1>6, <1>7
<1>9. Out(z, c)
  BY <1>2, <1>3, <1>6, <1>7
<1>10. w \ {y} = r /\ z \ {c} = r
  OBVIOUS
<1>11. SumFunctionOnSet(f, w) = f[y] + SumFunctionOnSet(f, r)
  BY <1>8, <1>10
<1>12. SumFunctionOnSet(f, z) = f[c] + SumFunctionOnSet(f, r)
  BY <1>9, <1>10
<1>13. f[c] \in Int /\ f[y] \in Int /\ SumFunctionOnSet(f, r) \in Int
  BY <1>2, <1>3, <1>4, SumInt
<1> HIDE DEF c, w, r
<1>14. SumFunctionOnSet(f, v) = f[y] + SumFunctionOnSet(f, z)
  BY <1>5, <1>11, <1>12, <1>13
<1> QED
  BY <1>2, <1>14

LEMMA SumSame ==
    ASSUME NEW S, IsFiniteSet(S), NEW f, NEW g, \A x \in S : f[x] = g[x]
    PROVE  SumFunctionOnSet(f, S) = SumFunctionOnSet(g, S)
<1> DEFINE Bad == {s \in SUBSET S : SumFunctionOnSet(f, s) # SumFunctionOnSet(g, s)}
<1> SUFFICES ASSUME Bad # {} PROVE FALSE
  <2> S \in SUBSET S
    OBVIOUS
  <2> QED
    OBVIOUS
<1>0. Bad \subseteq SUBSET S
  OBVIOUS
<1>1. PICK v \in Bad : \A t \in Bad : ~ (t \subseteq v /\ t # v)
  <2> HIDE DEF Bad
  <2> QED
    BY <1>0, Least
<1>2. IsFiniteSet(v) /\ v \subseteq S
  BY <1>0, FS_Subset
<1>3. CASE v = {}
  BY <1>1, <1>3, SumEmpty
<1>4. CASE v # {}
  <2> DEFINE c == Chosen(v)
  <2>1. c \in v
    BY <1>4, ChosenIn
  <2>2. v \ {c} \notin Bad /\ v \ {c} \in SUBSET S
    BY <1>1, <1>2, <2>1
  <2>3. SumFunctionOnSet(f, v \ {c}) = SumFunctionOnSet(g, v \ {c})
    BY <2>2
  <2>4. f[c] = g[c]
    BY <1>2, <2>1
  <2>5. SumFunctionOnSet(f, v) = f[c] + SumFunctionOnSet(f, v \ {c})
    BY <1>2, <1>4, SumStep
  <2>6. SumFunctionOnSet(g, v) = g[c] + SumFunctionOnSet(g, v \ {c})
    BY <1>2, <1>4, SumStep
  <2>7. SumFunctionOnSet(f, v) = SumFunctionOnSet(g, v)
    BY <2>3, <2>4, <2>5, <2>6
  <2> QED
    BY <1>1, <2>7
<1> QED
  BY <1>3, <1>4

\* One summand changes.
LEMMA SumUpdate ==
    ASSUME NEW S, NEW f, NEW g, NEW c \in S, NEW d \in Int,
           IsFiniteSet(S), \A x \in S : f[x] \in Int,
           g[c] = f[c] + d, \A x \in S : x # c => g[x] = f[x]
    PROVE  SumFunctionOnSet(g, S) = SumFunctionOnSet(f, S) + d
<1> DEFINE r == S \ {c}
<1>1. IsFiniteSet(r) /\ \A x \in r : g[x] = f[x]
  BY FS_Subset
<1>2. SumFunctionOnSet(g, r) = SumFunctionOnSet(f, r)
  BY <1>1, SumSame
<1>3. f[c] \in Int /\ g[c] \in Int /\ \A x \in S : g[x] \in Int
  OBVIOUS
<1>4. SumFunctionOnSet(f, S) = f[c] + SumFunctionOnSet(f, r)
  BY SumTake
<1>5. SumFunctionOnSet(g, S) = g[c] + SumFunctionOnSet(g, r)
  BY <1>3, SumTake
<1>6. SumFunctionOnSet(f, r) \in Int
  BY <1>1, SumInt
<1> HIDE DEF r
<1> QED
  BY <1>2, <1>3, <1>4, <1>5, <1>6

\* One summand is added.
LEMMA SumExtend ==
    ASSUME NEW S, IsFiniteSet(S), NEW f, \A x \in S : f[x] \in Int,
           NEW c, c \notin S, f[c] \in Int
    PROVE  SumFunctionOnSet(f, S \cup {c}) = SumFunctionOnSet(f, S) + f[c]
<1>1. IsFiniteSet(S \cup {c})
  BY FS_AddElement
<1>2. (S \cup {c}) \ {c} = S
  OBVIOUS
<1>3. SumFunctionOnSet(f, S \cup {c}) = f[c] + SumFunctionOnSet(f, S)
  BY <1>1, <1>2, SumTake
<1>4. SumFunctionOnSet(f, S) \in Int
  BY SumInt
<1> QED
  BY <1>3, <1>4

\* A sum of sums.
LEMMA SumAdd ==
    ASSUME NEW S, IsFiniteSet(S), NEW f, NEW g, NEW h,
           \A x \in S : f[x] \in Int /\ g[x] \in Int /\ h[x] = f[x] + g[x]
    PROVE  SumFunctionOnSet(h, S) = SumFunctionOnSet(f, S) + SumFunctionOnSet(g, S)
<1> DEFINE Bad == {s \in SUBSET S : SumFunctionOnSet(h, s) #
                                    SumFunctionOnSet(f, s) + SumFunctionOnSet(g, s)}
<1> SUFFICES ASSUME Bad # {} PROVE FALSE
  <2> S \in SUBSET S
    OBVIOUS
  <2> QED
    OBVIOUS
<1>0. Bad \subseteq SUBSET S
  OBVIOUS
<1>1. PICK v \in Bad : \A t \in Bad : ~ (t \subseteq v /\ t # v)
  <2> HIDE DEF Bad
  <2> QED
    BY <1>0, Least
<1>2. IsFiniteSet(v) /\ v \subseteq S
  BY <1>0, FS_Subset
<1>3. CASE v = {}
  <2>1. SumFunctionOnSet(h, v) = 0 /\ SumFunctionOnSet(f, v) = 0 /\ SumFunctionOnSet(g, v) = 0
    BY <1>3, SumEmpty
  <2> QED
    BY <1>1, <2>1
<1>4. CASE v # {}
  <2> DEFINE c == Chosen(v)
             w == v \ {c}
  <2>1. c \in v
    BY <1>4, ChosenIn
  <2>2. w \notin Bad /\ w \in SUBSET S /\ IsFiniteSet(w)
    BY <1>1, <1>2, <2>1, FS_Subset
  <2>3. SumFunctionOnSet(h, w) = SumFunctionOnSet(f, w) + SumFunctionOnSet(g, w)
    BY <2>2
  <2>4. f[c] \in Int /\ g[c] \in Int /\ h[c] = f[c] + g[c]
    BY <1>2, <2>1
  <2>5. /\ SumFunctionOnSet(f, v) = f[c] + SumFunctionOnSet(f, w)
        /\ SumFunctionOnSet(g, v) = g[c] + SumFunctionOnSet(g, w)
        /\ SumFunctionOnSet(h, v) = h[c] + SumFunctionOnSet(h, w)
    BY <1>2, <1>4, SumStep
  <2>6. SumFunctionOnSet(f, w) \in Int /\ SumFunctionOnSet(g, w) \in Int
    BY <2>2, SumInt
  <2> HIDE DEF c, w
  <2>7. SumFunctionOnSet(h, v) = SumFunctionOnSet(f, v) + SumFunctionOnSet(g, v)
    BY <2>3, <2>4, <2>5, <2>6
  <2> QED
    BY <1>1, <2>7
<1> QED
  BY <1>3, <1>4

\* Summands of zero can be left out.
LEMMA SumRestrict ==
    ASSUME NEW S, IsFiniteSet(S), NEW f, \A x \in S : f[x] \in Int,
           NEW T \in SUBSET S, \A x \in S \ T : f[x] = 0
    PROVE  SumFunctionOnSet(f, S) = SumFunctionOnSet(f, T)
<1> DEFINE Bad == {s \in SUBSET S : T \subseteq s /\ SumFunctionOnSet(f, s) # SumFunctionOnSet(f, T)}
<1> SUFFICES ASSUME Bad # {} PROVE FALSE
  <2> S \in SUBSET S
    OBVIOUS
  <2> QED
    OBVIOUS
<1>0. Bad \subseteq SUBSET S
  OBVIOUS
<1>1. PICK v \in Bad : \A t \in Bad : ~ (t \subseteq v /\ t # v)
  <2> HIDE DEF Bad
  <2> QED
    BY <1>0, Least
<1>2. IsFiniteSet(v) /\ v \subseteq S /\ T \subseteq v /\ v # T
  BY <1>0, <1>1, FS_Subset
<1>3. PICK c \in v \ T : TRUE
  BY <1>2
<1>4. v \ {c} \notin Bad /\ v \ {c} \in SUBSET S /\ T \subseteq v \ {c} /\ IsFiniteSet(v \ {c})
  BY <1>1, <1>2, <1>3, FS_Subset
<1>5. SumFunctionOnSet(f, v \ {c}) = SumFunctionOnSet(f, T)
  BY <1>4
<1>6. SumFunctionOnSet(f, v) = f[c] + SumFunctionOnSet(f, v \ {c})
  BY <1>2, <1>3, SumTake
<1>7. f[c] = 0 /\ SumFunctionOnSet(f, v \ {c}) \in Int
  BY <1>2, <1>3, <1>4, SumInt
<1>8. SumFunctionOnSet(f, v) = SumFunctionOnSet(f, T)
  BY <1>5, <1>6, <1>7
<1> QED
  BY <1>1, <1>8

-----------------------------------------------------------------------------
(* Rows are appended to the table of one user.                             *)

LEMMA AppendRow ==
    ASSUME NEW U, NEW R, NEW l \in [U -> Seq(R)], NEW u \in U, NEW row \in R,
           NEW m, m = [l EXCEPT ![u] = Append(@, row)]
    PROVE  /\ m \in [U -> Seq(R)]
           /\ \A v \in U : v # u => m[v] = l[v]
           /\ Len(m[u]) = Len(l[u]) + 1
           /\ \A i \in 1..Len(l[u]) : m[u][i] = l[u][i]
           /\ m[u][Len(l[u]) + 1] = row
<1>1. l[u] \in Seq(R)
  OBVIOUS
<1>2. PICK s : s = Append(l[u], row)
  OBVIOUS
<1>3. /\ s \in Seq(R)
      /\ Len(s) = Len(l[u]) + 1
      /\ \A i \in 1..Len(l[u]) : s[i] = l[u][i]
      /\ s[Len(l[u]) + 1] = row
  BY <1>1, <1>2, AppendProperties
<1>4. m = [l EXCEPT ![u] = s]
  BY <1>2
<1> QED
  BY <1>3, <1>4
=============================================================================
