--------------------------- MODULE WarmupGateProofs ---------------------------
(***************************************************************************)
(* Theorems about WarmupGate, for every number of calls, processes, dates  *)
(* and providers, and for every ramp that never shrinks.                   *)
(***************************************************************************)
EXTENDS WarmupGate, FiniteSetTheorems, TLAPS

-----------------------------------------------------------------------------
(* sums *)

\* A set of natural numbers has a least one.
LEMMA LeastNatural ==
  ASSUME NEW B \in SUBSET Nat, B # {}
  PROVE  \E m \in B : \A y \in B : m <= y
<1> DEFINE T == {0 .. x : x \in B}
<1>1. T \subseteq FiniteSubsetsOf(Nat) /\ T # {}
  <2>1. ASSUME NEW x \in B PROVE 0 .. x \in FiniteSubsetsOf(Nat)
    <3>1. 0 .. x \in SUBSET Nat /\ IsFiniteSet(0 .. x)
      BY FS_Interval
    <3> QED
      BY <3>1 DEF FiniteSubsetsOf
  <2> QED
    BY <2>1
<1>2. PICK u \in T : \A v \in T : ~(<<v, u>> \in StrictSubsetOrdering(Nat))
  <2> HIDE DEF T
  <2> QED
    BY <1>1, FS_StrictSubsetOrderingWellFounded, WFMin
<1>3. PICK m \in B : u = 0 .. m
  BY <1>2
<1>4. ASSUME NEW y \in B, y < m PROVE FALSE
  <2>1. ~(<<0 .. y, 0 .. m>> \in StrictSubsetOrdering(Nat))
    BY <1>2, <1>3
  <2>2. 0 .. y \subseteq 0 .. m /\ m \in 0 .. m /\ m \notin 0 .. y
    BY <1>4
  <2>3. 0 .. y \subseteq Nat /\ 0 .. m \subseteq Nat
    OBVIOUS
  <2> QED
    BY <2>1, <2>2, <2>3 DEF StrictSubsetOrdering
<1> QED
  BY <1>4

\* The element a fold takes first.
Some(s) == CHOOSE x \in s : TRUE

\* A sum over the subsets of S obeys the equation that defines the fold.
SumsOf(F, f, S) ==
  \A s \in SUBSET S : F[s] = IF s = {} THEN 0 ELSE f[Some(s)] + F[s \ {Some(s)}]

LEMMA SumsExist ==
  ASSUME NEW S, IsFiniteSet(S), NEW f \in [S -> Int]
  PROVE  \E F \in [SUBSET S -> Int] : SumsOf(F, f, S)
<1> DEFINE Good(F, n) ==
      \A s \in SUBSET S : Cardinality(s) <= n =>
        F[s] = IF s = {} THEN 0 ELSE f[Some(s)] + F[s \ {Some(s)}]
<1> DEFINE B == {n \in Nat : ~ \E F \in [SUBSET S -> Int] : Good(F, n)}
<1>0. \A s \in SUBSET S : /\ IsFiniteSet(s) /\ Cardinality(s) \in Nat
                          /\ Cardinality(s) <= Cardinality(S)
                          /\ s = {} <=> Cardinality(s) = 0
  BY FS_Subset, FS_CardinalityType, FS_EmptySet
<1>00. \A s \in SUBSET S : s # {} =>
         /\ Some(s) \in s /\ f[Some(s)] \in Int /\ s \ {Some(s)} \in SUBSET S
         /\ Cardinality(s \ {Some(s)}) = Cardinality(s) - 1
  BY <1>0, FS_RemoveElement DEF Some
<1>1. ASSUME B # {} PROVE FALSE
  <2>1. PICK m \in B : \A y \in B : m <= y
    <3> HIDE DEF B
    <3>1. B \in SUBSET Nat
      BY DEF B
    <3> QED
      BY <1>1, <3>1, LeastNatural
  <2>2. \E F \in [SUBSET S -> Int] : m = 0 \/ Good(F, m - 1)
    <3>1. CASE m = 0
      <4> DEFINE Z == [s \in SUBSET S |-> 0]
      <4>1. Z \in [SUBSET S -> Int]
        OBVIOUS
      <4> QED
        BY <3>1, <4>1
    <3>2. CASE m # 0
      <4>1. m - 1 \in Nat /\ m - 1 \notin B
        <5> HIDE DEF B
        <5>1. B \in SUBSET Nat
          BY DEF B
        <5> QED
          BY <2>1, <3>2, <5>1
      <4>2. \E F \in [SUBSET S -> Int] : Good(F, m - 1)
        <5> HIDE DEF Good
        <5> QED
          BY <4>1
      <4> QED
        BY <4>2
    <3> QED
      BY <3>1, <3>2
  <2>3. PICK F \in [SUBSET S -> Int] : m = 0 \/ Good(F, m - 1)
    BY <2>2
  <2> DEFINE G == [s \in SUBSET S |-> IF s = {} THEN 0 ELSE f[Some(s)] + F[s \ {Some(s)}]]
  <2>4. G \in [SUBSET S -> Int]
    <3>1. ASSUME NEW s \in SUBSET S, s # {} PROVE f[Some(s)] + F[s \ {Some(s)}] \in Int
      <4>1. F[s \ {Some(s)}] \in Int
        BY <1>00, <3>1
      <4>2. f[Some(s)] \in Int
        BY <1>00, <3>1
      <4> QED
        BY <4>1, <4>2
    <3> QED
      BY <3>1
  <2>5. ASSUME NEW s \in SUBSET S, Cardinality(s) <= m
        PROVE  G[s] = IF s = {} THEN 0 ELSE f[Some(s)] + G[s \ {Some(s)}]
    <3>1. CASE s = {}
      BY <3>1
    <3>2. CASE s # {}
      <4> DEFINE t == s \ {Some(s)}
      <4>1. t \in SUBSET S /\ Cardinality(t) <= m - 1 /\ m # 0
        BY <1>0, <1>00, <2>1, <2>5, <3>2
      <4>2. F[t] = IF t = {} THEN 0 ELSE f[Some(t)] + F[t \ {Some(t)}]
        BY <2>3, <4>1
      <4>3. G[t] = F[t]
        BY <4>1, <4>2
      <4> QED
        BY <3>2, <4>3
    <3> QED
      BY <3>1, <3>2
  <2>6. Good(G, m)
    <3> HIDE DEF G
    <3> QED
      BY <2>5
  <2>7. m \notin B
    <3> HIDE DEF G, Good
    <3> QED
      BY <2>4, <2>6
  <2> QED
    BY <2>1, <2>7
<1>2. PICK F \in [SUBSET S -> Int] : Good(F, Cardinality(S))
  <2>1. Cardinality(S) \in Nat
    BY <1>0
  <2> QED
    BY <1>1, <2>1
<1>3. SumsOf(F, f, S)
  BY <1>0, <1>2 DEF SumsOf
<1> QED
  BY <1>3

\* If some subset of S has a property, a smallest one has it.
LEMMA SmallestSubset ==
  ASSUME NEW S, IsFiniteSet(S), NEW B \in SUBSET (SUBSET S), B # {}
  PROVE  \E t \in B : \A x \in t : t \ {x} \notin B
<1>1. B \subseteq FiniteSubsetsOf(S)
  BY FS_Subset DEF FiniteSubsetsOf
<1>2. PICK t \in B : \A v \in B : ~(<<v, t>> \in StrictSubsetOrdering(S))
  BY <1>1, FS_StrictSubsetOrderingWellFounded, WFMin
<1>3. ASSUME NEW x \in t, t \ {x} \in B PROVE FALSE
  <2>1. ~(<<t \ {x}, t>> \in StrictSubsetOrdering(S))
    BY <1>2, <1>3
  <2>2. t \ {x} \subseteq t /\ t \ {x} # t /\ t \in SUBSET S /\ t \ {x} \in SUBSET S
    OBVIOUS
  <2> QED
    BY <2>1, <2>2 DEF StrictSubsetOrdering
<1> QED
  BY <1>3

\* The equation has one solution.
LEMMA SumsAreUnique ==
  ASSUME NEW S, IsFiniteSet(S), NEW f, NEW F, NEW G, SumsOf(F, f, S), SumsOf(G, f, S),
         NEW s \in SUBSET S
  PROVE  F[s] = G[s]
<1> DEFINE B == {t \in SUBSET S : F[t] # G[t]}
<1>1. ASSUME B # {} PROVE FALSE
  <2>1. PICK t \in B : \A x \in t : t \ {x} \notin B
    BY <1>1, SmallestSubset
  <2>2. CASE t = {}
    BY <2>1, <2>2 DEF SumsOf
  <2>3. CASE t # {}
    <3>1. Some(t) \in t /\ t \ {Some(t)} \in SUBSET S
      BY <2>1, <2>3 DEF Some
    <3>2. F[t \ {Some(t)}] = G[t \ {Some(t)}]
      BY <2>1, <3>1
    <3>3. F[t] = f[Some(t)] + F[t \ {Some(t)}] /\ G[t] = f[Some(t)] + G[t \ {Some(t)}]
      BY <2>1, <2>3 DEF SumsOf
    <3> QED
      BY <2>1, <3>2, <3>3
  <2> QED
    BY <2>2, <2>3
<1> QED
  BY <1>1

\* SumFunctionOnSet is such a sum, of the whole set.
LEMMA SumIsFold ==
  ASSUME NEW S, IsFiniteSet(S), NEW f \in [S -> Int]
  PROVE  \E F \in [SUBSET S -> Int] : SumsOf(F, f, S) /\ SumFunctionOnSet(f, S) = F[S]
<1> DEFINE Eq(F) == F = [s \in SUBSET S |-> IF s = {} THEN 0
                       ELSE f[CHOOSE x \in s : TRUE] + F[s \ {CHOOSE x \in s : TRUE}]]
<1>1. PICK F0 \in [SUBSET S -> Int] : SumsOf(F0, f, S)
  BY SumsExist
<1>2. Eq(F0)
  BY <1>1 DEF SumsOf, Some
<1> DEFINE F == CHOOSE g : Eq(g)
<1>3. Eq(F)
  <2> HIDE DEF Eq
  <2> QED
    BY <1>2
<1>4. SumFunctionOnSet(f, S) = F[S]
  BY DEF SumFunctionOnSet, FoldFunctionOnSet, MapThenFoldSet
<1>5. SumsOf(F, f, S) /\ DOMAIN F = SUBSET S
  <2> HIDE DEF F
  <2>1. F = [s \in SUBSET S |-> IF s = {} THEN 0
               ELSE f[CHOOSE x \in s : TRUE] + F[s \ {CHOOSE x \in s : TRUE}]]
    BY <1>3
  <2> QED
    BY <2>1 DEF SumsOf, Some
<1>6. ASSUME NEW s \in SUBSET S PROVE F[s] = F0[s]
  <2> HIDE DEF F, Eq
  <2> QED
    BY <1>1, <1>5, SumsAreUnique
<1>7. F = F0
  <2> HIDE DEF Eq, F
  <2>1. F = [s \in SUBSET S |-> F[s]]
    BY <1>3 DEF Eq
  <2> QED
    BY <1>6, <2>1
<1> QED
  <2> HIDE DEF Eq, F
  <2> QED
    BY <1>1, <1>4, <1>7

\* A sum of integers is one.
LEMMA SumType ==
  ASSUME NEW S, IsFiniteSet(S), NEW f \in [S -> Int]
  PROVE  SumFunctionOnSet(f, S) \in Int
<1>1. PICK F \in [SUBSET S -> Int] : SumsOf(F, f, S) /\ SumFunctionOnSet(f, S) = F[S]
  BY SumIsFold
<1> QED
  BY <1>1

\* Sums of functions that differ at one point differ by as much.
LEMMA SumMoves ==
  ASSUME NEW S, IsFiniteSet(S), NEW f \in [S -> Int], NEW g \in [S -> Int], NEW a \in S,
         \A x \in S \ {a} : g[x] = f[x]
  PROVE  SumFunctionOnSet(g, S) = SumFunctionOnSet(f, S) + g[a] - f[a]
<1>1. PICK F \in [SUBSET S -> Int] : SumsOf(F, f, S) /\ SumFunctionOnSet(f, S) = F[S]
  BY SumIsFold
<1>2. PICK G \in [SUBSET S -> Int] : SumsOf(G, g, S) /\ SumFunctionOnSet(g, S) = G[S]
  BY SumIsFold
<1> DEFINE gap(s) == IF a \in s THEN g[a] - f[a] ELSE 0
           B == {s \in SUBSET S : G[s] # F[s] + gap(s)}
<1>3. ASSUME B # {} PROVE FALSE
  <2>1. PICK t \in B : \A x \in t : t \ {x} \notin B
    BY <1>3, SmallestSubset
  <2>2. CASE t = {}
    <3>1. F[t] = 0 /\ G[t] = 0
      BY <1>1, <1>2, <2>1, <2>2 DEF SumsOf
    <3> QED
      BY <2>1, <2>2, <3>1
  <2>3. CASE t # {}
    <3> DEFINE x == Some(t)
               u == t \ {x}
    <3>1. x \in t /\ x \in S /\ u \in SUBSET S /\ u \notin B
      BY <2>1, <2>3 DEF Some
    <3>2. F[t] = f[x] + F[u] /\ G[t] = g[x] + G[u]
      BY <1>1, <1>2, <2>1, <2>3 DEF SumsOf
    <3>3. G[u] = F[u] + gap(u) /\ G[t] # F[t] + gap(t)
      BY <2>1, <3>1
    <3>4. F[u] \in Int /\ G[u] \in Int /\ f[x] \in Int /\ g[x] \in Int /\ f[a] \in Int /\ g[a] \in Int
      BY <3>1
    <3>5. CASE x = a
      <4>1. a \notin u /\ a \in t
        BY <3>1, <3>5
      <4>2. gap(u) = 0 /\ gap(t) = g[a] - f[a]
        BY <4>1
      <4> HIDE DEF gap, x, u
      <4> QED
        BY <3>2, <3>3, <3>4, <3>5, <4>2
    <3>6. CASE x # a
      <4>1. a \in u <=> a \in t
        BY <3>6
      <4>2. gap(u) = gap(t) /\ gap(u) \in Int /\ g[x] = f[x]
        BY <3>1, <3>4, <3>6, <4>1
      <4> HIDE DEF gap, x, u
      <4> QED
        BY <3>2, <3>3, <3>4, <4>2
    <3> QED
      BY <3>5, <3>6
  <2> QED
    BY <2>2, <2>3
<1>4. G[S] = F[S] + gap(S)
  BY <1>3
<1> QED
  BY <1>1, <1>2, <1>4

\* A sum is no more than another of greater terms.
LEMMA SumGrows ==
  ASSUME NEW S, IsFiniteSet(S), NEW f \in [S -> Int], NEW g \in [S -> Int],
         \A x \in S : f[x] <= g[x]
  PROVE  SumFunctionOnSet(f, S) <= SumFunctionOnSet(g, S)
<1>1. PICK F \in [SUBSET S -> Int] : SumsOf(F, f, S) /\ SumFunctionOnSet(f, S) = F[S]
  BY SumIsFold
<1>2. PICK G \in [SUBSET S -> Int] : SumsOf(G, g, S) /\ SumFunctionOnSet(g, S) = G[S]
  BY SumIsFold
<1> DEFINE B == {s \in SUBSET S : ~(F[s] <= G[s])}
<1>3. ASSUME B # {} PROVE FALSE
  <2>1. PICK t \in B : \A x \in t : t \ {x} \notin B
    BY <1>3, SmallestSubset
  <2>2. CASE t = {}
    <3>1. F[t] = 0 /\ G[t] = 0
      BY <1>1, <1>2, <2>1, <2>2 DEF SumsOf
    <3> QED
      BY <2>1, <2>2, <3>1
  <2>3. CASE t # {}
    <3> DEFINE x == Some(t)
               u == t \ {x}
    <3>1. x \in t /\ x \in S /\ u \in SUBSET S /\ u \notin B
      BY <2>1, <2>3 DEF Some
    <3>2. F[t] = f[x] + F[u] /\ G[t] = g[x] + G[u]
      BY <1>1, <1>2, <2>1, <2>3 DEF SumsOf
    <3>3. F[u] <= G[u] /\ ~(F[t] <= G[t])
      BY <2>1, <3>1
    <3>4. F[u] \in Int /\ G[u] \in Int /\ f[x] \in Int /\ g[x] \in Int /\ f[x] <= g[x]
      BY <3>1
    <3> HIDE DEF x, u
    <3> QED
      BY <3>2, <3>3, <3>4
  <2> QED
    BY <2>2, <2>3
<1>4. F[S] <= G[S]
  BY <1>3
<1> QED
  BY <1>1, <1>2, <1>4

\* A sum of zeroes is zero.
LEMMA SumOfZeroes ==
  ASSUME NEW S, IsFiniteSet(S), NEW f \in [S -> Int], \A x \in S : f[x] = 0
  PROVE  SumFunctionOnSet(f, S) = 0
<1>1. PICK F \in [SUBSET S -> Int] : SumsOf(F, f, S) /\ SumFunctionOnSet(f, S) = F[S]
  BY SumIsFold
<1> DEFINE B == {s \in SUBSET S : F[s] # 0}
<1>2. ASSUME B # {} PROVE FALSE
  <2>1. PICK t \in B : \A x \in t : t \ {x} \notin B
    BY <1>2, SmallestSubset
  <2>2. CASE t = {}
    BY <1>1, <2>1, <2>2 DEF SumsOf
  <2>3. CASE t # {}
    <3>1. Some(t) \in t /\ Some(t) \in S /\ F[t \ {Some(t)}] = 0
      BY <2>1, <2>3 DEF Some
    <3>2. F[t] = f[Some(t)] + F[t \ {Some(t)}]
      BY <1>1, <2>1, <2>3 DEF SumsOf
    <3> QED
      BY <2>1, <3>1, <3>2
  <2> QED
    BY <2>2, <2>3
<1> QED
  BY <1>1, <1>2


\* The sum of a table of sums is the sum of the sums.
LEMMA SumAdds ==
  ASSUME NEW S, IsFiniteSet(S), NEW f \in [S -> Int], NEW g \in [S -> Int], NEW h \in [S -> Int],
         \A x \in S : h[x] = f[x] + g[x]
  PROVE  SumFunctionOnSet(h, S) = SumFunctionOnSet(f, S) + SumFunctionOnSet(g, S)
<1>1. PICK F \in [SUBSET S -> Int] : SumsOf(F, f, S) /\ SumFunctionOnSet(f, S) = F[S]
  BY SumIsFold
<1>2. PICK G \in [SUBSET S -> Int] : SumsOf(G, g, S) /\ SumFunctionOnSet(g, S) = G[S]
  BY SumIsFold
<1>3. PICK H \in [SUBSET S -> Int] : SumsOf(H, h, S) /\ SumFunctionOnSet(h, S) = H[S]
  BY SumIsFold
<1> DEFINE B == {s \in SUBSET S : H[s] # F[s] + G[s]}
<1>4. ASSUME B # {} PROVE FALSE
  <2>1. PICK t \in B : \A x \in t : t \ {x} \notin B
    BY <1>4, SmallestSubset
  <2>2. CASE t = {}
    <3>1. F[t] = 0 /\ G[t] = 0 /\ H[t] = 0
      BY <1>1, <1>2, <1>3, <2>1, <2>2 DEF SumsOf
    <3> QED
      BY <2>1, <2>2, <3>1
  <2>3. CASE t # {}
    <3> DEFINE x == Some(t)
               u == t \ {x}
    <3>1. x \in t /\ x \in S /\ u \in SUBSET S /\ u \notin B
      BY <2>1, <2>3 DEF Some
    <3>2. F[t] = f[x] + F[u] /\ G[t] = g[x] + G[u] /\ H[t] = h[x] + H[u]
      BY <1>1, <1>2, <1>3, <2>1, <2>3 DEF SumsOf
    <3>3. H[u] = F[u] + G[u] /\ H[t] # F[t] + G[t]
      BY <2>1, <3>1
    <3>4. F[u] \in Int /\ G[u] \in Int /\ f[x] \in Int /\ g[x] \in Int /\ h[x] = f[x] + g[x]
      BY <3>1
    <3> HIDE DEF x, u
    <3> QED
      BY <3>2, <3>3, <3>4
  <2> QED
    BY <2>2, <2>3
<1>5. H[S] = F[S] + G[S]
  BY <1>4
<1> QED
  BY <1>1, <1>2, <1>3, <1>5

\* A sum of natural numbers is no less than any of them.
LEMMA SumHasTerm ==
  ASSUME NEW S, IsFiniteSet(S), NEW f \in [S -> Nat], NEW a \in S
  PROVE  f[a] <= SumFunctionOnSet(f, S)
<1> DEFINE z == [x \in S |-> 0]
           g == [x \in S |-> IF x = a THEN f[a] ELSE 0]
<1>1. z \in [S -> Int] /\ g \in [S -> Int] /\ f \in [S -> Int]
  OBVIOUS
<1>2. SumFunctionOnSet(z, S) = 0
  <2>1. \A x \in S : z[x] = 0
    OBVIOUS
  <2> HIDE DEF z
  <2> QED
    BY <1>1, <2>1, SumOfZeroes
<1>3. SumFunctionOnSet(g, S) = f[a]
  <2>1. g[a] = f[a] /\ z[a] = 0 /\ \A x \in S \ {a} : g[x] = z[x]
    OBVIOUS
  <2>2. f[a] \in Int
    OBVIOUS
  <2> HIDE DEF z, g
  <2>3. SumFunctionOnSet(g, S) = SumFunctionOnSet(z, S) + g[a] - z[a]
    BY <1>1, <2>1, SumMoves
  <2> QED
    BY <1>2, <2>1, <2>2, <2>3
<1>4. SumFunctionOnSet(g, S) <= SumFunctionOnSet(f, S)
  <2>1. \A x \in S : g[x] <= f[x]
    OBVIOUS
  <2> HIDE DEF g
  <2> QED
    BY <1>1, <2>1, SumGrows
<1> QED
  BY <1>3, <1>4

\* The parts of a finite set, told apart by a label, add up to the whole of it.
LEMMA PartsAddUp ==
  ASSUME NEW S, IsFiniteSet(S), NEW A, IsFiniteSet(A), NEW label \in [A -> S]
  PROVE  SumFunctionOnSet([x \in S |-> Cardinality({e \in A : label[e] = x})], S) = Cardinality(A)
<1> DEFINE part(t, x) == {e \in t : label[e] = x}
           size(t) == [x \in S |-> Cardinality(part(t, x))]
           B == {t \in SUBSET A : SumFunctionOnSet(size(t), S) # Cardinality(t)}
<1>1. ASSUME NEW t \in SUBSET A
      PROVE  /\ IsFiniteSet(t) /\ size(t) \in [S -> Int]
             /\ \A x : IsFiniteSet(part(t, x)) /\ Cardinality(part(t, x)) \in Nat
  <2>1. IsFiniteSet(t)
    BY FS_Subset
  <2>2. \A x : IsFiniteSet(part(t, x))
    BY <2>1, FS_Subset
  <2>3. \A x : Cardinality(part(t, x)) \in Nat
    BY <2>2, FS_CardinalityType
  <2>4. size(t) \in [S -> Int]
    <3> HIDE DEF part
    <3> QED
      BY <2>3
  <2> QED
    BY <2>1, <2>2, <2>3, <2>4
<1>2. ASSUME B # {} PROVE FALSE
  <2>1. PICK t \in B : \A e \in t : t \ {e} \notin B
    <3> HIDE DEF B
    <3>1. B \in SUBSET (SUBSET A)
      BY DEF B
    <3> QED
      BY <1>2, <3>1, SmallestSubset
  <2>2. t \in SUBSET A
    BY <2>1
  <2>3. CASE t = {}
    <3>1. \A x \in S : size(t)[x] = 0
      BY <2>3, FS_EmptySet
    <3>2. size(t) \in [S -> Int]
      BY <1>1, <2>2
    <3>3. SumFunctionOnSet(size(t), S) = 0
      <4> HIDE DEF size
      <4> QED
        BY <3>1, <3>2, SumOfZeroes
    <3> QED
      BY <2>1, <2>3, <3>3, FS_EmptySet
  <2>4. CASE t # {}
    <3>1. PICK e \in t : TRUE
      BY <2>4
    <3> DEFINE u == t \ {e}
               a == label[e]
    <3>2. u \in SUBSET A /\ u \notin B /\ a \in S /\ e \in A
      BY <2>1, <2>2, <3>1
    <3>3. SumFunctionOnSet(size(u), S) = Cardinality(u)
      BY <3>2
    <3>4. Cardinality(t) = Cardinality(u) + 1 /\ Cardinality(u) \in Nat
      <4>1. IsFiniteSet(t) /\ IsFiniteSet(u)
        BY <1>1, <2>2, <3>2
      <4>2. Cardinality(t) \in Nat /\ Cardinality(u) \in Nat
        BY <4>1, FS_CardinalityType
      <4>3. Cardinality(u) = Cardinality(t) - 1
        BY <3>1, <4>1, FS_RemoveElement
      <4> HIDE DEF u
      <4> QED
        BY <4>2, <4>3
    <3>5. Cardinality(part(t, a)) = Cardinality(part(u, a)) + 1
      <4>1. part(u, a) = part(t, a) \ {e} /\ e \in part(t, a)
        BY <3>1
      <4>2. IsFiniteSet(part(t, a)) /\ Cardinality(part(t, a)) \in Nat
        BY <1>1, <2>2
      <4> HIDE DEF part, u, a
      <4>3. Cardinality(part(t, a) \ {e}) = Cardinality(part(t, a)) - 1
        BY <4>1, <4>2, FS_RemoveElement
      <4> QED
        BY <4>1, <4>2, <4>3
    <3>6. \A x \in S \ {a} : part(t, x) = part(u, x)
      OBVIOUS
    <3>7. /\ size(t) \in [S -> Int] /\ size(u) \in [S -> Int]
          /\ size(t)[a] = size(u)[a] + 1
          /\ \A x \in S \ {a} : size(t)[x] = size(u)[x]
      <4>1. size(t) \in [S -> Int] /\ size(u) \in [S -> Int]
        BY <1>1, <2>2, <3>2
      <4> HIDE DEF part, u, a
      <4> QED
        BY <3>2, <3>5, <3>6, <4>1
    <3>8. SumFunctionOnSet(size(t), S) = SumFunctionOnSet(size(u), S) + size(t)[a] - size(u)[a]
      <4> HIDE DEF size, u, a
      <4> QED
        BY <3>2, <3>7, SumMoves
    <3>9. size(u)[a] \in Int /\ size(t)[a] \in Int
      <4> HIDE DEF size, u, a
      <4> QED
        BY <3>2, <3>7
    <3>10. SumFunctionOnSet(size(t), S) = Cardinality(t)
      <4> HIDE DEF size, u, a
      <4> QED
        BY <3>3, <3>4, <3>7, <3>8, <3>9
    <3> QED
      BY <2>1, <3>10
  <2> QED
    BY <2>3, <2>4
<1>3. A \in SUBSET A /\ A \notin B
  BY <1>2
<1>4. SumFunctionOnSet(size(A), S) = Cardinality(A)
  BY <1>3
<1> QED
  BY <1>4

-----------------------------------------------------------------------------
(* dates and days *)

\* Half of a moment is a date of the model.
LEMMA DateOfType == \A t \in Time : DateOf(t) \in Dates /\ t <= 2 * DateOf(t) + 1
  BY DateAssumption, SMT DEF DateOf, Time, Dates

\* A moment of a ramp that has started falls on a day of the ramp.
LEMMA DayOfType == \A t, s \in Time : DayOf(t, s) \in Days
  BY DateAssumption, SMT DEF DayOf, Time, Days

\* The ramp's day never goes back as time passes.
LEMMA DayOfGrows == \A t, u, s \in Time : t <= u => DayOf(t, s) <= DayOf(u, s)
  BY DateAssumption, SMT DEF DayOf, Time

\* What a call may compare with is at most what its whole date allows.
LEMMA CapWithinDate ==
  ASSUME NEW t \in Time, NEW s \in Time, NEW k \in Keys
  PROVE  /\ Cap[DayOf(t, s)][k] \in Nat
         /\ CapOn(DateOf(t), k, s) \in Nat
         /\ Cap[DayOf(t, s)][k] <= CapOn(DateOf(t), k, s)
<1> DEFINE u == 2 * DateOf(t) + 1
<1>1. u \in Time /\ t <= u
  BY DateAssumption, SMT DEF DateOf, Time
<1>2. DayOf(t, s) \in Days /\ DayOf(u, s) \in Days /\ DayOf(t, s) <= DayOf(u, s)
  BY <1>1, DayOfType, DayOfGrows
<1>3. s # Unset
  BY SMT DEF Time, Unset
<1>4. CapOn(DateOf(t), k, s) = Cap[DayOf(u, s)][k]
  BY <1>3 DEF CapOn
<1>5. Cap[DayOf(t, s)][k] <= Cap[DayOf(u, s)][k]
  BY <1>2, CapGrows
<1> QED
  BY <1>2, <1>4, <1>5, CapAssumption

-----------------------------------------------------------------------------
(* types *)

\* A reader of the stored start finds one.
StartIsStored == \A c \in Calls : call[c].pc = "get" => redisStart # Unset

TypeInv == TypeOK /\ StartIsStored

CallRecord == [pc : PCs, now : Time, day : Days, isp : Keys, key : Keys, via : Stores]

LEMMA IdleType == Idle \in CallRecord
  BY DateAssumption, SMT DEF Idle, CallRecord, PCs, Time, Days, Keys, Stores, Total

LEMMA TypeInit == Init => TypeInv
<1> SUFFICES ASSUME Init PROVE TypeInv
  OBVIOUS
<1>1. 0 \in Time
  BY DateAssumption, SMT DEF Time
<1>2. call \in [Calls -> CallRecord]
  BY IdleType DEF Init
<1>3. Zero \in [Keys -> Nat] /\ Zero \in [Keys -> Int]
  BY DEF Zero
<1>4. faults \in 0 .. MaxFaults /\ crashes \in 0 .. MaxCrashes
  BY FaultAssumption, SMT DEF Init
<1>5. StartIsStored
  BY DEF Init, StartIsStored, Idle
<1> QED
  BY <1>1, <1>2, <1>3, <1>4, <1>5 DEF Init, TypeInv, TypeOK, CallRecord

\* Counters of a process stay a table of integers.
LEMMA BumpedType ==
  ASSUME TypeOK, NEW w \in Workers, NEW d, NEW k \in Keys, NEW n \in Int
  PROVE  Bumped(w, d, k, n) \in [Keys -> Int]
<1> DEFINE base == IF localDay[w] = d THEN local[w] ELSE Zero
<1>1. base \in [Keys -> Int]
  BY DEF TypeOK, Zero
<1>2. Bumped(w, d, k, n) = [base EXCEPT ![k] = @ + n]
  BY DEF Bumped
<1> QED
  BY <1>1, <1>2

\* Recording a send keeps the tables of sends well typed.
LEMMA RecordType ==
  ASSUME NEW g \in [Stores -> [Dates -> [Keys -> Nat]]],
         NEW s \in Stores, NEW d \in Dates, NEW k \in Keys
  PROVE  Record(g, s, d, k) \in [Stores -> [Dates -> [Keys -> Nat]]]
  BY DEF Record

\* What a comparison leaves behind is well typed.
LEMMA CompareType ==
  ASSUME TypeInv, NEW c \in Calls, NEW v, NEW s \in Stores, Compare(c, v, s)
  PROVE  /\ call' \in [Calls -> CallRecord]
         /\ granted' \in [Stores -> [Dates -> [Keys -> Nat]]]
         /\ call'[c].pc # "get"
         /\ \A b \in Calls \ {c} : call'[b] = call[b]
<1>1. call \in [Calls -> CallRecord] /\ granted \in [Stores -> [Dates -> [Keys -> Nat]]]
  BY DEF TypeInv, TypeOK, CallRecord
<1>2. Total \in Keys
  BY DEF Keys
<1>3. CASE call' = [call EXCEPT ![c].pc = "undo"] /\ UNCHANGED granted
  BY ZenonT(40), <1>1, <1>3 DEF CallRecord, PCs
<1>4. CASE /\ call' = [call EXCEPT ![c].pc = "incr", ![c].key = Total, ![c].via = s]
           /\ UNCHANGED granted
  BY ZenonT(40), <1>1, <1>2, <1>4 DEF CallRecord, PCs
<1>5. CASE call' = [call EXCEPT ![c] = Idle] /\ Grant(c, s)
  <2>1. /\ call[c].via \in Stores
        /\ call[c].isp \in Keys
        /\ DateOf(call[c].now) \in Dates
    BY <1>1, DateOfType DEF CallRecord
  <2>2. granted' \in [Stores -> [Dates -> [Keys -> Nat]]]
    <3> DEFINE g == Record(granted, call[c].via, DateOf(call[c].now), call[c].isp)
    <3>1. g \in [Stores -> [Dates -> [Keys -> Nat]]]
      BY <1>1, <2>1, RecordType
    <3> HIDE DEF g
    <3>2. Record(g, s, DateOf(call[c].now), Total) \in [Stores -> [Dates -> [Keys -> Nat]]]
      BY <1>2, <2>1, <3>1, RecordType
    <3> QED
      BY <1>5, <3>2 DEF Grant, g
  <2>3. call' \in [Calls -> CallRecord] /\ call'[c].pc = "idle"
    BY <1>1, <1>5, IdleType DEF Idle
  <2> QED
    BY <1>1, <1>5, <2>2, <2>3
<1> QED
  BY <1>3, <1>4, <1>5 DEF Compare

\* Every action keeps the types, whether or not Redis rejects its command.
LEMMA TypeStep == TypeInv /\ [Next]_vars => TypeInv'
<1> SUFFICES ASSUME TypeInv, [Next]_vars PROVE TypeInv'
  OBVIOUS
<1> USE DEF TypeInv
<1>1. /\ clock \in Time
      /\ redisStart \in Time \cup {Unset}
      /\ count \in [Dates -> [Keys -> Int]]
      /\ startedAt \in [Workers -> Time \cup {Unset}]
      /\ local \in [Workers -> [Keys -> Int]]
      /\ localDay \in [Workers -> Dates \cup {Unset}]
      /\ call \in [Calls -> CallRecord]
      /\ granted \in [Stores -> [Dates -> [Keys -> Nat]]]
      /\ faults \in 0 .. MaxFaults
      /\ crashes \in 0 .. MaxCrashes
  BY DEF TypeOK, CallRecord
<1>2. Unset \notin Time /\ Zero \in [Keys -> Int] /\ Total \in Keys /\ 1 \in Days
  BY DateAssumption, SMT DEF Unset, Time, Zero, Keys, Days
<1>3. \A c \in Calls : /\ WorkerOf[c] \in Workers
                       /\ WorkerOf[c] \in Stores
                       /\ call[c] \in CallRecord
                       /\ DateOf(call[c].now) \in Dates
  BY <1>1, CallAssumption, DateOfType DEF CallRecord, Stores
<1>4. Fault => faults' \in 0 .. MaxFaults
  BY <1>1, FaultAssumption, SMT DEF Fault
<1>5. Redis \in Stores
  BY DEF Stores
<1>6. ASSUME NEW c \in Calls, Reserve(c) PROVE TypeInv'
  <2> DEFINE known == IF Configured # Unset THEN Configured ELSE startedAt[WorkerOf[c]]
  <2>1. known \in Time \cup {Unset}
    BY <1>1, <1>3, StartAssumption
  <2>2. PICK i \in Isps :
          call' = [call EXCEPT ![c] =
                     [Idle EXCEPT !.now = clock, !.isp = i, !.key = i,
                        !.pc  = IF known = Unset THEN "setnx" ELSE "incr",
                        !.day = IF known = Unset THEN 1 ELSE DayOf(clock, known)]]
    BY <1>6 DEF Reserve
  <2>3. (IF known = Unset THEN 1 ELSE DayOf(clock, known)) \in Days
    BY <1>1, <1>2, <2>1, DayOfType
  <2>4. call' \in [Calls -> CallRecord] /\ call'[c].pc # "get"
    BY <1>1, <2>2, <2>3, IdleType DEF CallRecord, PCs, Keys
  <2>5. StartIsStored'
    BY <1>1, <1>6, <2>2, <2>4 DEF Reserve, StartIsStored
  <2> QED
    BY <1>1, <1>6, <2>4, <2>5 DEF Reserve, TypeOK, CallRecord
<1>7. ASSUME NEW c \in Calls, NEW s \in Time, Resolve(c, s)
      PROVE  /\ startedAt' \in [Workers -> Time \cup {Unset}]
             /\ call' \in [Calls -> CallRecord]
             /\ call'[c].pc = "incr"
             /\ \A b \in Calls \ {c} : call'[b] = call[b]
  <2>1. DayOf(call[c].now, s) \in Days
    BY <1>3, DayOfType DEF CallRecord
  <2> QED
    BY ZenonT(40), <1>1, <1>3, <1>7, <2>1 DEF Resolve, CallRecord, PCs
<1>8. ASSUME NEW c \in Calls, SetStart(c) PROVE TypeInv'
  <2>1. call[c].now \in Time
    BY <1>3 DEF CallRecord
  <2>2. CASE /\ redisStart' = SetNx(c)
             /\ call' = [call EXCEPT ![c].pc = "get"]
             /\ UNCHANGED <<startedAt, faults>>
    <3>1. redisStart' \in Time
      BY <1>1, <2>1, <2>2 DEF SetNx
    <3>2. call' \in [Calls -> CallRecord]
      BY ZenonT(40), <1>1, <2>2 DEF CallRecord, PCs
    <3> QED
      BY <1>1, <1>2, <1>8, <2>2, <3>1, <3>2 DEF SetStart, TypeOK, CallRecord, StartIsStored
  <2>3. CASE Fault /\ Resolve(c, call[c].now) /\ UNCHANGED redisStart
    BY <1>1, <1>4, <1>7, <1>8, <2>1, <2>3 DEF SetStart, TypeOK, CallRecord, StartIsStored
  <2> QED
    BY <1>8, <2>2, <2>3 DEF SetStart
<1>9. ASSUME NEW c \in Calls, GetStart(c) PROVE TypeInv'
  <2>1. call[c].now \in Time /\ redisStart \in Time
    BY <1>1, <1>3, <1>9 DEF CallRecord, GetStart, StartIsStored
  <2>2. Resolve(c, redisStart) \/ Resolve(c, call[c].now)
    BY <1>9 DEF GetStart, ReadBack
  <2>3. faults' \in 0 .. MaxFaults
    BY <1>1, <1>4, <1>9 DEF GetStart
  <2> QED
    BY <1>1, <1>7, <1>9, <2>1, <2>2, <2>3 DEF GetStart, TypeOK, CallRecord, StartIsStored
<1>10. ASSUME NEW c \in Calls, NEW n \in Int, BumpLocal(c, n)
       PROVE  /\ local' \in [Workers -> [Keys -> Int]]
              /\ localDay' \in [Workers -> Dates \cup {Unset}]
  <2>1. Bumped(WorkerOf[c], DateOf(call[c].now), call[c].key, n) \in [Keys -> Int]
    BY <1>3, BumpedType DEF CallRecord
  <2> QED
    BY <1>1, <1>3, <1>10, <2>1 DEF BumpLocal
<1>11. ASSUME NEW c \in Calls, CountLocally(c)
       PROVE  /\ local' \in [Workers -> [Keys -> Int]]
              /\ localDay' \in [Workers -> Dates \cup {Unset}]
              /\ faults' \in 0 .. MaxFaults
              /\ call' \in [Calls -> CallRecord]
              /\ granted' \in [Stores -> [Dates -> [Keys -> Nat]]]
              /\ call'[c].pc # "get"
              /\ \A b \in Calls \ {c} : call'[b] = call[b]
  BY <1>3, <1>4, <1>10, <1>11, CompareType DEF CountLocally
<1>12. ASSUME NEW c \in Calls, Increment(c) PROVE TypeInv'
  <2> DEFINE d == DateOf(call[c].now)
             v == count[d][call[c].key] + 1
  <2>1. d \in Dates /\ call[c].key \in Keys /\ v \in Int
    BY <1>1, <1>3 DEF CallRecord
  <2>2. CASE /\ count' = [count EXCEPT ![d][call[c].key] = v]
             /\ IF v = 1
                THEN call' = [call EXCEPT ![c].pc = "expire"] /\ UNCHANGED granted
                ELSE Compare(c, v, Redis)
             /\ UNCHANGED <<local, localDay, faults>>
    <3> HIDE DEF v
    <3>1. count' \in [Dates -> [Keys -> Int]]
      BY <1>1, <2>1, <2>2
    <3>2. CASE call' = [call EXCEPT ![c].pc = "expire"] /\ UNCHANGED granted
      <4>1. call' \in [Calls -> CallRecord]
        BY ZenonT(40), <1>1, <3>2 DEF CallRecord, PCs
      <4> QED
        BY <1>1, <1>12, <2>2, <3>1, <3>2, <4>1
           DEF Increment, TypeOK, CallRecord, StartIsStored
    <3>3. CASE Compare(c, v, Redis)
      BY <1>1, <1>5, <1>12, <2>2, <3>1, <3>3, CompareType
         DEF Increment, TypeOK, CallRecord, StartIsStored
    <3> QED
      BY <2>2, <3>2, <3>3
  <2>3. CASE CountLocally(c) /\ UNCHANGED count
    BY <1>1, <1>11, <1>12, <2>3 DEF Increment, TypeOK, CallRecord, StartIsStored
  <2> QED
    BY <1>12, <2>2, <2>3 DEF Increment
<1>13. ASSUME NEW c \in Calls, Expire(c) PROVE TypeInv'
  <2>1. CASE Compare(c, 1, Redis) /\ UNCHANGED <<local, localDay, faults>>
    BY <1>1, <1>5, <1>13, <2>1, CompareType DEF Expire, TypeOK, CallRecord, StartIsStored
  <2>2. CASE CountLocally(c)
    BY <1>1, <1>11, <1>13, <2>2 DEF Expire, TypeOK, CallRecord, StartIsStored
  <2> QED
    BY <1>13, <2>1, <2>2 DEF Expire
<1>14. ASSUME NEW c \in Calls, Decrement(c) PROVE TypeInv'
  <2>1. Rollback(c) \in CallRecord /\ (call[c].pc = "undo" => Rollback(c).pc # "get")
    BY <1>3, IdleType DEF Rollback, CallRecord, Idle
  <2>2. call' \in [Calls -> CallRecord] /\ StartIsStored'
    BY <1>1, <1>14, <2>1 DEF Decrement, StartIsStored
  <2>3. CASE /\ count' = [count EXCEPT ![DateOf(call[c].now)][call[c].key] = @ - 1]
             /\ UNCHANGED <<local, localDay, faults>>
    <3>1. count' \in [Dates -> [Keys -> Int]]
      BY <1>1, <1>3, <2>3 DEF CallRecord
    <3> QED
      BY <1>1, <1>14, <2>2, <2>3, <3>1 DEF Decrement, TypeOK, CallRecord
  <2>4. CASE Fault /\ BumpLocal(c, -1) /\ UNCHANGED count
    BY <1>1, <1>4, <1>10, <1>14, <2>2, <2>4 DEF Decrement, TypeOK, CallRecord
  <2> QED
    BY <1>14, <2>3, <2>4 DEF Decrement
<1>15. CASE Tick
  <2>1. clock' \in Time
    BY <1>1, <1>15, DateAssumption, SMT DEF Tick, Time
  <2> QED
    BY <1>1, <1>15, <2>1 DEF Tick, TypeOK, CallRecord, StartIsStored
<1>16. ASSUME NEW w \in Workers, Crash(w) PROVE TypeInv'
  <2>1. crashes' \in 0 .. MaxCrashes
    BY <1>1, <1>16, FaultAssumption, SMT DEF Crash
  <2>2. call' \in [Calls -> CallRecord]
    BY <1>1, <1>16, IdleType DEF Crash
  <2>3. StartIsStored'
    BY <1>16 DEF Crash, StartIsStored, Idle
  <2> QED
    BY <1>1, <1>2, <1>16, <2>1, <2>2, <2>3 DEF Crash, TypeOK, CallRecord
<1>17. CASE UNCHANGED vars
  BY <1>1, <1>17 DEF vars, TypeOK, CallRecord, StartIsStored
<1> QED
  BY <1>6, <1>8, <1>9, <1>12, <1>13, <1>14, <1>15, <1>16, <1>17 DEF Next, Step

\* The variables keep their types, and a start is stored before anyone reads it back.
THEOREM TypeCorrect == Spec => []TypeOK
<1>1. Spec => []TypeInv
  BY TypeInit, TypeStep, PTL DEF Spec
<1>2. TypeInv => TypeOK
  BY DEF TypeInv
<1> QED
  BY <1>1, <1>2, PTL

-----------------------------------------------------------------------------
(* the quota, while the shared store answers *)

\* What a call captured agrees with where it is: it works on its bucket before the
\* total, and once it counts, it is paced by the ramp every process shares.
CallsAreSane ==
  \A c \in Calls :
    /\ call[c].via = Redis
    /\ call[c].pc # "idle" => call[c].isp \in Isps /\ call[c].key \in {call[c].isp, Total}
    /\ call[c].pc \in {"setnx", "get"} => call[c].key = call[c].isp /\ Configured = Unset
    /\ call[c].pc \in {"incr", "expire", "undo"} =>
         Start # Unset /\ call[c].day = DayOf(call[c].now, Start)

\* A counter holds at least what was let through and what calls still hold.
Counted ==
  \A d \in Dates, k \in Keys :
    count[d][k] >= granted[Redis][d][k] + Cardinality(Holders(d, k))

\* Until a crash loses a call, it holds exactly that.
Balanced ==
  crashes = 0 => \A d \in Dates, k \in Keys :
                   count[d][k] = granted[Redis][d][k] + Cardinality(Holders(d, k))

\* What was let through, with what is past the comparison, is within the ramp.
Within ==
  \A d \in Dates, k \in Keys :
    granted[Redis][d][k] + Cardinality(Passed(d, k)) <= CapOn(d, k, Start)

QuotaInv == TypeInv /\ OneRamp /\ CallsAreSane /\ Counted /\ Balanced /\ Within

\* No command is rejected where the bound on rejections is zero.
LEMMA NoFault == ASSUME MaxFaults = 0, TypeOK PROVE ~Fault
  BY SMT DEF TypeOK, Fault

\* The ramp allows a number of sends on every date, none before it starts.
LEMMA CapOnType ==
  ASSUME NEW s \in Time \cup {Unset}, NEW d \in Dates, NEW k \in Keys
  PROVE  CapOn(d, k, s) \in Nat
<1>1. CASE s = Unset
  BY <1>1 DEF CapOn
<1>2. CASE s \in Time
  <2>1. s # Unset
    BY <1>2, SMT DEF Time, Unset
  <2>2. 2 * d + 1 \in Time
    BY DateAssumption, SMT DEF Dates, Time
  <2> QED
    BY <1>2, <2>1, <2>2, DayOfType, CapAssumption DEF CapOn
<1> QED
  BY <1>1, <1>2

LEMMA StartType == TypeOK => Start \in Time \cup {Unset}
  BY StartAssumption DEF TypeOK, Start

LEMMA QuotaInit == Init => QuotaInv
<1> SUFFICES ASSUME Init PROVE QuotaInv
  OBVIOUS
<1>1. OneRamp /\ CallsAreSane
  BY DEF Init, OneRamp, CallsAreSane, Idle
<1>2. \A d, k : Holders(d, k) = {} /\ Passed(d, k) = {}
  BY DEF Init, Holders, Passed, Holds, Through, Idle
<1>3. \A d \in Dates, k \in Keys : CapOn(d, k, Start) \in Nat
  BY TypeInit, CapOnType, StartType DEF TypeInv
<1>4. \A d \in Dates, k \in Keys : count[d][k] = 0 /\ granted[Redis][d][k] = 0
  BY DEF Init, Zero, Stores
<1>5. Counted /\ Balanced
  BY <1>2, <1>4, FS_EmptySet DEF Counted, Balanced
<1>6. Within
  BY SMTT(30), <1>2, <1>3, <1>4, FS_EmptySet DEF Within
<1> QED
  BY <1>1, <1>5, <1>6, TypeInit DEF QuotaInv

\* A set that one element joins or leaves grows or shrinks by one.
Bit(p) == IF p THEN 1 ELSE 0

LEMMA OneMoves ==
  ASSUME NEW A, NEW B, IsFiniteSet(A), NEW c, \A b : b # c => (b \in A <=> b \in B)
  PROVE  /\ Cardinality(A) \in Nat /\ Cardinality(B) \in Nat
         /\ Cardinality(B) = Cardinality(A) + Bit(c \in B) - Bit(c \in A)
<1>1. Cardinality(A) \in Nat
  BY FS_CardinalityType
<1>2. CASE c \in A <=> c \in B
  <2>1. A = B
    BY <1>2
  <2> QED
    BY <1>1, <2>1, SMT DEF Bit
<1>3. CASE c \notin A /\ c \in B
  <2>1. B = A \cup {c}
    BY <1>3
  <2> QED
    BY <1>1, <1>3, <2>1, FS_AddElement, SMT DEF Bit
<1>4. CASE c \in A /\ c \notin B
  <2>1. B = A \ {c}
    BY <1>4
  <2>2. IsFiniteSet(B) /\ Cardinality(B) = Cardinality(A) - 1
    BY <1>4, <2>1, FS_RemoveElement
  <2> QED
    BY <1>1, <1>4, <2>2, FS_CardinalityType, SMT DEF Bit
<1> QED
  BY <1>2, <1>3, <1>4

\* The calls that hold a key are finitely many, and those past its cap are among them.
LEMMA HoldersFinite ==
  ASSUME NEW d, NEW k
  PROVE  /\ IsFiniteSet(Holders(d, k)) /\ IsFiniteSet(Passed(d, k))
         /\ Cardinality(Holders(d, k)) \in Nat /\ Cardinality(Passed(d, k)) \in Nat
         /\ Cardinality(Passed(d, k)) <= Cardinality(Holders(d, k))
<1>1. Passed(d, k) \subseteq Holders(d, k) /\ Holders(d, k) \subseteq Calls
  BY DEF Passed, Holders, Through
<1>2. IsFiniteSet(Holders(d, k)) /\ IsFiniteSet(Passed(d, k))
  BY <1>1, CallAssumption, FS_Subset
<1> QED
  BY <1>1, <1>2, FS_CardinalityType, FS_Subset

\* A step of call c alone moves only c among those sets.
LEMMA CallMoves ==
  ASSUME NEW c \in Calls, \A b \in Calls \ {c} : call'[b] = call[b], NEW d, NEW k
  PROVE  /\ Cardinality(Holders(d, k)') \in Nat
         /\ Cardinality(Passed(d, k)') \in Nat
         /\ Cardinality(Holders(d, k)') =
              Cardinality(Holders(d, k)) + Bit(Holds(call'[c], d, k)) - Bit(Holds(call[c], d, k))
         /\ Cardinality(Passed(d, k)') =
              Cardinality(Passed(d, k)) + Bit(Through(call'[c], d, k)) - Bit(Through(call[c], d, k))
<1>1. \A b : b # c => (b \in Holders(d, k) <=> b \in Holders(d, k)')
  BY DEF Holders
<1>2. \A b : b # c => (b \in Passed(d, k) <=> b \in Passed(d, k)')
  BY DEF Passed
<1>3. /\ c \in Holders(d, k)  <=> Holds(call[c], d, k)
      /\ c \in Holders(d, k)' <=> Holds(call'[c], d, k)
      /\ c \in Passed(d, k)   <=> Through(call[c], d, k)
      /\ c \in Passed(d, k)'  <=> Through(call'[c], d, k)
  BY DEF Holders, Passed
<1>4. IsFiniteSet(Holders(d, k)) /\ IsFiniteSet(Passed(d, k))
  BY HoldersFinite
<1>5. /\ Cardinality(Holders(d, k)') \in Nat
      /\ Cardinality(Holders(d, k)') =
           Cardinality(Holders(d, k)) + Bit(c \in Holders(d, k)') - Bit(c \in Holders(d, k))
  BY <1>1, <1>4, OneMoves
<1>6. /\ Cardinality(Passed(d, k)') \in Nat
      /\ Cardinality(Passed(d, k)') =
           Cardinality(Passed(d, k)) + Bit(c \in Passed(d, k)') - Bit(c \in Passed(d, k))
  BY <1>2, <1>4, OneMoves
<1>7. /\ Bit(c \in Holders(d, k)) = Bit(Holds(call[c], d, k))
      /\ Bit(c \in Holders(d, k)') = Bit(Holds(call'[c], d, k))
      /\ Bit(c \in Passed(d, k)) = Bit(Through(call[c], d, k))
      /\ Bit(c \in Passed(d, k)') = Bit(Through(call'[c], d, k))
  BY <1>3 DEF Bit
<1> QED
  BY <1>5, <1>6, <1>7

\* A step of call c keeps the books when, for every key, its counter grows by as much as
\* its sends and its holders, and its sends and its passed calls stay within the ramp.
LEMMA StepKeepsBounds ==
  ASSUME QuotaInv, TypeOK', NEW c \in Calls, \A b \in Calls \ {c} : call'[b] = call[b],
         UNCHANGED crashes,
         \A d \in Dates, k \in Keys :
           /\ count'[d][k] - count[d][k] =
                granted'[Redis][d][k] - granted[Redis][d][k]
                  + Bit(Holds(call'[c], d, k)) - Bit(Holds(call[c], d, k))
           /\ granted'[Redis][d][k] + Cardinality(Passed(d, k))
                + Bit(Through(call'[c], d, k)) - Bit(Through(call[c], d, k))
                  <= CapOn(d, k, Start')
  PROVE  Counted' /\ Balanced' /\ Within'
<1>1. ASSUME NEW d \in Dates, NEW k \in Keys
      PROVE  /\ count'[d][k] >= granted'[Redis][d][k] + Cardinality(Holders(d, k)')
             /\ crashes' = 0 =>
                  count'[d][k] = granted'[Redis][d][k] + Cardinality(Holders(d, k)')
             /\ granted'[Redis][d][k] + Cardinality(Passed(d, k)') <= CapOn(d, k, Start')
  <2>1. /\ count[d][k] \in Int /\ count'[d][k] \in Int
        /\ granted[Redis][d][k] \in Nat /\ granted'[Redis][d][k] \in Nat
    BY DEF QuotaInv, TypeInv, TypeOK, Stores
  <2>2. /\ count[d][k] >= granted[Redis][d][k] + Cardinality(Holders(d, k))
        /\ crashes = 0 => count[d][k] = granted[Redis][d][k] + Cardinality(Holders(d, k))
    BY DEF QuotaInv, Counted, Balanced
  <2>3. Cardinality(Holders(d, k)) \in Nat /\ Cardinality(Passed(d, k)) \in Nat
    BY HoldersFinite
  <2>4. Bit(Holds(call'[c], d, k)) \in Int /\ Bit(Holds(call[c], d, k)) \in Int
    BY DEF Bit
  <2>5. Bit(Through(call'[c], d, k)) \in Int /\ Bit(Through(call[c], d, k)) \in Int
    BY DEF Bit
  <2>6. /\ Cardinality(Holders(d, k)') =
             Cardinality(Holders(d, k)) + Bit(Holds(call'[c], d, k)) - Bit(Holds(call[c], d, k))
        /\ Cardinality(Passed(d, k)') =
             Cardinality(Passed(d, k)) + Bit(Through(call'[c], d, k)) - Bit(Through(call[c], d, k))
    BY CallMoves
  <2>7. /\ count'[d][k] >= granted'[Redis][d][k] + Cardinality(Holders(d, k)')
        /\ crashes' = 0 =>
             count'[d][k] = granted'[Redis][d][k] + Cardinality(Holders(d, k)')
    <3>1. count'[d][k] - count[d][k] =
            granted'[Redis][d][k] - granted[Redis][d][k]
              + Bit(Holds(call'[c], d, k)) - Bit(Holds(call[c], d, k))
      OBVIOUS
    <3>2. count'[d][k] - (granted'[Redis][d][k] + Cardinality(Holders(d, k)')) =
            count[d][k] - (granted[Redis][d][k] + Cardinality(Holders(d, k)))
      BY <2>1, <2>3, <2>4, <2>6, <3>1
    <3>3. Cardinality(Holders(d, k)') \in Nat
      BY CallMoves
    <3>4. /\ count'[d][k] >= granted'[Redis][d][k] + Cardinality(Holders(d, k)') <=>
               count[d][k] >= granted[Redis][d][k] + Cardinality(Holders(d, k))
          /\ count'[d][k] = granted'[Redis][d][k] + Cardinality(Holders(d, k)') <=>
               count[d][k] = granted[Redis][d][k] + Cardinality(Holders(d, k))
      BY <2>1, <2>3, <3>2, <3>3
    <3> QED
      BY <2>2, <3>4
  <2>8. granted'[Redis][d][k] + Cardinality(Passed(d, k)') <= CapOn(d, k, Start')
    BY <2>1, <2>3, <2>5, <2>6
  <2> QED
    BY <2>7, <2>8
<1> QED
  BY <1>1 DEF Counted, Balanced, Within

\* What a sane call brings to the proof of a step: its record, its date, its bucket.
LEMMA SaneCall ==
  ASSUME QuotaInv, NEW c \in Calls
  PROVE  /\ call[c] \in CallRecord /\ call[c].via = Redis
         /\ DateOf(call[c].now) \in Dates
         /\ call[c].pc # "idle" => /\ call[c].isp \in Isps /\ call[c].isp # Total
                                   /\ call[c].key \in {call[c].isp, Total}
         /\ call[c].pc \in {"setnx", "get"} => call[c].key = call[c].isp
  BY DateOfType, IspAssumption DEF QuotaInv, TypeInv, TypeOK, CallRecord, CallsAreSane

\* Resolving the start touches neither counters nor sends, and no call that does it
\* holds a key: it may only raise what the ramp allows.
LEMMA QuietStep ==
  ASSUME QuotaInv, TypeOK', NEW c \in Calls, \A b \in Calls \ {c} : call'[b] = call[b],
         call[c].pc \in {"idle", "setnx", "get"},
         call'[c].pc \in {"setnx", "get", "incr"},
         call'[c].key = call'[c].isp, call'[c].isp \in Isps,
         UNCHANGED <<count, granted, crashes>>,
         Start # Unset => Start' = Start
  PROVE  Counted' /\ Balanced' /\ Within'
<1>1. \A d, k : ~Holds(call[c], d, k) /\ ~Through(call[c], d, k)
  BY DEF Holds, Through
<1>2. \A d, k : ~Holds(call'[c], d, k) /\ ~Through(call'[c], d, k)
  BY IspAssumption DEF Holds, Through
<1>3. ASSUME NEW d \in Dates, NEW k \in Keys
      PROVE  /\ count[d][k] \in Int /\ granted[Redis][d][k] \in Nat
             /\ Cardinality(Passed(d, k)) \in Nat
             /\ granted[Redis][d][k] + Cardinality(Passed(d, k)) <= CapOn(d, k, Start')
  <2>0. count[d][k] \in Int /\ granted[Redis][d][k] \in Nat
    BY DEF QuotaInv, TypeInv, TypeOK, Stores
  <2>1. CapOn(d, k, Start) \in Nat
    BY CapOnType, StartType DEF QuotaInv, TypeInv
  <2>2. CapOn(d, k, Start') \in Nat
    <3>1. Start' \in Time \cup {Unset}
      BY StartAssumption DEF Start, TypeOK
    <3> QED
      BY <3>1, CapOnType
  <2>3. CapOn(d, k, Start) <= CapOn(d, k, Start')
    BY <2>1, <2>2, SMT DEF CapOn
  <2>4. granted[Redis][d][k] + Cardinality(Passed(d, k)) <= CapOn(d, k, Start)
    BY DEF QuotaInv, Within
  <2> QED
    BY <2>0, <2>1, <2>2, <2>3, <2>4, HoldersFinite
<1> QED
  BY <1>1, <1>2, <1>3, StepKeepsBounds DEF Bit

\* A counter that fits under the cap of a call leaves room for it in the ramp: what was
\* let through and what holds the key were counted before it.
LEMMA RoomForCall ==
  ASSUME QuotaInv, NEW c \in Calls, call[c].pc = "incr",
         count[DateOf(call[c].now)][call[c].key] + 1 <= Cap[call[c].day][call[c].key]
  PROVE  granted[Redis][DateOf(call[c].now)][call[c].key]
           + Cardinality(Passed(DateOf(call[c].now), call[c].key)) + 1
             <= CapOn(DateOf(call[c].now), call[c].key, Start)
<1> DEFINE d == DateOf(call[c].now)
           k == call[c].key
<1>1. call[c].now \in Time /\ d \in Dates /\ k \in Keys
  BY SaneCall DEF CallRecord
<1>2. Start \in Time /\ call[c].day = DayOf(call[c].now, Start)
  BY StartType DEF QuotaInv, TypeInv, CallsAreSane
<1>3. /\ Cap[call[c].day][k] \in Nat /\ CapOn(d, k, Start) \in Nat
      /\ Cap[call[c].day][k] <= CapOn(d, k, Start)
  BY <1>1, <1>2, CapWithinDate
<1>4. count[d][k] \in Int /\ granted[Redis][d][k] \in Nat
  BY <1>1 DEF QuotaInv, TypeInv, TypeOK, Stores
<1>5. count[d][k] >= granted[Redis][d][k] + Cardinality(Holders(d, k))
  BY <1>1 DEF QuotaInv, Counted
<1>6. /\ Cardinality(Holders(d, k)) \in Nat /\ Cardinality(Passed(d, k)) \in Nat
      /\ Cardinality(Passed(d, k)) <= Cardinality(Holders(d, k))
  BY HoldersFinite
<1>7. count[d][k] + 1 <= Cap[call[c].day][k]
  OBVIOUS
<1> HIDE DEF d, k
<1>8. granted[Redis][d][k] + Cardinality(Passed(d, k)) + 1 <= CapOn(d, k, Start)
  BY <1>3, <1>4, <1>5, <1>6, <1>7
<1> QED
  BY <1>8 DEF d, k

\* The first increment of a key, before its expiry is set.
LEMMA FirstIncrement ==
  ASSUME QuotaInv, TypeOK', NEW c \in Calls, call[c].pc = "incr",
         count[DateOf(call[c].now)][call[c].key] + 1 = 1,
         count' = [count EXCEPT ![DateOf(call[c].now)][call[c].key] = 1],
         call' = [call EXCEPT ![c].pc = "expire"],
         UNCHANGED <<granted, redisStart, crashes>>
  PROVE  Counted' /\ Balanced' /\ Within'
<1> DEFINE r == call[c]
           dc == DateOf(r.now)
<1>1. /\ r \in CallRecord /\ dc \in Dates /\ r.key \in Keys
      /\ r.isp # Total /\ r.key \in {r.isp, Total} /\ r.pc = "incr"
  BY SaneCall DEF CallRecord
<1>2. call'[c] = [r EXCEPT !.pc = "expire"] /\ \A b \in Calls \ {c} : call'[b] = call[b]
  BY DEF QuotaInv, TypeInv, TypeOK
<1>3. Start' = Start
  BY DEF Start
<1>4. /\ call'[c].pc = "expire" /\ call'[c].now = r.now /\ call'[c].day = r.day
      /\ call'[c].key = r.key /\ call'[c].isp = r.isp
  BY <1>1, <1>2 DEF CallRecord
<1>5. ASSUME NEW d \in Dates, NEW k \in Keys
      PROVE  /\ count'[d][k] - count[d][k] =
                  granted'[Redis][d][k] - granted[Redis][d][k]
                    + Bit(Holds(call'[c], d, k)) - Bit(Holds(r, d, k))
             /\ granted'[Redis][d][k] + Cardinality(Passed(d, k))
                  + Bit(Through(call'[c], d, k)) - Bit(Through(r, d, k))
                    <= CapOn(d, k, Start')
  <2>1. count[d][k] \in Int /\ granted[Redis][d][k] \in Nat
    BY DEF QuotaInv, TypeInv, TypeOK, Stores
  <2>2. Cardinality(Passed(d, k)) \in Nat /\ CapOn(d, k, Start) \in Nat
    BY HoldersFinite, CapOnType, StartType DEF QuotaInv, TypeInv
  <2>3. granted[Redis][d][k] + Cardinality(Passed(d, k)) <= CapOn(d, k, Start)
    BY DEF QuotaInv, Within
  <2>4. CASE d = dc /\ k = r.key
    <3>1. /\ ~Holds(r, d, k) /\ ~Through(r, d, k)
          /\ Through(call'[c], d, k) => 1 <= Cap[r.day][k]
      BY <1>1, <1>4, <2>4 DEF Holds, Through
    <3>2. count[d][k] = 0 /\ count'[d][k] = 1
      <4>1. count[d][k] + 1 = 1
        BY <2>4
      <4>2. count'[d][k] = 1
        BY <1>1, <2>4 DEF QuotaInv, TypeInv, TypeOK
      <4> QED
        BY <2>1, <4>1, <4>2
    <3>3. Through(call'[c], d, k) =>
            granted[Redis][d][k] + Cardinality(Passed(d, k)) + 1 <= CapOn(d, k, Start)
      BY <1>1, <2>4, <3>1, RoomForCall
    <3>4. Holds(call'[c], d, k)
      BY <1>4, <2>4 DEF Holds
    <3>5. Bit(Holds(call'[c], d, k)) = 1 /\ Bit(Holds(r, d, k)) = 0
      BY <3>1, <3>4 DEF Bit
    <3>6. granted'[Redis][d][k] = granted[Redis][d][k]
      OBVIOUS
    <3>7. granted[Redis][d][k] + Cardinality(Passed(d, k))
            + Bit(Through(call'[c], d, k)) - Bit(Through(r, d, k)) <= CapOn(d, k, Start)
      BY <2>1, <2>2, <2>3, <3>1, <3>3 DEF Bit
    <3> QED
      BY <1>3, <2>1, <3>2, <3>5, <3>6, <3>7
  <2>5. CASE ~(d = dc /\ k = r.key)
    <3>1. /\ Holds(r, d, k) <=> Holds(call'[c], d, k)
          /\ Through(r, d, k) <=> Through(call'[c], d, k)
      BY <1>1, <1>4, <2>5 DEF Holds, Through
    <3>2. count'[d][k] = count[d][k]
      BY <1>1, <2>5 DEF QuotaInv, TypeInv, TypeOK
    <3> QED
      BY <1>3, <2>1, <2>2, <2>3, <3>1, <3>2 DEF Bit
  <2> QED
    BY <2>4, <2>5
<1> QED
  BY <1>2, <1>5, StepKeepsBounds

\* A grant records one send under the bucket and one under the total of its date.
LEMMA GrantAdds ==
  ASSUME TypeOK, NEW c \in Calls, Grant(c, Redis), call[c].via = Redis,
         call[c].isp \in Keys, call[c].isp # Total, DateOf(call[c].now) \in Dates,
         NEW d \in Dates, NEW k \in Keys
  PROVE  granted'[Redis][d][k] =
           granted[Redis][d][k] + Bit(d = DateOf(call[c].now) /\ k \in {call[c].isp, Total})
<1> DEFINE dc == DateOf(call[c].now)
           g == Record(granted, Redis, dc, call[c].isp)
<1>1. granted \in [Stores -> [Dates -> [Keys -> Nat]]] /\ Redis \in Stores /\ Total \in Keys
  BY DEF TypeOK, Stores, Keys
<1>2. g \in [Stores -> [Dates -> [Keys -> Nat]]]
  BY <1>1, RecordType
<1>3. g[Redis][d][k] = granted[Redis][d][k] + Bit(d = dc /\ k = call[c].isp)
  BY <1>1 DEF Record, Bit
<1>4. granted' = Record(g, Redis, dc, Total)
  BY DEF Grant
<1> HIDE DEF g
<1>5. granted'[Redis][d][k] = g[Redis][d][k] + Bit(d = dc /\ k = Total)
  BY <1>1, <1>2, <1>4 DEF Record, Bit
<1> QED
  BY <1>1, <1>3, <1>5 DEF Bit

\* The answer to an increment, whatever it is: refused, past the bucket, or let through.
LEMMA CompareKeepsBounds ==
  ASSUME QuotaInv, TypeOK', NEW c \in Calls, NEW v \in Int, Compare(c, v, Redis),
         UNCHANGED <<redisStart, crashes>>,
         \/ /\ call[c].pc = "incr"
            /\ v = count[DateOf(call[c].now)][call[c].key] + 1
            /\ count' = [count EXCEPT ![DateOf(call[c].now)][call[c].key] = v]
         \/ call[c].pc = "expire" /\ v = 1 /\ UNCHANGED count
  PROVE  Counted' /\ Balanced' /\ Within'
<1> DEFINE r == call[c]
           dc == DateOf(r.now)
           AtKey(d, k) == d = dc /\ k = r.key
           AtBucket(d, k) == d = dc /\ k = r.isp /\ r.key = Total
<1>1. /\ r \in CallRecord /\ dc \in Dates /\ r.key \in Keys /\ r.isp \in Keys
      /\ r.isp # Total /\ r.key \in {r.isp, Total} /\ r.via = Redis
      /\ Cap[r.day][r.key] \in Nat
  BY SaneCall, CapAssumption DEF CallRecord
<1>2. \A b \in Calls \ {c} : call'[b] = call[b]
  BY CompareType DEF QuotaInv, Stores
<1>3. Start' = Start
  BY DEF Start
<1>4. ASSUME NEW d \in Dates, NEW k \in Keys
      PROVE  /\ count[d][k] \in Int /\ granted[Redis][d][k] \in Nat
             /\ Cardinality(Passed(d, k)) \in Nat /\ CapOn(d, k, Start) \in Nat
             /\ granted[Redis][d][k] + Cardinality(Passed(d, k)) <= CapOn(d, k, Start)
  <2>1. count[d][k] \in Int /\ granted[Redis][d][k] \in Nat
    BY DEF QuotaInv, TypeInv, TypeOK, Stores
  <2>2. Cardinality(Passed(d, k)) \in Nat /\ CapOn(d, k, Start) \in Nat
    BY HoldersFinite, CapOnType, StartType DEF QuotaInv, TypeInv
  <2> QED
    BY <2>1, <2>2 DEF QuotaInv, Within
<1>5. ASSUME NEW d \in Dates, NEW k \in Keys, AtKey(d, k)
      PROVE  /\ count'[d][k] = count[d][k] + 1 - Bit(Holds(r, d, k))
             /\ Fits(c, v) => granted[Redis][d][k] + Cardinality(Passed(d, k)) + 1
                                - Bit(Through(r, d, k)) <= CapOn(d, k, Start)
             /\ ~Fits(c, v) => ~Through(r, d, k)
  <2>1. CASE /\ r.pc = "incr"
             /\ v = count[dc][r.key] + 1
             /\ count' = [count EXCEPT ![dc][r.key] = v]
    <3>1. ~Holds(r, d, k) /\ ~Through(r, d, k)
      BY <1>1, <1>5, <2>1 DEF Holds, Through
    <3>2. count'[d][k] = count[d][k] + 1
      BY <1>5, <2>1 DEF QuotaInv, TypeInv, TypeOK
    <3>3. Fits(c, v) => granted[Redis][d][k] + Cardinality(Passed(d, k)) + 1
                          <= CapOn(d, k, Start)
      BY <1>5, <2>1, RoomForCall DEF Fits
    <3> QED
      BY <1>4, <3>1, <3>2, <3>3 DEF Bit
  <2>2. CASE r.pc = "expire" /\ v = 1 /\ UNCHANGED count
    <3>1. Holds(r, d, k) /\ (Through(r, d, k) <=> Fits(c, v))
      BY <1>1, <1>5, <2>2 DEF Holds, Through, Fits
    <3> QED
      BY <1>4, <2>2, <3>1 DEF Bit
  <2> QED
    BY <2>1, <2>2
<1>6. ASSUME NEW d \in Dates, NEW k \in Keys, ~AtKey(d, k)
      PROVE  /\ count'[d][k] = count[d][k]
             /\ Holds(r, d, k) <=> AtBucket(d, k)
             /\ Through(r, d, k) <=> AtBucket(d, k)
  <2>1. count'[d][k] = count[d][k]
    BY <1>1, <1>6 DEF QuotaInv, TypeInv, TypeOK
  <2>2. r.pc \in {"incr", "expire"}
    OBVIOUS
  <2> QED
    BY <1>1, <1>6, <2>1, <2>2 DEF Holds, Through
<1>7. ASSUME NEW d \in Dates, NEW k \in Keys
      PROVE  /\ count'[d][k] - count[d][k] =
                  granted'[Redis][d][k] - granted[Redis][d][k]
                    + Bit(Holds(call'[c], d, k)) - Bit(Holds(r, d, k))
             /\ granted'[Redis][d][k] + Cardinality(Passed(d, k))
                  + Bit(Through(call'[c], d, k)) - Bit(Through(r, d, k))
                    <= CapOn(d, k, Start')
  <2>1. CASE /\ ~Fits(c, v)
             /\ call' = [call EXCEPT ![c].pc = "undo"]
             /\ UNCHANGED granted
    <3>1. call'[c] = [r EXCEPT !.pc = "undo"]
      BY <2>1 DEF QuotaInv, TypeInv, TypeOK
    <3>2. /\ call'[c].pc = "undo" /\ call'[c].now = r.now
          /\ call'[c].key = r.key /\ call'[c].isp = r.isp
      BY <1>1, <3>1 DEF CallRecord
    <3>3. /\ ~Through(call'[c], d, k)
          /\ Holds(call'[c], d, k) <=> AtKey(d, k) \/ AtBucket(d, k)
      BY <3>2 DEF Holds, Through
    <3>4. CASE AtKey(d, k)
      BY <1>3, <1>4, <1>5, <2>1, <3>3, <3>4 DEF Bit
    <3>5. CASE ~AtKey(d, k)
      BY <1>3, <1>4, <1>6, <2>1, <3>3, <3>5 DEF Bit
    <3> QED
      BY <3>4, <3>5
  <2>2. CASE /\ Fits(c, v)
             /\ r.key # Total
             /\ call' = [call EXCEPT ![c].pc = "incr", ![c].key = Total, ![c].via = Redis]
             /\ UNCHANGED granted
    <3>1. call'[c] = [r EXCEPT !.pc = "incr", !.key = Total, !.via = Redis]
      BY <2>2 DEF QuotaInv, TypeInv, TypeOK
    <3>2. /\ call'[c].pc = "incr" /\ call'[c].now = r.now
          /\ call'[c].key = Total /\ call'[c].isp = r.isp
      BY <1>1, <3>1 DEF CallRecord
    <3>3. /\ Through(call'[c], d, k) <=> AtKey(d, k)
          /\ Holds(call'[c], d, k) <=> AtKey(d, k)
      <4>1. r.key # Total
        BY <2>2
      <4>2. Holds(call'[c], d, k) <=> AtKey(d, k)
        BY <1>1, <3>2, <4>1 DEF Holds
      <4>3. Through(call'[c], d, k) <=> AtKey(d, k)
        BY <1>1, <3>2, <4>1, <4>2 DEF Through
      <4> QED
        BY <4>2, <4>3
    <3>4. CASE AtKey(d, k)
      <4>1. /\ count'[d][k] = count[d][k] + 1 - Bit(Holds(r, d, k))
            /\ granted[Redis][d][k] + Cardinality(Passed(d, k)) + 1 - Bit(Through(r, d, k))
                 <= CapOn(d, k, Start)
        BY <1>5, <2>2, <3>4
      <4>2. Bit(Holds(call'[c], d, k)) = 1 /\ Bit(Through(call'[c], d, k)) = 1
        BY <3>3, <3>4 DEF Bit
      <4>3. Bit(Holds(r, d, k)) \in Nat /\ Bit(Through(r, d, k)) \in Nat
        BY DEF Bit
      <4>4. granted' = granted /\ CapOn(d, k, Start') = CapOn(d, k, Start)
        BY <1>3, <2>2
      <4> QED
        BY <1>4, <4>1, <4>2, <4>3, <4>4
    <3>5. CASE ~AtKey(d, k)
      BY <1>3, <1>4, <1>6, <2>2, <3>3, <3>5 DEF Bit
    <3> QED
      BY <3>4, <3>5
  <2>3. CASE /\ Fits(c, v)
             /\ r.key = Total
             /\ call' = [call EXCEPT ![c] = Idle]
             /\ Grant(c, Redis)
    <3>1. call'[c].pc = "idle"
      BY <2>3 DEF QuotaInv, TypeInv, TypeOK, Idle
    <3>2. ~Holds(call'[c], d, k) /\ ~Through(call'[c], d, k)
      BY <3>1 DEF Holds, Through
    <3>3. granted'[Redis][d][k] =
            granted[Redis][d][k] + Bit(AtKey(d, k) \/ AtBucket(d, k))
      BY <1>1, <2>3, GrantAdds DEF QuotaInv, TypeInv
    <3>4. CASE AtKey(d, k)
      BY <1>3, <1>4, <1>5, <2>3, <3>2, <3>3, <3>4 DEF Bit
    <3>5. CASE ~AtKey(d, k)
      BY <1>3, <1>4, <1>6, <2>3, <3>2, <3>3, <3>5 DEF Bit
    <3> QED
      BY <3>4, <3>5
  <2> QED
    BY <2>1, <2>2, <2>3 DEF Compare
<1> QED
  BY <1>2, <1>7, StepKeepsBounds

\* A rollback lets a key go together with its increment.
LEMMA RollbackKeepsBounds ==
  ASSUME QuotaInv, TypeOK', NEW c \in Calls, call[c].pc = "undo",
         count' = [count EXCEPT ![DateOf(call[c].now)][call[c].key] = @ - 1],
         call' = [call EXCEPT ![c] = Rollback(c)],
         UNCHANGED <<granted, redisStart, crashes>>
  PROVE  Counted' /\ Balanced' /\ Within'
<1> DEFINE r == call[c]
           dc == DateOf(r.now)
<1>1. /\ r \in CallRecord /\ dc \in Dates /\ r.key \in Keys
      /\ r.isp # Total /\ r.key \in {r.isp, Total}
  BY SaneCall DEF CallRecord
<1>2. call'[c] = Rollback(c) /\ \A b \in Calls \ {c} : call'[b] = call[b]
  BY DEF QuotaInv, TypeInv, TypeOK
<1>3. Start' = Start
  BY DEF Start
<1>4. ASSUME NEW d \in Dates, NEW k \in Keys
      PROVE  /\ count'[d][k] = count[d][k] - Bit(d = dc /\ k = r.key)
             /\ Holds(r, d, k) <=> d = dc /\ (k = r.key \/ (k = r.isp /\ r.key = Total))
             /\ Holds(call'[c], d, k) <=> d = dc /\ k = r.isp /\ r.key = Total
             /\ ~Through(r, d, k) /\ ~Through(call'[c], d, k)
  <2>1. count'[d][k] = count[d][k] - Bit(d = dc /\ k = r.key)
    <3>1. count \in [Dates -> [Keys -> Int]]
      BY DEF QuotaInv, TypeInv, TypeOK
    <3> QED
      BY <1>1, <3>1 DEF Bit
  <2>2. /\ Holds(r, d, k) <=> d = dc /\ (k = r.key \/ (k = r.isp /\ r.key = Total))
        /\ ~Through(r, d, k)
    BY DEF Holds, Through
  <2>3. CASE r.key = Total
    <3>1. call'[c] = [r EXCEPT !.key = r.isp]
      BY <1>2, <2>3 DEF Rollback
    <3>2. /\ call'[c].pc = "undo" /\ call'[c].now = r.now
          /\ call'[c].key = r.isp /\ call'[c].isp = r.isp
      BY <1>1, <3>1 DEF CallRecord
    <3> QED
      BY <1>1, <2>1, <2>2, <2>3, <3>2 DEF Holds, Through
  <2>4. CASE r.key # Total
    <3>1. call'[c].pc = "idle"
      BY <1>2, <2>4 DEF Rollback, Idle
    <3> QED
      BY <2>1, <2>2, <2>4, <3>1 DEF Holds, Through
  <2> QED
    BY <2>3, <2>4
<1>5. ASSUME NEW d \in Dates, NEW k \in Keys
      PROVE  /\ count'[d][k] - count[d][k] =
                  granted'[Redis][d][k] - granted[Redis][d][k]
                    + Bit(Holds(call'[c], d, k)) - Bit(Holds(r, d, k))
             /\ granted'[Redis][d][k] + Cardinality(Passed(d, k))
                  + Bit(Through(call'[c], d, k)) - Bit(Through(r, d, k))
                    <= CapOn(d, k, Start')
  <2>1. count[d][k] \in Int /\ granted[Redis][d][k] \in Nat
    BY DEF QuotaInv, TypeInv, TypeOK, Stores
  <2>2. Cardinality(Passed(d, k)) \in Nat /\ CapOn(d, k, Start) \in Nat
    BY HoldersFinite, CapOnType, StartType DEF QuotaInv, TypeInv
  <2>3. granted[Redis][d][k] + Cardinality(Passed(d, k)) <= CapOn(d, k, Start)
    BY DEF QuotaInv, Within
  <2>4. UNCHANGED granted /\ Bit(Through(r, d, k)) = 0 /\ Bit(Through(call'[c], d, k)) = 0
    BY <1>4 DEF Bit
  <2>5. CASE d = dc /\ k = r.key
    <3>1. Holds(r, d, k) /\ ~Holds(call'[c], d, k) /\ count'[d][k] = count[d][k] - 1
      BY <1>1, <1>4, <2>5 DEF Bit
    <3> QED
      BY <1>3, <2>1, <2>2, <2>3, <2>4, <3>1 DEF Bit
  <2>6. CASE ~(d = dc /\ k = r.key)
    <3>1. /\ Bit(Holds(r, d, k)) = Bit(Holds(call'[c], d, k))
          /\ Bit(Holds(r, d, k)) \in Int
          /\ count'[d][k] = count[d][k]
      BY <1>1, <1>4, <2>1, <2>6 DEF Bit
    <3> QED
      BY <1>3, <2>1, <2>2, <2>3, <2>4, <3>1
  <2> QED
    BY <2>5, <2>6
<1> QED
  BY <1>2, <1>5, StepKeepsBounds

\* A crash only forgets calls: what they hold stays counted.
LEMMA CrashKeepsBounds ==
  ASSUME QuotaInv, NEW w \in Workers, Crash(w)
  PROVE  Counted' /\ Balanced' /\ Within'
<1>1. ASSUME NEW d, NEW k
      PROVE  Holders(d, k)' \subseteq Holders(d, k) /\ Passed(d, k)' \subseteq Passed(d, k)
  BY DEF Crash, Holders, Passed, Holds, Through, Idle
<1>2. ASSUME NEW d, NEW k
      PROVE  /\ Cardinality(Holders(d, k)') <= Cardinality(Holders(d, k))
             /\ Cardinality(Passed(d, k)') <= Cardinality(Passed(d, k))
             /\ Cardinality(Holders(d, k)') \in Nat
             /\ Cardinality(Passed(d, k)') \in Nat
  BY <1>1, HoldersFinite, FS_Subset, FS_CardinalityType
<1>3. ASSUME NEW d \in Dates, NEW k \in Keys
      PROVE  /\ count[d][k] >= granted[Redis][d][k] + Cardinality(Holders(d, k)')
             /\ granted[Redis][d][k] + Cardinality(Passed(d, k)') <= CapOn(d, k, Start)
  <2>1. count[d][k] \in Int /\ granted[Redis][d][k] \in Nat
    BY DEF QuotaInv, TypeInv, TypeOK, Stores
  <2>2. CapOn(d, k, Start) \in Nat
    BY CapOnType, StartType DEF QuotaInv, TypeInv
  <2>3. /\ count[d][k] >= granted[Redis][d][k] + Cardinality(Holders(d, k))
        /\ granted[Redis][d][k] + Cardinality(Passed(d, k)) <= CapOn(d, k, Start)
    BY DEF QuotaInv, Counted, Within
  <2>4. Cardinality(Holders(d, k)) \in Nat /\ Cardinality(Passed(d, k)) \in Nat
    BY HoldersFinite
  <2> QED
    BY <1>2, <2>1, <2>2, <2>3, <2>4
<1>4. UNCHANGED <<count, granted, redisStart>>
  BY DEF Crash
<1>5. crashes' # 0
  BY FaultAssumption, SMT DEF Crash, QuotaInv, TypeInv, TypeOK
<1> QED
  BY <1>3, <1>4, <1>5 DEF Counted, Balanced, Within, Start

\* Other calls stay sane while the start they count from stays the same.
LEMMA OthersStaySane ==
  ASSUME QuotaInv, NEW c \in Calls, \A b \in Calls \ {c} : call'[b] = call[b],
         Start # Unset => Start' = Start,
         /\ call'[c].via = Redis
         /\ call'[c].pc # "idle" =>
              call'[c].isp \in Isps /\ call'[c].key \in {call'[c].isp, Total}
         /\ call'[c].pc \in {"setnx", "get"} =>
              call'[c].key = call'[c].isp /\ Configured = Unset
         /\ call'[c].pc \in {"incr", "expire", "undo"} =>
              Start' # Unset /\ call'[c].day = DayOf(call'[c].now, Start')
  PROVE  CallsAreSane'
  BY DEF CallsAreSane, QuotaInv

\* A comparison keeps its call sane.
LEMMA CompareStaysSane ==
  ASSUME QuotaInv, NEW c \in Calls, NEW v, Compare(c, v, Redis), UNCHANGED redisStart,
         call[c].pc \in {"incr", "expire"}
  PROVE  CallsAreSane'
<1>1. /\ call[c] \in CallRecord /\ call[c].via = Redis
      /\ call[c].isp \in Isps /\ call[c].key \in {call[c].isp, Total}
      /\ Start # Unset /\ call[c].day = DayOf(call[c].now, Start)
  BY SaneCall DEF QuotaInv, CallsAreSane
<1>2. Start' = Start
  BY DEF Start
<1>3. \A b \in Calls \ {c} : call'[b] = call[b]
  BY CompareType DEF QuotaInv, Stores
<1>4. \/ call'[c] = [call[c] EXCEPT !.pc = "undo"]
      \/ call'[c] = [call[c] EXCEPT !.pc = "incr", !.key = Total, !.via = Redis]
      \/ call'[c] = Idle
  BY DEF Compare, QuotaInv, TypeInv, TypeOK
<1>5. /\ call'[c].via = Redis
      /\ call'[c].pc # "idle" =>
           call'[c].isp \in Isps /\ call'[c].key \in {call'[c].isp, Total}
      /\ call'[c].pc \notin {"setnx", "get"}
      /\ call'[c].pc \in {"incr", "expire", "undo"} =>
           Start' # Unset /\ call'[c].day = DayOf(call'[c].now, Start')
  <2>1. CASE call'[c] = [call[c] EXCEPT !.pc = "undo"]
    BY <1>1, <1>2, <2>1 DEF CallRecord
  <2>2. CASE call'[c] = [call[c] EXCEPT !.pc = "incr", !.key = Total, !.via = Redis]
    BY <1>1, <1>2, <2>2 DEF CallRecord
  <2>3. CASE call'[c] = Idle
    BY <2>3 DEF Idle
  <2> QED
    BY <1>4, <2>1, <2>2, <2>3
<1> QED
  BY <1>2, <1>3, <1>5, OthersStaySane

\* With every command answered, each action keeps the quota invariant.
LEMMA QuotaStep == MaxFaults = 0 /\ QuotaInv /\ [Next]_vars => QuotaInv'
<1> SUFFICES ASSUME MaxFaults = 0, QuotaInv, [Next]_vars PROVE QuotaInv'
  OBVIOUS
<1>1. TypeInv' /\ TypeOK'
  BY TypeStep DEF QuotaInv, TypeInv
<1>2. ~Fault
  BY NoFault DEF QuotaInv, TypeInv
<1>3. /\ call \in [Calls -> CallRecord] /\ startedAt \in [Workers -> Time \cup {Unset}]
      /\ redisStart \in Time \cup {Unset} /\ clock \in Time
  BY DEF QuotaInv, TypeInv, TypeOK, CallRecord
<1>4. Unset \notin Time
  BY SMT DEF Unset, Time
<1>5. ASSUME NEW c \in Calls, Reserve(c) PROVE QuotaInv'
  <2> DEFINE known == IF Configured # Unset THEN Configured ELSE startedAt[WorkerOf[c]]
  <2>1. PICK i \in Isps :
          call' = [call EXCEPT ![c] =
                     [Idle EXCEPT !.now = clock, !.isp = i, !.key = i,
                        !.pc  = IF known = Unset THEN "setnx" ELSE "incr",
                        !.day = IF known = Unset THEN 1 ELSE DayOf(clock, known)]]
    BY <1>5 DEF Reserve
  <2>2. /\ call'[c].now = clock /\ call'[c].isp = i /\ call'[c].key = i
        /\ call'[c].via = Redis
        /\ call'[c].pc = IF known = Unset THEN "setnx" ELSE "incr"
        /\ known # Unset => call'[c].day = DayOf(clock, known)
    BY <1>3, <2>1 DEF Idle
  <2>3. known # Unset => known = Start
    BY CallAssumption DEF QuotaInv, OneRamp, Start
  <2>4. /\ \A b \in Calls \ {c} : call'[b] = call[b]
        /\ call[c].pc = "idle"
        /\ UNCHANGED <<count, granted, redisStart, startedAt, crashes>>
    BY <1>3, <1>5, <2>1 DEF Reserve
  <2>5. Start' = Start
    BY <2>4 DEF Start
  <2>6. CallsAreSane'
    BY <2>2, <2>3, <2>4, <2>5, OthersStaySane
  <2>7. Counted' /\ Balanced' /\ Within'
    BY <1>1, <2>2, <2>4, <2>5, QuietStep
  <2>8. OneRamp'
    BY <2>4 DEF QuotaInv, OneRamp
  <2> QED
    BY <1>1, <2>6, <2>7, <2>8 DEF QuotaInv
<1>6. ASSUME NEW c \in Calls, SetStart(c) PROVE QuotaInv'
  <2>1. /\ call[c].pc = "setnx" /\ redisStart' = SetNx(c)
        /\ call' = [call EXCEPT ![c].pc = "get"]
        /\ UNCHANGED <<count, granted, startedAt, crashes>>
    BY <1>2, <1>6 DEF SetStart
  <2>2. /\ call'[c] = [call[c] EXCEPT !.pc = "get"]
        /\ \A b \in Calls \ {c} : call'[b] = call[b]
    BY <1>3, <2>1
  <2>3. /\ call[c] \in CallRecord /\ call[c].via = Redis /\ call[c].isp \in Isps
        /\ call[c].key = call[c].isp /\ Configured = Unset
    BY <2>1, SaneCall DEF QuotaInv, CallsAreSane
  <2>4. /\ call'[c].pc = "get" /\ call'[c].via = Redis /\ call'[c].isp \in Isps
        /\ call'[c].key = call'[c].isp
    BY <2>2, <2>3 DEF CallRecord
  <2>5. redisStart # Unset => redisStart' = redisStart
    BY <2>1 DEF SetNx
  <2>6. Start # Unset => Start' = Start
    BY <2>5 DEF Start
  <2>7. CallsAreSane'
    BY <2>2, <2>3, <2>4, <2>6, OthersStaySane
  <2>8. Counted' /\ Balanced' /\ Within'
    BY <1>1, <2>1, <2>2, <2>4, <2>6, QuietStep
  <2>9. OneRamp'
    BY <2>1, <2>5 DEF QuotaInv, OneRamp
  <2> QED
    BY <1>1, <2>7, <2>8, <2>9 DEF QuotaInv
<1>7. ASSUME NEW c \in Calls, GetStart(c) PROVE QuotaInv'
  <2>1. /\ call[c].pc = "get" /\ Resolve(c, redisStart)
        /\ UNCHANGED <<count, granted, redisStart, crashes>>
    BY <1>2, <1>7 DEF GetStart, ReadBack
  <2>2. /\ call'[c] = [call[c] EXCEPT !.pc = "incr", !.day = DayOf(call[c].now, redisStart)]
        /\ \A b \in Calls \ {c} : call'[b] = call[b]
        /\ startedAt' = [startedAt EXCEPT ![WorkerOf[c]] = redisStart]
    BY <1>3, <2>1 DEF Resolve
  <2>3. /\ call[c] \in CallRecord /\ call[c].via = Redis /\ call[c].isp \in Isps
        /\ call[c].key = call[c].isp /\ Configured = Unset /\ redisStart # Unset
    BY <2>1, SaneCall DEF QuotaInv, CallsAreSane, TypeInv, StartIsStored
  <2>4. /\ call'[c].pc = "incr" /\ call'[c].via = Redis /\ call'[c].isp \in Isps
        /\ call'[c].key = call'[c].isp /\ call'[c].now = call[c].now
        /\ call'[c].day = DayOf(call[c].now, redisStart)
    BY <2>2, <2>3 DEF CallRecord
  <2>5. Start' = Start /\ Start = redisStart
    BY <2>1, <2>3 DEF Start
  <2>6. CallsAreSane'
    BY <2>2, <2>3, <2>4, <2>5, OthersStaySane
  <2>7. Counted' /\ Balanced' /\ Within'
    BY <1>1, <2>1, <2>2, <2>4, <2>5, QuietStep
  <2>8. OneRamp'
    BY <1>3, <2>1, <2>2 DEF QuotaInv, OneRamp
  <2> QED
    BY <1>1, <2>6, <2>7, <2>8 DEF QuotaInv
<1>8. ASSUME NEW c \in Calls, Increment(c) PROVE QuotaInv'
  <2> DEFINE v == count[DateOf(call[c].now)][call[c].key] + 1
  <2>1. /\ call[c].pc = "incr"
        /\ count' = [count EXCEPT ![DateOf(call[c].now)][call[c].key] = v]
        /\ IF v = 1
           THEN call' = [call EXCEPT ![c].pc = "expire"] /\ UNCHANGED granted
           ELSE Compare(c, v, Redis)
        /\ UNCHANGED <<redisStart, startedAt, crashes>>
    BY <1>2, <1>8 DEF Increment, CountLocally
  <2>2. OneRamp'
    BY <2>1 DEF QuotaInv, OneRamp
  <2>3. v \in Int
    BY SaneCall DEF QuotaInv, TypeInv, TypeOK, CallRecord
  <2>4. CASE v = 1
    <3>1. /\ call'[c] = [call[c] EXCEPT !.pc = "expire"]
          /\ \A b \in Calls \ {c} : call'[b] = call[b]
      BY <1>3, <2>1, <2>4
    <3>2. /\ call[c] \in CallRecord /\ call[c].via = Redis /\ call[c].isp \in Isps
          /\ call[c].key \in {call[c].isp, Total}
          /\ Start # Unset /\ call[c].day = DayOf(call[c].now, Start)
      BY <2>1, SaneCall DEF QuotaInv, CallsAreSane
    <3>3. Start' = Start
      BY <2>1 DEF Start
    <3>4. /\ call'[c].pc = "expire" /\ call'[c].via = Redis /\ call'[c].isp = call[c].isp
          /\ call'[c].key = call[c].key /\ call'[c].day = call[c].day
          /\ call'[c].now = call[c].now
      BY <3>1, <3>2 DEF CallRecord
    <3>5. CallsAreSane'
      BY <3>1, <3>2, <3>3, <3>4, OthersStaySane
    <3>6. Counted' /\ Balanced' /\ Within'
      BY <1>1, <2>1, <2>4, FirstIncrement
    <3> QED
      BY <1>1, <2>2, <3>5, <3>6 DEF QuotaInv
  <2>5. CASE v # 1
    <3>1. CallsAreSane'
      BY <2>1, <2>5, CompareStaysSane
    <3>2. Counted' /\ Balanced' /\ Within'
      BY <1>1, <2>1, <2>3, <2>5, CompareKeepsBounds
    <3> QED
      BY <1>1, <2>2, <3>1, <3>2 DEF QuotaInv
  <2> QED
    BY <2>4, <2>5
<1>9. ASSUME NEW c \in Calls, Expire(c) PROVE QuotaInv'
  <2>1. /\ call[c].pc = "expire" /\ Compare(c, 1, Redis)
        /\ UNCHANGED <<count, redisStart, startedAt, crashes>>
    BY <1>2, <1>9 DEF Expire, CountLocally
  <2>2. OneRamp'
    BY <2>1 DEF QuotaInv, OneRamp
  <2>3. CallsAreSane'
    BY <2>1, CompareStaysSane
  <2>4. Counted' /\ Balanced' /\ Within'
    <3>1. 1 \in Int
      OBVIOUS
    <3> QED
      BY <1>1, <2>1, <3>1, CompareKeepsBounds
  <2> QED
    BY <1>1, <2>2, <2>3, <2>4 DEF QuotaInv
<1>10. ASSUME NEW c \in Calls, Decrement(c) PROVE QuotaInv'
  <2>1. /\ call[c].pc = "undo"
        /\ count' = [count EXCEPT ![DateOf(call[c].now)][call[c].key] = @ - 1]
        /\ call' = [call EXCEPT ![c] = Rollback(c)]
        /\ UNCHANGED <<granted, redisStart, startedAt, crashes>>
    BY <1>2, <1>10 DEF Decrement
  <2>2. OneRamp'
    BY <2>1 DEF QuotaInv, OneRamp
  <2>3. /\ call[c] \in CallRecord /\ call[c].via = Redis /\ call[c].isp \in Isps
        /\ Start # Unset /\ call[c].day = DayOf(call[c].now, Start)
    BY <2>1, SaneCall DEF QuotaInv, CallsAreSane
  <2>4. /\ call'[c] = Rollback(c)
        /\ \A b \in Calls \ {c} : call'[b] = call[b]
    BY <1>3, <2>1
  <2>5. Start' = Start
    BY <2>1 DEF Start
  <2>6. /\ call'[c].via = Redis
        /\ call'[c].pc # "idle" =>
             call'[c].isp \in Isps /\ call'[c].key \in {call'[c].isp, Total}
        /\ call'[c].pc \notin {"setnx", "get"}
        /\ call'[c].pc \in {"incr", "expire", "undo"} =>
             Start' # Unset /\ call'[c].day = DayOf(call'[c].now, Start')
    BY <2>1, <2>3, <2>4, <2>5 DEF Rollback, Idle, CallRecord
  <2>7. CallsAreSane'
    BY <2>4, <2>5, <2>6, OthersStaySane
  <2>8. Counted' /\ Balanced' /\ Within'
    BY <1>1, <2>1, RollbackKeepsBounds
  <2> QED
    BY <1>1, <2>2, <2>7, <2>8 DEF QuotaInv
<1>11. CASE UNCHANGED <<redisStart, startedAt, count, call, granted, crashes>>
  <2>1. Start' = Start
    BY <1>11 DEF Start
  <2>2. OneRamp' /\ CallsAreSane'
    BY <1>11, <2>1 DEF QuotaInv, OneRamp, CallsAreSane
  <2>3. Counted' /\ Balanced' /\ Within'
    <3>1. ASSUME NEW d \in Dates, NEW k \in Keys
          PROVE  /\ count'[d][k] >= granted'[Redis][d][k] + Cardinality(Holders(d, k)')
                 /\ crashes' = 0 =>
                      count'[d][k] = granted'[Redis][d][k] + Cardinality(Holders(d, k)')
                 /\ granted'[Redis][d][k] + Cardinality(Passed(d, k)') <= CapOn(d, k, Start')
      <4>1. Holders(d, k)' = Holders(d, k) /\ Passed(d, k)' = Passed(d, k)
        BY <1>11 DEF Holders, Passed
      <4> QED
        BY <1>11, <2>1, <4>1 DEF QuotaInv, Counted, Balanced, Within
    <3> QED
      BY <3>1 DEF Counted, Balanced, Within
  <2> QED
    BY <1>1, <2>2, <2>3 DEF QuotaInv
<1>12. ASSUME NEW w \in Workers, Crash(w) PROVE QuotaInv'
  <2>1. Start' = Start
    BY <1>12 DEF Crash, Start
  <2>2. OneRamp'
    BY <1>3, <1>12 DEF Crash, QuotaInv, OneRamp
  <2>3. CallsAreSane'
    BY <1>12, <2>1 DEF Crash, QuotaInv, CallsAreSane, Idle
  <2>4. Counted' /\ Balanced' /\ Within'
    BY <1>12, CrashKeepsBounds
  <2> QED
    BY <1>1, <2>2, <2>3, <2>4 DEF QuotaInv
<1>13. Tick \/ UNCHANGED vars => UNCHANGED <<redisStart, startedAt, count, call, granted, crashes>>
  BY DEF Tick, vars
<1> QED
  BY <1>5, <1>6, <1>7, <1>8, <1>9, <1>10, <1>11, <1>12, <1>13 DEF Next, Step

LEMMA QuotaInvariant == ASSUME MaxFaults = 0 PROVE Spec => []QuotaInv
<1>1. QuotaInv /\ [Next]_vars => QuotaInv'
  BY QuotaStep
<1> QED
  BY <1>1, QuotaInit, PTL DEF Spec

\* The part of the invariant that outlives the calls: what was let through.
LEMMA LetThroughWithinRamp ==
  ASSUME QuotaInv, NEW d \in Dates, NEW k \in Keys
  PROVE  /\ granted[Redis][d][k] \in Nat
         /\ granted[Redis][d][k] <= CapOn(d, k, Start)
<1>1. granted[Redis][d][k] \in Nat
  BY DEF QuotaInv, TypeInv, TypeOK, Stores
<1>2. CapOn(d, k, Start) \in Nat
  BY CapOnType, StartType DEF QuotaInv, TypeInv
<1>3. granted[Redis][d][k] + Cardinality(Passed(d, k)) <= CapOn(d, k, Start)
  BY DEF QuotaInv, Within
<1> QED
  BY <1>1, <1>2, <1>3, HoldersFinite

LEMMA CapsFromQuota == QuotaInv => CapsHold
  BY LetThroughWithinRamp DEF CapsHold

LEMMA CapsHoldNext == QuotaInv' => CapsHold'
  BY CapsFromQuota, PTL

\* As long as Redis answers, racing calls never exceed a cap, over any number of
\* processes, whatever crashes.
THEOREM CapsAlwaysHold == ASSUME MaxFaults = 0 PROVE Spec => []CapsHold
  BY CapsFromQuota, QuotaInvariant, PTL

\* As long as Redis answers, all processes pace the same ramp.
THEOREM OneRampForAll == ASSUME MaxFaults = 0 PROVE Spec => []OneRamp
<1>1. QuotaInv => OneRamp
  BY DEF QuotaInv
<1> QED
  BY <1>1, QuotaInvariant, PTL

\* With no call running, nobody holds a key.
LEMMA NobodyHolds ==
  ASSUME \A c \in Calls : call[c].pc = "idle", NEW d, NEW k
  PROVE  Cardinality(Holders(d, k)) = 0
<1>1. Holders(d, k) = {}
  BY DEF Holders, Holds
<1> QED
  BY <1>1, FS_EmptySet

\* As long as Redis answers, a refusal consumes nothing: once all calls are over and
\* none was lost, every counter holds exactly what was let through.
THEOREM RefusalsCostNothing == ASSUME MaxFaults = 0 PROVE Spec => []RefusalsAreFree
<1>1. ASSUME QuotaInv, crashes = 0, \A c \in Calls : call[c].pc = "idle"
      PROVE  count = granted[Redis]
  <2>1. /\ count \in [Dates -> [Keys -> Int]]
        /\ granted[Redis] \in [Dates -> [Keys -> Nat]]
    BY <1>1 DEF QuotaInv, TypeInv, TypeOK, Stores
  <2>2. ASSUME NEW d \in Dates, NEW k \in Keys PROVE count[d][k] = granted[Redis][d][k]
    <3>1. Cardinality(Holders(d, k)) = 0
      BY <1>1, NobodyHolds
    <3>2. count[d][k] = granted[Redis][d][k] + Cardinality(Holders(d, k))
      BY <1>1 DEF QuotaInv, Balanced
    <3>3. granted[Redis][d][k] \in Nat
      BY <2>1
    <3> QED
      BY <3>1, <3>2, <3>3
  <2> QED
    BY <2>1, <2>2
<1>2. QuotaInv => RefusalsAreFree
  BY <1>1 DEF RefusalsAreFree
<1> QED
  BY <1>2, QuotaInvariant, PTL

\* A call that a comparison refuses met a counter that is full for its day.
LEMMA RefusedIsFull ==
  ASSUME QuotaInv, NEW c \in Calls, NEW v \in Int, Compare(c, v, Redis), crashes = 0,
         call'[c].pc = "undo",
         \/ /\ call[c].pc = "incr"
            /\ v = count[DateOf(call[c].now)][call[c].key] + 1
         \/ call[c].pc = "expire" /\ v = 1
  PROVE  granted[Redis][DateOf(call[c].now)][call[c].key]
           + Cardinality(Holders(DateOf(call[c].now), call[c].key) \ {c})
             >= Cap[call[c].day][call[c].key]
<1> DEFINE d == DateOf(call[c].now)
           k == call[c].key
           m == Cap[call[c].day][k]
           H == Holders(d, k)
<1>1. call[c] \in CallRecord /\ d \in Dates /\ k \in Keys /\ m \in Nat
  BY SaneCall, CapAssumption DEF CallRecord
<1>2. v > m
  <2>1. call \in [Calls -> CallRecord]
    BY DEF QuotaInv, TypeInv, TypeOK, CallRecord
  <2>2. Fits(c, v) => call'[c].pc \in {"incr", "idle"}
    BY <2>1 DEF Compare, CallRecord, Idle
  <2>3. ~(v <= m)
    BY <2>2 DEF Fits
  <2> QED
    BY <1>1, <2>3
<1>3. /\ granted[Redis][d][k] \in Nat /\ count[d][k] \in Int
      /\ count[d][k] = granted[Redis][d][k] + Cardinality(H)
  BY <1>1 DEF QuotaInv, TypeInv, TypeOK, Stores, Balanced
<1>4. Cardinality(H) \in Nat /\ Cardinality(H \ {c}) \in Nat
  <2>1. IsFiniteSet(H) /\ IsFiniteSet(H \ {c})
    BY HoldersFinite, FS_Subset
  <2> QED
    BY <2>1, FS_CardinalityType
<1>5. CASE call[c].pc = "incr" /\ v = count[d][k] + 1
  <2>1. c \notin H
    BY <1>5, SaneCall DEF Holders, Holds
  <2>2. H \ {c} = H
    BY <2>1
  <2>3. Cardinality(H \ {c}) = Cardinality(H)
    BY <2>2
  <2>4. PICK n \in Int, x \in Nat : count[d][k] = n /\ m = x
    BY <1>1, <1>3
  <2>5. v = n + 1 /\ v > x
    BY <1>2, <1>5, <2>4
  <2>6. n >= x
    BY <2>5
  <2> HIDE DEF d, k, m, H
  <2>7. granted[Redis][d][k] + Cardinality(H \ {c}) >= m
    BY <1>3, <2>3, <2>4, <2>6
  <2> QED
    BY <2>7 DEF d, k, m, H
<1>6. CASE call[c].pc = "expire" /\ v = 1
  <2>1. m = 0
    BY <1>1, <1>2, <1>6
  <2> QED
    BY <1>3, <1>4, <2>1
<1> QED
  BY <1>5, <1>6

\* As long as Redis answers and no call is lost, a call is refused only when what was let
\* through and what the calls it races with hold fill the cap it met.
THEOREM RefusedForAReason == ASSUME MaxFaults = 0 PROVE Spec => RefusedOnlyWhenFull
<1> DEFINE Full(c) ==
             granted[Redis][DateOf(call[c].now)][call[c].key]
               + Cardinality(Holders(DateOf(call[c].now), call[c].key) \ {c})
                 >= Cap[call[c].day][call[c].key]
<1>1. ASSUME QuotaInv, Next, NEW c \in Calls, Refused(c), crashes = 0 PROVE Full(c)
  <2>1. ~Fault
    BY <1>1, NoFault DEF QuotaInv, TypeInv
  <2>2. /\ call \in [Calls -> CallRecord]
        /\ count \in [Dates -> [Keys -> Int]]
    BY <1>1 DEF QuotaInv, TypeInv, TypeOK, CallRecord
  <2>3. call[c].pc # "undo" /\ call'[c].pc = "undo"
    BY <1>1 DEF Refused
  <2>4. ASSUME NEW b \in Calls,
               Reserve(b) \/ SetStart(b) \/ GetStart(b) \/ Decrement(b)
        PROVE  FALSE
    <3>1. call[b].pc = "undo" \/ call'[b].pc # "undo"
      <4>1. CASE Reserve(b)
        <5>1. call'[b].pc \in {"setnx", "incr"}
          BY <2>2, <4>1 DEF Reserve, Idle
        <5> QED
          BY <5>1
      <4>2. CASE SetStart(b)
        BY <2>1, <2>2, <4>2 DEF SetStart, CallRecord
      <4>3. CASE GetStart(b)
        BY <2>2, <4>3 DEF GetStart, Resolve, CallRecord
      <4>4. CASE Decrement(b)
        BY <4>4 DEF Decrement
      <4> QED
        BY <2>4, <4>1, <4>2, <4>3, <4>4
    <3>2. \A a \in Calls \ {b} : call'[a] = call[a]
      BY ZenonT(40), <2>2, <2>4 DEF Reserve, SetStart, GetStart, Resolve, Decrement
    <3> QED
      BY <2>3, <3>1, <3>2
  <2>5. ASSUME NEW b \in Calls, NEW v, Compare(b, v, Redis) PROVE b = c
    BY <1>1, <2>3, <2>5, CompareType DEF QuotaInv, Stores
  <2>6. ASSUME NEW b \in Calls, Increment(b) PROVE Full(c)
    <3> DEFINE v == count[DateOf(call[b].now)][call[b].key] + 1
    <3>1. /\ call[b].pc = "incr"
          /\ IF v = 1 THEN call' = [call EXCEPT ![b].pc = "expire"]
                      ELSE Compare(b, v, Redis)
      BY <2>1, <2>6 DEF Increment, CountLocally
    <3>2. v # 1
      <4>1. call[b].pc = "incr" /\ call' = [call EXCEPT ![b].pc = "expire"]
              => call'[c].pc = "expire" \/ call'[c] = call[c]
        BY <2>2 DEF CallRecord
      <4> QED
        BY <2>3, <3>1, <4>1
    <3>3. b = c
      BY <2>5, <3>1, <3>2
    <3>4. v \in Int
      BY <1>1, <2>2, SaneCall DEF CallRecord
    <3> QED
      BY <1>1, <2>3, <3>1, <3>2, <3>3, <3>4, RefusedIsFull
  <2>7. ASSUME NEW b \in Calls, Expire(b) PROVE Full(c)
    <3>1. call[b].pc = "expire" /\ Compare(b, 1, Redis)
      BY <2>1, <2>7 DEF Expire, CountLocally
    <3>2. b = c /\ 1 \in Int
      BY <2>5, <3>1
    <3> QED
      BY <1>1, <2>3, <3>1, <3>2, RefusedIsFull
  <2>8. ~Tick /\ (\A w \in Workers : ~Crash(w))
    BY <2>3 DEF Tick, Crash, Idle
  <2> QED
    BY <1>1, <2>4, <2>6, <2>7, <2>8 DEF Next, Step
<1>2. QuotaInv /\ [Next]_vars =>
        [\A c \in Calls : Refused(c) /\ crashes = 0 =>
           LET d == DateOf(call[c].now)
               k == call[c].key
           IN  granted[Redis][d][k] + Cardinality(Holders(d, k) \ {c})
                 >= Cap[call[c].day][call[c].key]]_vars
  BY <1>1
<1> QED
  BY <1>2, QuotaInvariant, PTL DEF Spec, RefusedOnlyWhenFull

\* A ramp that has begun never moves, whether or not Redis answers.
THEOREM RampNeverMoves == Spec => RampIsFixed
<1>1. [Next]_vars => (redisStart # Unset => redisStart' = redisStart)
  BY ZenonT(40) DEF Next, Step, Reserve, SetStart, SetNx, GetStart, Increment, Expire, Decrement,
         Tick, Crash, vars
<1>2. [Next]_vars => [redisStart # Unset => redisStart' = redisStart]_vars
  BY <1>1
<1> QED
  BY <1>2, PTL DEF Spec, RampIsFixed

-----------------------------------------------------------------------------
(* the gate implements WarmupCap *)

\* Both modules speak of the same ramp.
LEMMA SameRamp ==
  /\ Promise!Unset = Unset /\ Promise!Total = Total /\ Promise!Keys = Keys
  /\ Promise!Dates = Dates /\ Promise!Time = Time
  /\ \A d, k, s : Promise!CapOn(d, k, s) = CapOn(d, k, s)
  BY DEF Promise!Unset, Promise!Total, Promise!Keys, Promise!Dates, Promise!Time,
         Promise!CapOn, Promise!DayOf, Unset, Total, Keys, Dates, Time, CapOn, DayOf

LEMMA PromiseInit == Init => Promise!Init
<1> SUFFICES ASSUME Init PROVE Promise!Init
  OBVIOUS
<1>1. Start = Configured
  BY DEF Init, Start
<1>2. granted[Redis] = [d \in Dates |-> [k \in Keys |-> 0]]
  BY DEF Init, Zero, Stores
<1> QED
  BY <1>1, <1>2, SameRamp DEF Promise!Init

\* A comparison stutters or allows one send, under caps that the invariant of the next
\* state shows were not yet reached.
LEMMA CompareKeepsPromise ==
  ASSUME QuotaInv, QuotaInv', NEW c \in Calls, NEW v, Compare(c, v, Redis),
         call[c].pc # "idle", UNCHANGED redisStart
  PROVE  Promise!Next \/ UNCHANGED <<Start, granted[Redis]>>
<1>1. Start' = Start
  BY DEF Start
<1>2. CASE UNCHANGED granted
  BY <1>1, <1>2
<1>3. CASE Grant(c, Redis)
  <2> DEFINE d == DateOf(call[c].now)
             i == call[c].isp
             g == granted[Redis]
  <2>1. /\ call[c].via = Redis /\ d \in Dates
        /\ i \in Isps /\ i # Total /\ i \in Keys /\ Total \in Keys
    BY SaneCall DEF Keys
  <2>2. /\ g \in [Dates -> [Keys -> Nat]] /\ Redis \in Stores
        /\ granted \in [Stores -> [Dates -> [Keys -> Nat]]]
    BY DEF QuotaInv, TypeInv, TypeOK, Stores
  <2>3. granted'[Redis] = [g EXCEPT ![d][i] = @ + 1, ![d][Total] = @ + 1]
    BY SMTT(30), <1>3, <2>1, <2>2 DEF Grant, Record
  <2>4. granted'[Redis][d][i] = g[d][i] + 1 /\ granted'[Redis][d][Total] = g[d][Total] + 1
    BY <2>1, <2>2, <2>3
  <2>5. CapOn(d, i, Start) \in Nat /\ CapOn(d, Total, Start) \in Nat
    BY <2>1, CapOnType, StartType DEF QuotaInv, TypeInv
  <2>6. /\ granted'[Redis][d][i] <= CapOn(d, i, Start)
        /\ granted'[Redis][d][Total] <= CapOn(d, Total, Start)
    <3>1. CapsHold'
      BY CapsHoldNext
    <3> QED
      BY <1>1, <2>1, <3>1 DEF CapsHold
  <2>7. g[d][i] < CapOn(d, i, Start) /\ g[d][Total] < CapOn(d, Total, Start)
    <3>1. g[d][i] \in Nat /\ g[d][Total] \in Nat
      BY SMTT(30), <2>1, <2>2
    <3> QED
      BY <2>4, <2>5, <2>6, <3>1
  <2>8. Promise!Allow(d, i)
    BY ZenonT(40), <1>1, <2>3, <2>7, SameRamp DEF Promise!Allow
  <2> QED
    BY <2>1, <2>8, SameRamp DEF Promise!Next
<1> QED
  BY <1>2, <1>3 DEF Compare

\* Every step of the gate begins the ramp, allows one send or leaves the promise alone.
LEMMA PromiseStep ==
  ASSUME MaxFaults = 0, QuotaInv, QuotaInv', [Next]_vars
  PROVE  [Promise!Next]_<<Start, granted[Redis]>>
<1>1. ~Fault
  BY NoFault DEF QuotaInv, TypeInv
<1>2. ASSUME NEW c \in Calls, SetStart(c)
      PROVE  Promise!Next \/ UNCHANGED <<Start, granted[Redis]>>
  <2>1. redisStart' = SetNx(c) /\ UNCHANGED granted /\ call[c].now \in Time
    BY <1>1, <1>2, SaneCall DEF SetStart, CallRecord
  <2>2. CASE redisStart = Unset /\ Configured = Unset
    <3>1. Promise!Begin
      BY <2>1, <2>2, SameRamp DEF SetNx, Start, Promise!Begin
    <3> QED
      BY <3>1 DEF Promise!Next
  <2>3. CASE ~(redisStart = Unset /\ Configured = Unset)
    BY <2>1, <2>3 DEF SetNx, Start
  <2> QED
    BY <2>2, <2>3
<1>3. ASSUME NEW c \in Calls, Increment(c)
      PROVE  Promise!Next \/ UNCHANGED <<Start, granted[Redis]>>
  <2>1. /\ call[c].pc = "incr" /\ UNCHANGED redisStart
        /\ UNCHANGED granted \/ \E v : Compare(c, v, Redis)
    BY <1>1, <1>3 DEF Increment, CountLocally
  <2> QED
    BY <2>1, CompareKeepsPromise DEF Start
<1>4. ASSUME NEW c \in Calls, Expire(c)
      PROVE  Promise!Next \/ UNCHANGED <<Start, granted[Redis]>>
  <2>1. call[c].pc = "expire" /\ UNCHANGED redisStart /\ Compare(c, 1, Redis)
    BY <1>1, <1>4 DEF Expire, CountLocally
  <2> QED
    BY <2>1, CompareKeepsPromise
<1>5. ASSUME NEW c \in Calls, Reserve(c) \/ GetStart(c) \/ Decrement(c)
      PROVE  UNCHANGED <<Start, granted[Redis]>>
  BY <1>5 DEF Reserve, GetStart, Decrement, Start
<1>6. Tick \/ (\E w \in Workers : Crash(w)) \/ UNCHANGED vars
        => UNCHANGED <<Start, granted[Redis]>>
  BY DEF Tick, Crash, vars, Start
<1> QED
  BY <1>2, <1>3, <1>4, <1>5, <1>6 DEF Next, Step

\* As long as Redis answers, the gate implements its abstract promise.
THEOREM GateKeepsPromise == ASSUME MaxFaults = 0 PROVE Spec => PromiseKept
<1>1. QuotaInv /\ QuotaInv' /\ [Next]_vars => [Promise!Next]_<<Start, granted[Redis]>>
  BY PromiseStep
<1> QED
  BY <1>1, PromiseInit, QuotaInvariant, PTL DEF Spec, PromiseKept, Promise!Spec

-----------------------------------------------------------------------------
(* every send is counted, by one store or another, even when commands fail *)

\* No call is dated later than now.
OnTime == \A c \in Calls : call[c].now <= clock

\* A call works on its bucket before the total.
BucketFirst ==
  \A c \in Calls :
    /\ call[c].pc # "idle" => call[c].isp \in Isps /\ call[c].key \in {call[c].isp, Total}
    /\ call[c].pc \in {"setnx", "get"} => call[c].key = call[c].isp

\* Before the first midnight every local counter is of the first date.
FirstDate == crashes = 0 /\ DateOf(clock) = 0

LocalsOfDate ==
  \A w \in Workers : localDay[w] \in {Unset, 0} /\ (localDay[w] = Unset => local[w] = Zero)

LedgerInv == TypeInv /\ OnTime /\ BucketFirst /\ (FirstDate => LocalsOfDate /\ EverySendCounted)

\* The tables that the sums of the ledger add up.
LocalOf(l, k)   == [w \in Workers |-> l[w][k]]
SentOf(g, d, k) == [s \in Stores |-> g[s][d][k]]

\* The sums of the ledger are sums of integers, over finitely many stores.
LEMMA LedgerSums ==
  ASSUME TypeOK, NEW k \in Keys
  PROVE  /\ IsFiniteSet(Workers) /\ IsFiniteSet(Stores)
         /\ LocalOf(local, k) \in [Workers -> Int]
         /\ \A d \in Dates : SentOf(granted, d, k) \in [Stores -> Int]
         /\ CountedLocally(k) = SumFunctionOnSet(LocalOf(local, k), Workers)
         /\ \A d : Sent(d, k) = SumFunctionOnSet(SentOf(granted, d, k), Stores)
         /\ CountedLocally(k) \in Int
         /\ \A d \in Dates : Sent(d, k) \in Int
<1>1. IsFiniteSet(Workers) /\ IsFiniteSet(Stores)
  BY WorkerAssumption, FS_AddElement DEF Stores
<1>2. LocalOf(local, k) \in [Workers -> Int]
  BY DEF TypeOK, LocalOf
<1>3. \A d \in Dates : SentOf(granted, d, k) \in [Stores -> Int]
  BY DEF TypeOK, SentOf
<1>4. CountedLocally(k) = SumFunctionOnSet(LocalOf(local, k), Workers)
  BY DEF CountedLocally, LocalOf, SumFunction
<1>5. \A d : Sent(d, k) = SumFunctionOnSet(SentOf(granted, d, k), Stores)
  BY DEF Sent, SentOf, SumFunction
<1>6. CountedLocally(k) \in Int
  BY <1>1, <1>2, <1>4, SumType
<1>7. \A d \in Dates : Sent(d, k) \in Int
  BY <1>1, <1>3, <1>5, SumType
<1> QED
  BY <1>1, <1>2, <1>3, <1>4, <1>5, <1>6, <1>7

LEMMA LedgerSumsNext ==
  ASSUME TypeOK', NEW k \in Keys
  PROVE  /\ LocalOf(local', k) \in [Workers -> Int]
         /\ \A d \in Dates : SentOf(granted', d, k) \in [Stores -> Int]
         /\ CountedLocally(k)' = SumFunctionOnSet(LocalOf(local', k), Workers)
         /\ \A d : Sent(d, k)' = SumFunctionOnSet(SentOf(granted', d, k), Stores)
<1>1. LocalOf(local', k) \in [Workers -> Int]
  BY DEF TypeOK, LocalOf
<1>2. \A d \in Dates : SentOf(granted', d, k) \in [Stores -> Int]
  BY DEF TypeOK, SentOf
<1>3. CountedLocally(k)' = SumFunctionOnSet(LocalOf(local', k), Workers)
  BY DEF CountedLocally, LocalOf, SumFunction
<1>4. \A d : Sent(d, k)' = SumFunctionOnSet(SentOf(granted', d, k), Stores)
  BY DEF Sent, SentOf, SumFunction
<1> QED
  BY <1>1, <1>2, <1>3, <1>4

\* On the first date, what a process counts by itself adds to what all of them count.
LEMMA LocalMoves ==
  ASSUME TypeOK, TypeOK', LocalsOfDate, NEW c \in Calls, NEW n \in Int, BumpLocal(c, n),
         DateOf(call[c].now) = 0, NEW k \in Keys
  PROVE  /\ CountedLocally(k)' = CountedLocally(k) + (IF k = call[c].key THEN n ELSE 0)
         /\ LocalsOfDate'
<1> DEFINE w == WorkerOf[c]
           f == LocalOf(local, k)
           g == LocalOf(local', k)
<1>1. /\ w \in Workers /\ call[c].key \in Keys
      /\ local \in [Workers -> [Keys -> Int]] /\ localDay \in [Workers -> Dates \cup {Unset}]
  BY CallAssumption DEF TypeOK
<1>2. Bumped(w, 0, call[c].key, n) = [local[w] EXCEPT ![call[c].key] = @ + n]
  <2>1. (IF localDay[w] = 0 THEN local[w] ELSE Zero) = local[w]
    BY <1>1 DEF LocalsOfDate
  <2> QED
    BY <2>1 DEF Bumped
<1>3. /\ local' = [local EXCEPT ![w] = Bumped(w, 0, call[c].key, n)]
      /\ localDay' = [localDay EXCEPT ![w] = 0]
  BY DEF BumpLocal
<1>4. local'[w][k] = local[w][k] + (IF k = call[c].key THEN n ELSE 0)
  BY <1>1, <1>2, <1>3
<1>5. \A x \in Workers \ {w} : local'[x] = local[x] /\ localDay'[x] = localDay[x]
  BY <1>1, <1>3
<1>6. /\ g[w] = f[w] + (IF k = call[c].key THEN n ELSE 0)
      /\ \A x \in Workers \ {w} : g[x] = f[x]
      /\ f[w] \in Int /\ g[w] \in Int
  BY <1>1, <1>4, <1>5 DEF LocalOf, TypeOK
<1>7. SumFunctionOnSet(g, Workers) = SumFunctionOnSet(f, Workers) + g[w] - f[w]
  <2> HIDE DEF f, g, w
  <2>1. f \in [Workers -> Int] /\ g \in [Workers -> Int] /\ IsFiniteSet(Workers)
    BY LedgerSums, LedgerSumsNext DEF f, g
  <2> QED
    BY <1>1, <1>6, <2>1, SumMoves
<1>8. CountedLocally(k)' = CountedLocally(k) + (IF k = call[c].key THEN n ELSE 0)
  <2>1. CountedLocally(k) = SumFunctionOnSet(f, Workers) /\ CountedLocally(k) \in Int
    BY LedgerSums
  <2>2. CountedLocally(k)' = SumFunctionOnSet(g, Workers)
    BY LedgerSumsNext
  <2> HIDE DEF f, g, w
  <2> QED
    BY <1>6, <1>7, <2>1, <2>2
<1>9. LocalsOfDate'
  <2>1. localDay'[w] = 0 /\ 0 # Unset
    BY <1>1, <1>3 DEF Unset
  <2> QED
    BY <1>5, <2>1 DEF LocalsOfDate
<1> QED
  BY <1>8, <1>9

\* A grant adds one send under the bucket and one under the total, whatever the stores.
LEMMA SentMoves ==
  ASSUME TypeOK, TypeOK', NEW c \in Calls, NEW s \in Stores, Grant(c, s),
         DateOf(call[c].now) = 0, call[c].isp \in Isps, NEW k \in Keys
  PROVE  Sent(0, k)' = Sent(0, k) + Bit(k \in {call[c].isp, Total})
<1> DEFINE i == call[c].isp
           v == call[c].via
           h == Record(granted, v, 0, i)
           a == IF k = Total THEN s ELSE v
           f == SentOf(granted, 0, k)
           g == SentOf(granted', 0, k)
<1>1. /\ granted \in [Stores -> [Dates -> [Keys -> Nat]]] /\ v \in Stores /\ a \in Stores
      /\ i \in Keys /\ i # Total /\ Total \in Keys /\ 0 \in Dates
  <2>1. granted \in [Stores -> [Dates -> [Keys -> Nat]]] /\ v \in Stores
    BY DEF TypeOK
  <2>2. i \in Keys /\ i # Total /\ Total \in Keys /\ 0 \in Dates
    BY IspAssumption, DateAssumption DEF Keys, Dates
  <2> QED
    BY <2>1, <2>2
<1>2. /\ h \in [Stores -> [Dates -> [Keys -> Nat]]]
      /\ \A x \in Stores : h[x][0][k] = granted[x][0][k] + Bit(x = v /\ k = i)
  <2>1. h \in [Stores -> [Dates -> [Keys -> Nat]]]
    BY <1>1, RecordType
  <2> QED
    BY <1>1, <2>1 DEF Record, Bit
<1>3. \A x \in Stores : granted'[x][0][k] = h[x][0][k] + Bit(x = s /\ k = Total)
  <2>1. granted' = Record(h, s, 0, Total)
    BY DEF Grant
  <2> HIDE DEF h
  <2> QED
    BY <1>1, <1>2, <2>1 DEF Record, Bit
<1>4. \A x \in Stores : g[x] = f[x] + Bit(x = a /\ k \in {i, Total})
  <2>1. \A x \in Stores : granted[x][0][k] \in Nat
    BY <1>1
  <2> HIDE DEF h, v, i
  <2> QED
    BY <1>1, <1>2, <1>3, <2>1 DEF SentOf, Bit
<1>5. g[a] = f[a] + Bit(k \in {i, Total}) /\ \A x \in Stores \ {a} : g[x] = f[x]
  <2>1. \A x \in Stores : f[x] \in Nat
    BY <1>1 DEF SentOf
  <2> HIDE DEF f, g, a, h, i
  <2> QED
    BY <1>1, <1>4, <2>1 DEF Bit
<1>6. SumFunctionOnSet(g, Stores) = SumFunctionOnSet(f, Stores) + g[a] - f[a]
  <2>1. f \in [Stores -> Int] /\ IsFiniteSet(Stores)
    BY <1>1, LedgerSums
  <2>2. g \in [Stores -> Int]
    BY <1>1, LedgerSumsNext
  <2>3. a \in Stores
    BY <1>1
  <2> HIDE DEF f, g, a
  <2> QED
    BY <1>5, <2>1, <2>2, <2>3, SumMoves
<1>7. /\ Sent(0, k) = SumFunctionOnSet(f, Stores) /\ Sent(0, k) \in Int
      /\ Sent(0, k)' = SumFunctionOnSet(g, Stores)
      /\ f[a] \in Int
  BY <1>1, LedgerSums, LedgerSumsNext DEF SentOf
<1> HIDE DEF f, g, a, i
<1>8. Bit(k \in {i, Total}) \in Int
  BY DEF Bit
<1> QED
  BY <1>5, <1>6, <1>7, <1>8 DEF i

\* What is sent and held grows by what a comparison's call had not yet counted.
LEMMA CompareBalances ==
  ASSUME TypeInv, TypeOK', BucketFirst, NEW c \in Calls, call[c].pc \in {"incr", "expire"},
         NEW s \in Stores, NEW v, Compare(c, v, s), DateOf(call[c].now) = 0, NEW k \in Keys
  PROVE  /\ Sent(0, k)' + Bit(Holds(call'[c], 0, k)) =
              Sent(0, k) + Bit(Holds(call[c], 0, k)) + Bit(call[c].pc = "incr" /\ k = call[c].key)
         /\ Sent(0, k) \in Int
         /\ call'[c].pc \in {"idle", "incr", "undo"}
         /\ call'[c].pc # "idle" => /\ call'[c].now = call[c].now /\ call'[c].isp = call[c].isp
                                    /\ call'[c].key \in {call[c].isp, Total}
<1> DEFINE r == call[c]
<1>1. /\ call \in [Calls -> CallRecord] /\ r \in CallRecord /\ r.isp \in Isps
      /\ r.key \in {r.isp, Total} /\ r.isp # Total /\ Sent(0, k) \in Int
  <2>1. 0 \in Dates
    BY DateAssumption DEF Dates
  <2> QED
    BY <2>1, LedgerSums, IspAssumption DEF TypeInv, TypeOK, CallRecord, BucketFirst
<1>2. CASE call' = [call EXCEPT ![c].pc = "undo"] /\ UNCHANGED granted
  <2>1. call'[c] = [r EXCEPT !.pc = "undo"]
    BY <1>1, <1>2
  <2>2. /\ call'[c].pc = "undo" /\ call'[c].now = r.now
        /\ call'[c].key = r.key /\ call'[c].isp = r.isp
    BY <1>1, <2>1 DEF CallRecord
  <2>3. /\ Holds(call'[c], 0, k) <=> k = r.key \/ (k = r.isp /\ r.key = Total)
        /\ Holds(r, 0, k) <=> \/ k = r.key /\ r.pc = "expire"
                              \/ k = r.isp /\ r.key = Total
    BY <1>1, <2>2 DEF Holds
  <2>4. Sent(0, k)' = Sent(0, k)
    BY <1>2 DEF Sent
  <2>5. Bit(Holds(call'[c], 0, k)) = Bit(Holds(r, 0, k)) + Bit(r.pc = "incr" /\ k = r.key)
    BY <1>1, <2>3 DEF Bit
  <2>6. Bit(Holds(r, 0, k)) \in Int /\ Bit(r.pc = "incr" /\ k = r.key) \in Int
    BY DEF Bit
  <2> QED
    BY <1>1, <2>2, <2>4, <2>5, <2>6
<1>3. CASE /\ r.key # Total
           /\ call' = [call EXCEPT ![c].pc = "incr", ![c].key = Total, ![c].via = s]
           /\ UNCHANGED granted
  <2>1. call'[c] = [r EXCEPT !.pc = "incr", !.key = Total, !.via = s]
    BY <1>1, <1>3
  <2>2. /\ call'[c].pc = "incr" /\ call'[c].now = r.now
        /\ call'[c].key = Total /\ call'[c].isp = r.isp
    BY <1>1, <2>1 DEF CallRecord
  <2>3. /\ Holds(call'[c], 0, k) <=> k = r.isp
        /\ Holds(r, 0, k) <=> k = r.isp /\ r.pc = "expire"
    BY <1>1, <1>3, <2>2 DEF Holds
  <2>4. Sent(0, k)' = Sent(0, k)
    BY <1>3 DEF Sent
  <2>5. Bit(Holds(call'[c], 0, k)) = Bit(Holds(r, 0, k)) + Bit(r.pc = "incr" /\ k = r.key)
    BY <1>1, <1>3, <2>3 DEF Bit
  <2>6. Bit(Holds(r, 0, k)) \in Int /\ Bit(r.pc = "incr" /\ k = r.key) \in Int
    BY DEF Bit
  <2> QED
    BY <1>1, <2>2, <2>4, <2>5, <2>6
<1>4. CASE /\ r.key = Total
           /\ call' = [call EXCEPT ![c] = Idle]
           /\ Grant(c, s)
  <2>1. call'[c].pc = "idle"
    BY <1>1, <1>4 DEF Idle
  <2>2. /\ ~Holds(call'[c], 0, k)
        /\ Holds(r, 0, k) <=> k = r.isp \/ (k = Total /\ r.pc = "expire")
    BY <1>1, <1>4, <2>1 DEF Holds
  <2>3. Sent(0, k)' = Sent(0, k) + Bit(k \in {r.isp, Total})
    BY <1>1, <1>4, SentMoves DEF TypeInv
  <2>4. /\ Bit(k \in {r.isp, Total}) =
             Bit(Holds(r, 0, k)) + Bit(r.pc = "incr" /\ k = r.key)
        /\ Bit(Holds(call'[c], 0, k)) = 0
    BY <1>1, <1>4, <2>2 DEF Bit
  <2>5. Bit(Holds(r, 0, k)) \in Int /\ Bit(r.pc = "incr" /\ k = r.key) \in Int
    BY DEF Bit
  <2> QED
    BY <1>1, <2>1, <2>3, <2>4, <2>5
<1> QED
  BY <1>2, <1>3, <1>4 DEF Compare

\* The ledger balances after a step of call c when, for every key, the counters grow by
\* no less than what is sent and held.
LEMMA LedgerAfter ==
  ASSUME LedgerInv, TypeInv', NEW c \in Calls, \A b \in Calls \ {c} : call'[b] = call[b],
         UNCHANGED <<clock, crashes>>, FirstDate,
         \A k \in Keys :
           count'[0][k] + CountedLocally(k)' - count[0][k] - CountedLocally(k) >=
             Sent(0, k)' + Bit(Holds(call'[c], 0, k)) - Sent(0, k) - Bit(Holds(call[c], 0, k))
  PROVE  EverySendCounted'
<1>1. 0 \in Dates
  BY DateAssumption DEF Dates
<1>2. ASSUME NEW k \in Keys
      PROVE  count'[0][k] + CountedLocally(k)' >= Sent(0, k)' + Cardinality(Holders(0, k)')
  <2>1. /\ count[0][k] \in Int /\ count'[0][k] \in Int
        /\ CountedLocally(k) \in Int /\ Sent(0, k) \in Int
    BY <1>1, LedgerSums DEF LedgerInv, TypeInv, TypeOK
  <2>2. CountedLocally(k)' \in Int /\ Sent(0, k)' \in Int
    <3>1. /\ LocalOf(local', k) \in [Workers -> Int]
          /\ SentOf(granted', 0, k) \in [Stores -> Int]
          /\ CountedLocally(k)' = SumFunctionOnSet(LocalOf(local', k), Workers)
          /\ Sent(0, k)' = SumFunctionOnSet(SentOf(granted', 0, k), Stores)
      BY <1>1, LedgerSumsNext DEF TypeInv
    <3>2. IsFiniteSet(Workers) /\ IsFiniteSet(Stores)
      BY LedgerSums DEF LedgerInv, TypeInv
    <3> QED
      BY <3>1, <3>2, SumType
  <2>3. count[0][k] + CountedLocally(k) >= Sent(0, k) + Cardinality(Holders(0, k))
    BY DEF LedgerInv, EverySendCounted, FirstDate
  <2>4. /\ Cardinality(Holders(0, k)) \in Nat /\ Cardinality(Holders(0, k)') \in Nat
        /\ Cardinality(Holders(0, k)') =
             Cardinality(Holders(0, k)) + Bit(Holds(call'[c], 0, k)) - Bit(Holds(call[c], 0, k))
    BY HoldersFinite, CallMoves
  <2>5. Bit(Holds(call'[c], 0, k)) \in Int /\ Bit(Holds(call[c], 0, k)) \in Int
    BY DEF Bit
  <2>6. count'[0][k] + CountedLocally(k)' - count[0][k] - CountedLocally(k) >=
          Sent(0, k)' + Bit(Holds(call'[c], 0, k)) - Sent(0, k) - Bit(Holds(call[c], 0, k))
    OBVIOUS
  <2> QED
    BY <2>1, <2>2, <2>3, <2>4, <2>5, <2>6
<1> QED
  BY <1>2 DEF EverySendCounted

\* Calls that keep their date and their keys stay dated and on their bucket first.
LEMMA StaysOnTime ==
  ASSUME LedgerInv, TypeInv', NEW c \in Calls, \A b \in Calls \ {c} : call'[b] = call[b],
         UNCHANGED clock,
         \/ call'[c] = Idle
         \/ /\ call'[c].now \in {call[c].now, clock}
            /\ call'[c].isp \in Isps /\ call'[c].key \in {call'[c].isp, Total}
            /\ call'[c].pc \in {"setnx", "get"} => call'[c].key = call'[c].isp
  PROVE  OnTime' /\ BucketFirst'
<1>1. 0 <= clock
  BY DEF LedgerInv, TypeInv, TypeOK, Time
<1>2. call'[c].now <= clock
  BY <1>1 DEF LedgerInv, TypeInv, TypeOK, OnTime, Idle, Time
<1> QED
  BY <1>2 DEF LedgerInv, OnTime, BucketFirst, Idle

LEMMA LedgerInit == Init => LedgerInv
<1> SUFFICES ASSUME Init PROVE LedgerInv
  OBVIOUS
<1>1. OnTime /\ BucketFirst /\ LocalsOfDate
  BY DEF Init, OnTime, BucketFirst, LocalsOfDate, Idle
<1>2. TypeInv /\ 0 \in Dates
  BY TypeInit, DateAssumption DEF Dates
<1>3. ASSUME NEW k \in Keys
      PROVE  count[0][k] + CountedLocally(k) >= Sent(0, k) + Cardinality(Holders(0, k))
  <2>1. Holders(0, k) = {}
    BY DEF Init, Holders, Holds, Idle
  <2>2. \A w \in Workers : LocalOf(local, k)[w] = 0
    BY DEF Init, LocalOf, Zero
  <2>3. \A s \in Stores : SentOf(granted, 0, k)[s] = 0
    BY <1>2 DEF Init, SentOf, Zero
  <2>4. CountedLocally(k) = 0
    BY <1>2, <2>2, LedgerSums, SumOfZeroes DEF TypeInv
  <2>5. Sent(0, k) = 0
    BY <1>2, <2>3, LedgerSums, SumOfZeroes DEF TypeInv
  <2>6. count[0][k] = 0 /\ Cardinality(Holders(0, k)) = 0
    BY <1>2, <2>1, FS_EmptySet DEF Init, Zero
  <2> QED
    BY <2>4, <2>5, <2>6
<1> QED
  BY <1>1, <1>2, <1>3 DEF LedgerInv, EverySendCounted

\* A step that touches no count keeps the ledger, for a call that holds no key.
LEMMA LedgerUntouched ==
  ASSUME LedgerInv, TypeInv', NEW c \in Calls, \A b \in Calls \ {c} : call'[b] = call[b],
         UNCHANGED <<clock, crashes, count, local, localDay, granted>>,
         \A k \in Keys : ~Holds(call[c], 0, k) /\ ~Holds(call'[c], 0, k)
  PROVE  (FirstDate => LocalsOfDate /\ EverySendCounted)'
<1> SUFFICES ASSUME FirstDate' PROVE LocalsOfDate' /\ EverySendCounted'
  OBVIOUS
<1>1. FirstDate /\ LocalsOfDate'
  BY DEF FirstDate, LedgerInv, LocalsOfDate
<1>2. ASSUME NEW k \in Keys
      PROVE  count'[0][k] + CountedLocally(k)' - count[0][k] - CountedLocally(k) >=
               Sent(0, k)' + Bit(Holds(call'[c], 0, k)) - Sent(0, k) - Bit(Holds(call[c], 0, k))
  <2>1. CountedLocally(k)' = CountedLocally(k) /\ Sent(0, k)' = Sent(0, k)
    BY DEF CountedLocally, Sent
  <2>2. /\ count[0][k] \in Int /\ CountedLocally(k) \in Int /\ Sent(0, k) \in Int
    <3>1. 0 \in Dates
      BY DateAssumption DEF Dates
    <3> QED
      BY <3>1, LedgerSums DEF LedgerInv, TypeInv, TypeOK
  <2>3. Bit(Holds(call'[c], 0, k)) = 0 /\ Bit(Holds(call[c], 0, k)) = 0
    BY DEF Bit
  <2> QED
    BY <2>1, <2>2, <2>3
<1> QED
  BY <1>1, <1>2, LedgerAfter

\* Where a call dated on the first date stands.
LEMMA DatedCall ==
  ASSUME LedgerInv, FirstDate, NEW c \in Calls
  PROVE  /\ DateOf(call[c].now) = 0 /\ 0 \in Dates
         /\ call[c].now \in Time /\ call[c].key \in Keys
<1>1. call[c].now \in Time /\ call[c].now <= clock /\ clock \in Time /\ call[c].key \in Keys
  BY DEF LedgerInv, TypeInv, TypeOK, OnTime
<1>2. DateOf(clock) = 0
  BY DEF FirstDate
<1> QED
  BY <1>1, <1>2, DateAssumption, SMT DEF DateOf, Time, Dates

\* An increment or an expiry: a counter grows before what is held or sent does.
LEMMA LedgerOnCompare ==
  ASSUME LedgerInv, TypeInv', NEW c \in Calls, call[c].pc \in {"incr", "expire"},
         UNCHANGED <<clock, crashes>>, FirstDate, NEW s \in Stores, NEW v, Compare(c, v, s),
         \/ /\ call[c].pc = "incr" /\ UNCHANGED <<local, localDay>>
            /\ count' = [count EXCEPT ![0][call[c].key] = count[0][call[c].key] + 1]
         \/ call[c].pc = "expire" /\ UNCHANGED <<count, local, localDay>>
         \/ BumpLocal(c, 1) /\ UNCHANGED count
  PROVE  LocalsOfDate' /\ EverySendCounted'
<1>1. /\ DateOf(call[c].now) = 0 /\ 0 \in Dates /\ call[c].key \in Keys
  BY DatedCall
<1>2. \A b \in Calls \ {c} : call'[b] = call[b]
  BY CompareType DEF LedgerInv
<1>3. TypeInv /\ TypeOK /\ TypeOK' /\ BucketFirst /\ LocalsOfDate
  BY DEF LedgerInv, TypeInv
<1>4. LocalsOfDate'
  <2>1. CASE UNCHANGED <<local, localDay>>
    BY <1>3, <2>1 DEF LocalsOfDate
  <2>2. CASE BumpLocal(c, 1)
    <3>1. 1 \in Int /\ Total \in Keys
      BY DEF Keys
    <3> QED
      BY <1>1, <1>3, <2>2, <3>1, LocalMoves
  <2> QED
    BY <2>1, <2>2
<1>5. ASSUME NEW k \in Keys
      PROVE  count'[0][k] + CountedLocally(k)' - count[0][k] - CountedLocally(k) >=
               Sent(0, k)' + Bit(Holds(call'[c], 0, k)) - Sent(0, k) - Bit(Holds(call[c], 0, k))
  <2> DEFINE grown == count'[0][k] + CountedLocally(k)' - count[0][k] - CountedLocally(k)
             new   == Bit(call[c].pc = "incr" /\ k = call[c].key)
  <2>1. /\ count[0][k] \in Int /\ CountedLocally(k) \in Int /\ Sent(0, k) \in Int
    BY <1>1, <1>3, LedgerSums DEF TypeOK
  <2>2. grown >= new
    <3>1. CASE /\ call[c].pc = "incr" /\ UNCHANGED <<local, localDay>>
               /\ count' = [count EXCEPT ![0][call[c].key] = count[0][call[c].key] + 1]
      <4>1. CountedLocally(k)' = CountedLocally(k)
        BY <3>1 DEF CountedLocally
      <4>2. count'[0][k] = count[0][k] + new
        <5>1. count \in [Dates -> [Keys -> Int]]
          BY <1>3 DEF TypeOK
        <5> QED
          BY <1>1, <3>1, <5>1 DEF Bit
      <4>3. new \in Int
        BY DEF Bit
      <4> HIDE DEF new
      <4> QED
        BY <2>1, <4>1, <4>2, <4>3
    <3>2. CASE call[c].pc = "expire" /\ UNCHANGED <<count, local, localDay>>
      <4>1. CountedLocally(k)' = CountedLocally(k)
        BY <3>2 DEF CountedLocally
      <4>2. new = 0
        BY <3>2 DEF Bit
      <4> HIDE DEF new
      <4> QED
        BY <2>1, <3>2, <4>1, <4>2
    <3>3. CASE BumpLocal(c, 1) /\ UNCHANGED count
      <4>1. CountedLocally(k)' = CountedLocally(k) + (IF k = call[c].key THEN 1 ELSE 0)
        BY <1>1, <1>3, <3>3, LocalMoves
      <4>2. new \in Int /\ new <= (IF k = call[c].key THEN 1 ELSE 0)
        BY DEF Bit
      <4> HIDE DEF new
      <4> QED
        BY <2>1, <3>3, <4>1, <4>2
    <3> QED
      BY <3>1, <3>2, <3>3
  <2>3. Sent(0, k)' + Bit(Holds(call'[c], 0, k)) = Sent(0, k) + Bit(Holds(call[c], 0, k)) + new
    BY <1>1, <1>3, CompareBalances
  <2>4. /\ Bit(Holds(call'[c], 0, k)) \in Int /\ Bit(Holds(call[c], 0, k)) \in Int /\ new \in Int
    BY DEF Bit
  <2>5. Sent(0, k)' \in Int
    <3>1. /\ SentOf(granted', 0, k) \in [Stores -> Int]
          /\ Sent(0, k)' = SumFunctionOnSet(SentOf(granted', 0, k), Stores)
      BY <1>1, <1>3, LedgerSumsNext
    <3>2. IsFiniteSet(Stores)
      BY <1>3, LedgerSums
    <3> QED
      BY <3>1, <3>2, SumType
  <2>6. Sent(0, k)' + Bit(Holds(call'[c], 0, k)) - Sent(0, k) - Bit(Holds(call[c], 0, k)) = new
    <3> DEFINE x == Sent(0, k)
               y == Sent(0, k)'
               p == Bit(Holds(call[c], 0, k))
               q == Bit(Holds(call'[c], 0, k))
    <3>1. x \in Int /\ y \in Int /\ p \in Int /\ q \in Int /\ new \in Int /\ y + q = x + p + new
      BY <2>1, <2>3, <2>4, <2>5
    <3> HIDE DEF new, x, y, p, q
    <3>2. y + q - x - p = new
      BY <3>1
    <3> QED
      BY <3>2 DEF x, y, p, q
  <2> HIDE DEF new, grown
  <2>7. grown >= Sent(0, k)' + Bit(Holds(call'[c], 0, k)) - Sent(0, k) - Bit(Holds(call[c], 0, k))
    BY <2>2, <2>6
  <2> QED
    BY <2>7 DEF grown
<1> QED
  BY <1>2, <1>4, <1>5, LedgerAfter

\* The first increment of a key: counted, and held until its expiry is set.
LEMMA LedgerOnFirst ==
  ASSUME LedgerInv, TypeInv', NEW c \in Calls, call[c].pc = "incr",
         UNCHANGED <<clock, crashes, local, localDay, granted>>, FirstDate,
         count' = [count EXCEPT ![0][call[c].key] = count[0][call[c].key] + 1],
         call' = [call EXCEPT ![c].pc = "expire"]
  PROVE  LocalsOfDate' /\ EverySendCounted'
<1>1. /\ DateOf(call[c].now) = 0 /\ 0 \in Dates /\ call[c].key \in Keys
  BY DatedCall
<1>2. /\ call \in [Calls -> CallRecord] /\ count \in [Dates -> [Keys -> Int]]
      /\ LocalsOfDate /\ TypeOK /\ call[c] \in CallRecord
  BY DEF LedgerInv, TypeInv, TypeOK, CallRecord
<1>3. /\ call'[c] = [call[c] EXCEPT !.pc = "expire"]
      /\ \A b \in Calls \ {c} : call'[b] = call[b]
  BY <1>2
<1>4. /\ call'[c].pc = "expire" /\ call'[c].now = call[c].now
      /\ call'[c].key = call[c].key /\ call'[c].isp = call[c].isp
  BY <1>2, <1>3 DEF CallRecord
<1>5. LocalsOfDate'
  BY <1>2 DEF LocalsOfDate
<1>6. ASSUME NEW k \in Keys
      PROVE  count'[0][k] + CountedLocally(k)' - count[0][k] - CountedLocally(k) >=
               Sent(0, k)' + Bit(Holds(call'[c], 0, k)) - Sent(0, k) - Bit(Holds(call[c], 0, k))
  <2>1. count[0][k] \in Int /\ CountedLocally(k) \in Int /\ Sent(0, k) \in Int
    BY <1>1, <1>2, LedgerSums
  <2>2. CountedLocally(k)' = CountedLocally(k) /\ Sent(0, k)' = Sent(0, k)
    BY DEF CountedLocally, Sent
  <2>3. count'[0][k] = count[0][k] + Bit(k = call[c].key)
    BY <1>1, <1>2 DEF Bit
  <2>4. Bit(Holds(call'[c], 0, k)) - Bit(Holds(call[c], 0, k)) <= Bit(k = call[c].key)
    BY <1>1, <1>4 DEF Holds, Bit
  <2>5. /\ Bit(Holds(call'[c], 0, k)) \in Int /\ Bit(Holds(call[c], 0, k)) \in Int
        /\ Bit(k = call[c].key) \in Int
    BY DEF Bit
  <2> QED
    BY <2>1, <2>2, <2>3, <2>4, <2>5
<1> QED
  BY <1>3, <1>5, <1>6, LedgerAfter

\* A rollback lets go of a key together with its increment, in whatever store.
LEMMA LedgerOnRollback ==
  ASSUME LedgerInv, TypeInv', NEW c \in Calls, call[c].pc = "undo",
         UNCHANGED <<clock, crashes, granted>>, FirstDate,
         \/ /\ count' = [count EXCEPT ![0][call[c].key] = @ - 1]
            /\ UNCHANGED <<local, localDay>>
         \/ BumpLocal(c, -1) /\ UNCHANGED count,
         call' = [call EXCEPT ![c] = Rollback(c)]
  PROVE  LocalsOfDate' /\ EverySendCounted'
<1> DEFINE r == call[c]
<1>1. /\ DateOf(r.now) = 0 /\ 0 \in Dates /\ r.key \in Keys
  BY DatedCall
<1>2. /\ call \in [Calls -> CallRecord] /\ count \in [Dates -> [Keys -> Int]]
      /\ LocalsOfDate /\ TypeOK /\ TypeOK' /\ r \in CallRecord
      /\ r.isp \in Isps /\ r.key \in {r.isp, Total} /\ r.isp # Total
  BY IspAssumption DEF LedgerInv, TypeInv, TypeOK, CallRecord, BucketFirst
<1>3. call'[c] = Rollback(c) /\ \A b \in Calls \ {c} : call'[b] = call[b]
  BY <1>2
<1>4. LocalsOfDate'
  <2>1. CASE UNCHANGED <<local, localDay>>
    BY <1>2, <2>1 DEF LocalsOfDate
  <2>2. CASE BumpLocal(c, -1)
    BY <1>1, <1>2, <2>2, LocalMoves
  <2> QED
    BY <2>1, <2>2
<1>5. ASSUME NEW k \in Keys
      PROVE  count'[0][k] + CountedLocally(k)' - count[0][k] - CountedLocally(k) >=
               Sent(0, k)' + Bit(Holds(call'[c], 0, k)) - Sent(0, k) - Bit(Holds(call[c], 0, k))
  <2>1. count[0][k] \in Int /\ CountedLocally(k) \in Int /\ Sent(0, k) \in Int
    BY <1>1, <1>2, LedgerSums
  <2>2. Sent(0, k)' = Sent(0, k)
    BY DEF Sent
  <2>3. count'[0][k] + CountedLocally(k)' - count[0][k] - CountedLocally(k) = 0 - Bit(k = r.key)
    <3>1. CASE /\ count' = [count EXCEPT ![0][r.key] = @ - 1]
               /\ UNCHANGED <<local, localDay>>
      <4>1. CountedLocally(k)' = CountedLocally(k)
        BY <3>1 DEF CountedLocally
      <4>2. count'[0][k] = count[0][k] - Bit(k = r.key)
        BY <1>1, <1>2, <3>1 DEF Bit
      <4>3. Bit(k = r.key) \in Int
        BY DEF Bit
      <4> QED
        BY <2>1, <4>1, <4>2, <4>3
    <3>2. CASE BumpLocal(c, -1) /\ UNCHANGED count
      <4>1. CountedLocally(k)' = CountedLocally(k) + (IF k = r.key THEN -1 ELSE 0)
        BY <1>1, <1>2, <3>2, LocalMoves
      <4> QED
        BY <2>1, <3>2, <4>1 DEF Bit
    <3> QED
      BY <3>1, <3>2
  <2>4. Bit(Holds(call'[c], 0, k)) - Bit(Holds(r, 0, k)) = 0 - Bit(k = r.key)
    <3>1. Holds(r, 0, k) <=> k = r.key \/ (k = r.isp /\ r.key = Total)
      BY <1>1 DEF Holds
    <3>2. CASE r.key = Total
      <4>1. call'[c] = [r EXCEPT !.key = r.isp]
        BY <1>3, <3>2 DEF Rollback
      <4>2. /\ call'[c].pc = "undo" /\ call'[c].now = r.now
            /\ call'[c].key = r.isp /\ call'[c].isp = r.isp
        BY <1>2, <4>1 DEF CallRecord
      <4>3. Holds(call'[c], 0, k) <=> k = r.isp
        BY <1>1, <1>2, <4>2 DEF Holds
      <4> QED
        BY <1>2, <3>1, <3>2, <4>3 DEF Bit
    <3>3. CASE r.key # Total
      <4>1. ~Holds(call'[c], 0, k)
        BY <1>3, <3>3 DEF Rollback, Idle, Holds
      <4> QED
        BY <1>2, <3>1, <3>3, <4>1 DEF Bit
    <3> QED
      BY <3>2, <3>3
  <2>5. /\ Bit(Holds(call'[c], 0, k)) \in Int /\ Bit(Holds(r, 0, k)) \in Int
        /\ Bit(k = r.key) \in Int
    BY DEF Bit
  <2>6. Sent(0, k)' + Bit(Holds(call'[c], 0, k)) - Sent(0, k) - Bit(Holds(r, 0, k)) = 0 - Bit(k = r.key)
    BY <2>1, <2>2, <2>4, <2>5
  <2>7. 0 - Bit(k = r.key) \in Int
    BY DEF Bit
  <2> QED
    BY <2>3, <2>6, <2>7
<1> QED
  BY <1>3, <1>4, <1>5, LedgerAfter

\* Whether Redis answers or rejects its command, every action keeps the ledger.
LEMMA LedgerStep == LedgerInv /\ [Next]_vars => LedgerInv'
<1> SUFFICES ASSUME LedgerInv, [Next]_vars PROVE LedgerInv'
  OBVIOUS
<1>1. TypeInv' /\ TypeInv
  BY TypeStep DEF LedgerInv
<1>2. /\ call \in [Calls -> CallRecord] /\ clock \in Time /\ crashes \in Nat
      /\ count \in [Dates -> [Keys -> Int]]
  BY <1>1, FaultAssumption DEF TypeInv, TypeOK, CallRecord
<1>3. Redis \in Stores /\ \A c \in Calls : WorkerOf[c] \in Stores
  BY CallAssumption DEF Stores
<1>4. ASSUME NEW c \in Calls, Reserve(c) PROVE LedgerInv'
  <2> DEFINE known == IF Configured # Unset THEN Configured ELSE startedAt[WorkerOf[c]]
  <2>1. PICK i \in Isps :
          call' = [call EXCEPT ![c] =
                     [Idle EXCEPT !.now = clock, !.isp = i, !.key = i,
                        !.pc  = IF known = Unset THEN "setnx" ELSE "incr",
                        !.day = IF known = Unset THEN 1 ELSE DayOf(clock, known)]]
    BY <1>4, ZenonT(30) DEF Reserve
  <2>2. /\ call'[c].now = clock /\ call'[c].isp = i /\ call'[c].key = i
        /\ call'[c].pc \in {"setnx", "incr"}
        /\ \A b \in Calls \ {c} : call'[b] = call[b]
    BY <1>2, <2>1 DEF Idle
  <2>3. call[c].pc = "idle" /\ UNCHANGED <<clock, crashes, count, local, localDay, granted>>
    BY <1>4 DEF Reserve
  <2>4. OnTime' /\ BucketFirst'
    BY <1>1, <2>2, <2>3, StaysOnTime
  <2>5. \A k \in Keys : ~Holds(call[c], 0, k) /\ ~Holds(call'[c], 0, k)
    BY <2>2, <2>3, IspAssumption DEF Holds
  <2>6. (FirstDate => LocalsOfDate /\ EverySendCounted)'
    BY <1>1, <2>2, <2>3, <2>5, LedgerUntouched
  <2> QED
    BY <1>1, <2>4, <2>6 DEF LedgerInv
<1>5. ASSUME NEW c \in Calls, SetStart(c) \/ GetStart(c) PROVE LedgerInv'
  <2>1. /\ call[c].pc \in {"setnx", "get"} /\ call[c].key = call[c].isp /\ call[c].isp \in Isps
        /\ call[c] \in CallRecord
        /\ UNCHANGED <<clock, crashes, count, local, localDay, granted>>
    BY <1>2, <1>5 DEF SetStart, GetStart, LedgerInv, BucketFirst
  <2>2. \/ call' = [call EXCEPT ![c].pc = "get"]
        \/ \E s : call' = [call EXCEPT ![c].pc = "incr", ![c].day = DayOf(call[c].now, s)]
    BY <1>5 DEF SetStart, GetStart, Resolve
  <2>3. /\ call'[c].now = call[c].now /\ call'[c].isp = call[c].isp /\ call'[c].key = call[c].key
        /\ call'[c].pc \in {"get", "incr"}
        /\ \A b \in Calls \ {c} : call'[b] = call[b]
    BY <1>2, <2>1, <2>2 DEF CallRecord
  <2>4. OnTime' /\ BucketFirst'
    BY <1>1, <2>1, <2>3, StaysOnTime
  <2>5. \A k \in Keys : ~Holds(call[c], 0, k) /\ ~Holds(call'[c], 0, k)
    BY <2>1, <2>3, IspAssumption DEF Holds
  <2>6. (FirstDate => LocalsOfDate /\ EverySendCounted)'
    BY <1>1, <2>1, <2>3, <2>5, LedgerUntouched
  <2> QED
    BY <1>1, <2>4, <2>6 DEF LedgerInv
<1>6. ASSUME NEW c \in Calls, NEW v, NEW s \in Stores, Compare(c, v, s),
             call[c].pc \in {"incr", "expire"}, UNCHANGED clock
      PROVE  OnTime' /\ BucketFirst'
  <2>1. \A b \in Calls \ {c} : call'[b] = call[b]
    BY <1>1, <1>6, CompareType
  <2>2. /\ call[c] \in CallRecord /\ call[c].isp \in Isps /\ call[c].key \in {call[c].isp, Total}
    BY <1>2, <1>6 DEF LedgerInv, BucketFirst
  <2>3. \/ call'[c] = [call[c] EXCEPT !.pc = "undo"]
        \/ call'[c] = [call[c] EXCEPT !.pc = "incr", !.key = Total, !.via = s]
        \/ call'[c] = Idle
    BY <1>2, <1>6 DEF Compare
  <2>4. \/ call'[c] = Idle
        \/ /\ call'[c].now = call[c].now /\ call'[c].isp = call[c].isp
           /\ call'[c].key \in {call[c].key, Total} /\ call'[c].pc \in {"undo", "incr"}
    BY <2>2, <2>3 DEF CallRecord
  <2> QED
    BY <1>1, <1>6, <2>1, <2>2, <2>4, StaysOnTime
<1>7. ASSUME NEW c \in Calls, Increment(c) PROVE LedgerInv'
  <2> DEFINE v == count[DateOf(call[c].now)][call[c].key] + 1
  <2>1. call[c].pc = "incr" /\ UNCHANGED <<clock, crashes>>
    BY <1>7 DEF Increment
  <2>2. /\ FirstDate' => FirstDate
        /\ FirstDate => DateOf(call[c].now) = 0
    BY <2>1, DatedCall DEF FirstDate
  <2>3. CASE /\ count' = [count EXCEPT ![DateOf(call[c].now)][call[c].key] = v]
             /\ call' = [call EXCEPT ![c].pc = "expire"]
             /\ UNCHANGED <<granted, local, localDay>>
    <3>1. /\ call'[c] = [call[c] EXCEPT !.pc = "expire"]
          /\ \A b \in Calls \ {c} : call'[b] = call[b]
          /\ call[c] \in CallRecord /\ call[c].isp \in Isps /\ call[c].key \in {call[c].isp, Total}
      BY <1>2, <2>1, <2>3 DEF LedgerInv, BucketFirst
    <3>2. /\ call'[c].pc = "expire" /\ call'[c].now = call[c].now
          /\ call'[c].key = call[c].key /\ call'[c].isp = call[c].isp
      BY <3>1 DEF CallRecord
    <3>3. OnTime' /\ BucketFirst'
      BY <1>1, <2>1, <3>1, <3>2, StaysOnTime
    <3>4. FirstDate => LocalsOfDate' /\ EverySendCounted'
      BY <1>1, <2>1, <2>2, <2>3, LedgerOnFirst
    <3> QED
      BY <1>1, <2>2, <3>3, <3>4 DEF LedgerInv
  <2>4. CASE /\ count' = [count EXCEPT ![DateOf(call[c].now)][call[c].key] = v]
             /\ Compare(c, v, Redis)
             /\ UNCHANGED <<local, localDay>>
    <3>1. OnTime' /\ BucketFirst'
      BY <1>3, <1>6, <2>1, <2>4
    <3>2. ASSUME FirstDate PROVE LocalsOfDate' /\ EverySendCounted'
      <4>1. count' = [count EXCEPT ![0][call[c].key] = count[0][call[c].key] + 1]
        BY <2>2, <2>4, <3>2
      <4> HIDE DEF v
      <4> QED
        BY <1>1, <1>3, <2>1, <2>4, <3>2, <4>1, LedgerOnCompare
    <3> QED
      BY <1>1, <2>2, <3>1, <3>2 DEF LedgerInv
  <2>5. CASE CountLocally(c) /\ UNCHANGED count
    <3>1. PICK x : Compare(c, x, WorkerOf[c])
      BY <2>5 DEF CountLocally
    <3>2. BumpLocal(c, 1)
      BY <2>5 DEF CountLocally
    <3>3. OnTime' /\ BucketFirst'
      BY <1>3, <1>6, <2>1, <3>1
    <3>4. ASSUME FirstDate PROVE LocalsOfDate' /\ EverySendCounted'
      BY <1>1, <1>3, <2>1, <2>5, <3>1, <3>2, <3>4, LedgerOnCompare
    <3> QED
      BY <1>1, <2>2, <3>3, <3>4 DEF LedgerInv
  <2> QED
    BY <1>7, <2>3, <2>4, <2>5 DEF Increment
<1>8. ASSUME NEW c \in Calls, Expire(c) PROVE LedgerInv'
  <2>1. call[c].pc = "expire" /\ UNCHANGED <<clock, crashes, count>>
    BY <1>8 DEF Expire
  <2>2. FirstDate' => FirstDate
    BY <2>1 DEF FirstDate
  <2>3. CASE Compare(c, 1, Redis) /\ UNCHANGED <<local, localDay>>
    <3>1. OnTime' /\ BucketFirst'
      BY <1>3, <1>6, <2>1, <2>3
    <3>2. ASSUME FirstDate PROVE LocalsOfDate' /\ EverySendCounted'
      BY <1>1, <1>3, <2>1, <2>3, <3>2, LedgerOnCompare
    <3> QED
      BY <1>1, <2>2, <3>1, <3>2 DEF LedgerInv
  <2>4. CASE CountLocally(c)
    <3>1. PICK x : Compare(c, x, WorkerOf[c])
      BY <2>4 DEF CountLocally
    <3>2. BumpLocal(c, 1)
      BY <2>4 DEF CountLocally
    <3>3. OnTime' /\ BucketFirst'
      BY <1>3, <1>6, <2>1, <3>1
    <3>4. ASSUME FirstDate PROVE LocalsOfDate' /\ EverySendCounted'
      BY <1>1, <1>3, <2>1, <3>1, <3>2, <3>4, LedgerOnCompare
    <3> QED
      BY <1>1, <2>2, <3>3, <3>4 DEF LedgerInv
  <2> QED
    BY <1>8, <2>3, <2>4 DEF Expire
<1>9. ASSUME NEW c \in Calls, Decrement(c) PROVE LedgerInv'
  <2>1. /\ call[c].pc = "undo" /\ UNCHANGED <<clock, crashes, granted>>
        /\ call' = [call EXCEPT ![c] = Rollback(c)]
    BY <1>9 DEF Decrement
  <2>2. /\ call[c] \in CallRecord /\ call[c].isp \in Isps
        /\ call'[c] = Rollback(c) /\ \A b \in Calls \ {c} : call'[b] = call[b]
    BY <1>2, <2>1 DEF LedgerInv, BucketFirst
  <2>3. \/ call'[c] = Idle
        \/ /\ call'[c].now = call[c].now /\ call'[c].isp = call[c].isp
           /\ call'[c].key = call[c].isp
    BY <2>2 DEF Rollback, CallRecord
  <2>4. OnTime' /\ BucketFirst'
    BY <1>1, <2>1, <2>2, <2>3, StaysOnTime
  <2>5. FirstDate' => FirstDate
    BY <2>1 DEF FirstDate
  <2>6. ASSUME FirstDate PROVE LocalsOfDate' /\ EverySendCounted'
    <3>1. DateOf(call[c].now) = 0
      BY <2>6, DatedCall
    <3>2. \/ /\ count' = [count EXCEPT ![0][call[c].key] = @ - 1]
             /\ UNCHANGED <<local, localDay>>
          \/ BumpLocal(c, -1) /\ UNCHANGED count
      BY <1>9, <3>1 DEF Decrement
    <3> QED
      BY <1>1, <2>1, <2>6, <3>2, LedgerOnRollback
  <2> QED
    BY <1>1, <2>4, <2>5, <2>6 DEF LedgerInv
<1>10. CASE \/ Tick
            \/ UNCHANGED vars
  <2>1. /\ UNCHANGED <<count, local, localDay, call, granted, crashes>>
        /\ clock' \in Time /\ clock <= clock'
    <3>1. clock' \in Time
      BY <1>1 DEF TypeInv, TypeOK
    <3> QED
      BY <1>2, <1>10, <3>1 DEF Tick, vars, Time
  <2>2. FirstDate' => FirstDate
    <3>1. \A t, u \in Time : t <= u /\ DateOf(u) = 0 => DateOf(t) = 0
      BY DateAssumption, SMT DEF DateOf, Time
    <3> QED
      BY <1>2, <2>1, <3>1 DEF FirstDate
  <2>3. OnTime'
    BY <1>2, <2>1 DEF OnTime, LedgerInv, CallRecord, Time
  <2>4. BucketFirst' /\ (FirstDate => LocalsOfDate')
    BY <2>1 DEF LedgerInv, BucketFirst, LocalsOfDate
  <2>5. ASSUME NEW k \in Keys
        PROVE  /\ CountedLocally(k)' = CountedLocally(k) /\ Sent(0, k)' = Sent(0, k)
               /\ Holders(0, k)' = Holders(0, k)
    BY <2>1 DEF CountedLocally, Sent, Holders
  <2>6. FirstDate => EverySendCounted'
    BY <2>1, <2>5 DEF LedgerInv, EverySendCounted, FirstDate
  <2> QED
    BY <1>1, <2>2, <2>3, <2>4, <2>6 DEF LedgerInv
<1>11. ASSUME NEW w \in Workers, Crash(w) PROVE LedgerInv'
  <2>1. /\ ~FirstDate' /\ UNCHANGED clock
        /\ call' = [b \in Calls |-> IF WorkerOf[b] = w THEN Idle ELSE call[b]]
    BY <1>2, <1>11 DEF Crash, FirstDate
  <2>2. OnTime'
    BY <1>2, <2>1 DEF OnTime, LedgerInv, Idle, Time
  <2>3. BucketFirst'
    BY <2>1 DEF BucketFirst, LedgerInv, Idle
  <2> QED
    BY <1>1, <2>1, <2>2, <2>3 DEF LedgerInv
<1> QED
  BY <1>4, <1>5, <1>7, <1>8, <1>9, <1>10, <1>11 DEF Next, Step

\* However Redis rejects commands, and whatever the interleaving of the calls, no send
\* goes uncounted before a crash or the first midnight.
THEOREM SendsAreCounted == Spec => []EverySendCounted
<1>1. Spec => []LedgerInv
  BY LedgerInit, LedgerStep, PTL DEF Spec
<1>2. LedgerInv => EverySendCounted
  BY DEF LedgerInv, EverySendCounted, FirstDate
<1> QED
  BY <1>1, <1>2, PTL

-----------------------------------------------------------------------------
(* the total refuses only late calls *)

\* A call the total refused holds its bucket until it has rolled the total back.
Stuck(r, d, i) == DateOf(r.now) = d /\ r.isp = i /\ r.key = Total /\ r.pc = "undo"

\* The calls that the bucket i of date d has let through, and that have not given it back.
Staged(d, i) == {c \in Calls : Through(call[c], d, i) \/ Stuck(call[c], d, i)}

SentBy(d) == [i \in Isps |-> granted[Redis][d][i]]

\* What is let through in total is the sum of what the buckets let through.
SentAdds == \A d \in Dates : SumFunctionOnSet(SentBy(d), Isps) = granted[Redis][d][Total]

\* A call that has come to the total found a bucket that allows at least one send.
BucketOpen ==
  \A c \in Calls :
    call[c].pc # "idle" /\ call[c].key = Total => Cap[call[c].day][call[c].isp] >= 1

\* A bucket stays within the ramp, those the total has refused since included.
StagedWithin ==
  \A d \in Dates, i \in Isps :
    granted[Redis][d][i] + Cardinality(Staged(d, i)) <= CapOn(d, i, Start)

\* What fills a total: the sends let through, and the calls it is about to let through.
Filled(d) == granted[Redis][d][Total] + Cardinality(Passed(d, Total))

\* A call the total refused met it full, and full it stays.
TotalIsFull ==
  crashes = 0 =>
    \A c \in Calls : call[c].pc = "undo" /\ call[c].key = Total =>
                       Filled(DateOf(call[c].now)) >= Cap[call[c].day][Total]

SplitInv == SentAdds /\ BucketOpen /\ StagedWithin /\ TotalIsFull

\* The cap of a day's total is the sum of its buckets' caps.
LEMMA TotalCap ==
  ASSUME NEW e \in Days
  PROVE  /\ [i \in Isps |-> Cap[e][i]] \in [Isps -> Nat]
         /\ SumFunctionOnSet([i \in Isps |-> Cap[e][i]], Isps) = Cap[e][Total]
         /\ \A i \in Isps : Cap[e][i] <= Cap[e][Total]
<1> DEFINE f == [i \in Isps |-> Cap[e][i]]
<1>1. f \in [Isps -> Nat]
  BY CapAssumption DEF Keys
<1>2. SumFunctionOnSet(f, Isps) = Cap[e][Total]
  BY TotalIsSum DEF SumFunction
<1>3. ASSUME NEW i \in Isps PROVE Cap[e][i] <= Cap[e][Total]
  <2>1. f[i] = Cap[e][i]
    OBVIOUS
  <2> HIDE DEF f
  <2> QED
    BY <1>1, <1>2, <2>1, IspAssumption, SumHasTerm
<1> QED
  BY <1>1, <1>2, <1>3

LEMMA StagedFinite ==
  ASSUME NEW d, NEW i \in Isps
  PROVE  /\ Staged(d, i) \subseteq Holders(d, i)
         /\ IsFiniteSet(Staged(d, i)) /\ Cardinality(Staged(d, i)) \in Nat
         /\ Cardinality(Staged(d, i)) <= Cardinality(Holders(d, i))
<1>1. Staged(d, i) \subseteq Holders(d, i)
  BY DEF Staged, Holders, Through, Stuck, Holds
<1> QED
  BY <1>1, HoldersFinite, FS_Subset, FS_CardinalityType

\* The calls at the total, told apart by their bucket, with the sends of the buckets, add
\* up to the sends and the calls of the total.
LEMMA BucketsAddUp ==
  ASSUME TypeOK, SentAdds, NEW d \in Dates, NEW A \in SUBSET Calls,
         \A c \in A : call[c].isp \in Isps, NEW top \in [Isps -> Int],
         \A i \in Isps :
           granted[Redis][d][i] + Cardinality({c \in A : call[c].isp = i}) <= top[i]
  PROVE  granted[Redis][d][Total] + Cardinality(A) <= SumFunctionOnSet(top, Isps)
<1> DEFINE label == [c \in A |-> call[c].isp]
           size  == [i \in Isps |-> Cardinality({c \in A : call[c].isp = i})]
           both  == [i \in Isps |-> granted[Redis][d][i] + size[i]]
<1>1. IsFiniteSet(Isps) /\ IsFiniteSet(A)
  BY IspAssumption, CallAssumption, FS_Subset
<1>2. SentBy(d) \in [Isps -> Int]
  BY DEF TypeOK, SentBy, Stores, Keys
<1>3. size \in [Isps -> Int]
  <2>1. ASSUME NEW i \in Isps PROVE Cardinality({c \in A : call[c].isp = i}) \in Nat
    <3>1. {c \in A : call[c].isp = i} \subseteq A
      OBVIOUS
    <3> QED
      BY <1>1, <3>1, FS_Subset, FS_CardinalityType
  <2> QED
    BY <2>1
<1>4. SumFunctionOnSet(size, Isps) = Cardinality(A)
  <2>1. label \in [A -> Isps]
    OBVIOUS
  <2>2. SumFunctionOnSet([i \in Isps |-> Cardinality({c \in A : label[c] = i})], Isps) = Cardinality(A)
    <3> HIDE DEF label
    <3> QED
      BY <1>1, <2>1, PartsAddUp
  <2>3. \A i : {c \in A : label[c] = i} = {c \in A : call[c].isp = i}
    OBVIOUS
  <2>4. [i \in Isps |-> Cardinality({c \in A : label[c] = i})] = size
    <3> HIDE DEF label
    <3> QED
      BY <2>3
  <2> QED
    BY <2>2, <2>4
<1>5. both \in [Isps -> Int] /\ \A i \in Isps : both[i] = SentBy(d)[i] + size[i]
  <2>1. \A i \in Isps : SentBy(d)[i] = granted[Redis][d][i]
    BY DEF SentBy
  <2> HIDE DEF size
  <2> QED
    BY <1>2, <1>3, <2>1
<1>6. SumFunctionOnSet(both, Isps) = granted[Redis][d][Total] + Cardinality(A)
  <2> HIDE DEF both, size
  <2>1. SumFunctionOnSet(both, Isps) = SumFunctionOnSet(SentBy(d), Isps) + SumFunctionOnSet(size, Isps)
    BY <1>1, <1>2, <1>3, <1>5, SumAdds
  <2> QED
    BY <1>4, <2>1 DEF SentAdds
<1>7. \A i \in Isps : both[i] <= top[i]
  OBVIOUS
<1>8. SumFunctionOnSet(both, Isps) <= SumFunctionOnSet(top, Isps)
  <2> HIDE DEF both
  <2> QED
    BY <1>1, <1>5, <1>7, SumGrows
<1> QED
  BY <1>6, <1>8

\* Moments of one date: the first half day is no later than any, the second no earlier.
LEMMA HalfDays ==
  ASSUME NEW t \in Time, NEW u \in Time, DateOf(t) = DateOf(u)
  PROVE  t = 2 * DateOf(u) + 1 \/ t <= u
  BY DateAssumption, SMT DEF DateOf, Time

\* A call the total refuses met it full, and some bucket let through more than the call's
\* own day allows there.
LEMMA RefusedByTotal ==
  ASSUME QuotaInv, SplitInv, crashes = 0, NEW c \in Calls, call[c].pc = "incr",
         call[c].key = Total,
         count[DateOf(call[c].now)][Total] + 1 > Cap[call[c].day][Total]
  PROVE  /\ Filled(DateOf(call[c].now)) >= Cap[call[c].day][Total]
         /\ \E i \in Isps : granted[Redis][DateOf(call[c].now)][i]
                              + Cardinality(Passed(DateOf(call[c].now), i)) > Cap[call[c].day][i]
<1> DEFINE d == DateOf(call[c].now)
           e == call[c].day
           n == granted[Redis][d][Total]
           At(p) == {b \in Calls : DateOf(call[b].now) = d /\ call[b].key = Total /\ call[b].pc \in p}
<1>1. /\ call \in [Calls -> CallRecord] /\ d \in Dates /\ e \in Days /\ Total \in Keys
      /\ call[c].now \in Time /\ TypeOK /\ SentAdds
      /\ Start \in Time /\ \A b \in Calls : call[b].pc \in {"incr", "expire", "undo"} =>
            call[b].isp \in Isps /\ call[b].day = DayOf(call[b].now, Start)
  <2>1. /\ call \in [Calls -> CallRecord] /\ d \in Dates /\ TypeOK /\ SentAdds
    BY SaneCall DEF QuotaInv, TypeInv, TypeOK, CallRecord, SplitInv
  <2>2. Start # Unset /\ Start \in Time \cup {Unset}
    BY StartType DEF QuotaInv, TypeInv, CallsAreSane
  <2> QED
    BY <2>1, <2>2 DEF CallRecord, Keys, QuotaInv, CallsAreSane
<1>2. n \in Nat /\ count[d][Total] \in Int /\ Cap[e][Total] \in Nat
      /\ count[d][Total] = n + Cardinality(Holders(d, Total))
      /\ count[d][Total] + 1 > Cap[e][Total]
  <2>1. n \in Nat /\ count[d][Total] \in Int
    BY <1>1 DEF TypeOK, Stores
  <2>2. count[d][Total] = n + Cardinality(Holders(d, Total))
    BY <1>1 DEF QuotaInv, Balanced
  <2> QED
    BY <1>1, <2>1, <2>2, CapAssumption
<1>3. ASSUME NEW p
      PROVE  At(p) \in SUBSET Calls /\ IsFiniteSet(At(p)) /\ Cardinality(At(p)) \in Nat
  BY CallAssumption, FS_Subset, FS_CardinalityType
<1>4. \A i \in Isps : i # Total
  BY IspAssumption
<1> DEFINE E == n + Cardinality(Passed(d, Total))
<1>5. Cardinality(Passed(d, Total)) \in Nat /\ E \in Nat
  BY <1>2, HoldersFinite
<1>6. call[c].now # 2 * d + 1
  <2> SUFFICES ASSUME call[c].now = 2 * d + 1 PROVE FALSE
    OBVIOUS
  <2> DEFINE A == At({"incr", "expire", "undo"})
             top == [i \in Isps |-> Cap[e][i]]
  <2>1. Cardinality(A) >= Cardinality(Holders(d, Total)) + 1
    <3>1. Holders(d, Total) \subseteq A /\ c \in A /\ c \notin Holders(d, Total)
      BY <1>1, <1>4 DEF Holders, Holds
    <3>2. Holders(d, Total) \cup {c} \subseteq A /\ IsFiniteSet(Holders(d, Total))
      BY <3>1, HoldersFinite
    <3>3. Cardinality(Holders(d, Total) \cup {c}) = Cardinality(Holders(d, Total)) + 1
      BY <3>1, <3>2, FS_AddElement
    <3>4. Cardinality(Holders(d, Total) \cup {c}) <= Cardinality(A)
      <4> HIDE DEF A
      <4>1. IsFiniteSet(A)
        BY <1>3 DEF A
      <4> QED
        BY <3>2, <4>1, FS_Subset
    <3>5. Cardinality(A) \in Nat /\ Cardinality(Holders(d, Total)) \in Nat
      BY <1>3, HoldersFinite
    <3> QED
      BY <3>3, <3>4, <3>5
  <2>2. ASSUME NEW i \in Isps
        PROVE  granted[Redis][d][i] + Cardinality({b \in A : call[b].isp = i}) <= top[i]
    <3>1. {b \in A : call[b].isp = i} \subseteq Staged(d, i)
      BY <1>4 DEF Staged, Through, Stuck, Holds
    <3>2. Cardinality({b \in A : call[b].isp = i}) <= Cardinality(Staged(d, i))
      BY <3>1, StagedFinite, FS_Subset
    <3>3. granted[Redis][d][i] + Cardinality(Staged(d, i)) <= CapOn(d, i, Start)
      BY <1>1 DEF SplitInv, StagedWithin
    <3>4. CapOn(d, i, Start) = Cap[e][i] /\ Cap[e][i] \in Nat
      <4>1. Start # Unset
        BY <1>1 DEF Unset, Time
      <4>2. e = DayOf(2 * d + 1, Start)
        BY <1>1
      <4> QED
        BY <1>1, <4>1, <4>2, CapAssumption DEF CapOn, Keys
    <3>5. granted[Redis][d][i] \in Nat
      BY <1>1 DEF TypeOK, Stores, Keys
    <3>6. Cardinality({b \in A : call[b].isp = i}) \in Nat /\ Cardinality(Staged(d, i)) \in Nat
      BY <3>1, StagedFinite, FS_Subset, FS_CardinalityType
    <3>7. top[i] = Cap[e][i]
      OBVIOUS
    <3> HIDE DEF A, top, d, e
    <3> QED
      BY <3>2, <3>3, <3>4, <3>5, <3>6, <3>7
  <2>3. n + Cardinality(A) <= SumFunctionOnSet(top, Isps)
    <3>1. top \in [Isps -> Int]
      <4>1. top \in [Isps -> Nat]
        BY <1>1, TotalCap
      <4> HIDE DEF top
      <4> QED
        BY <4>1
    <3>2. A \in SUBSET Calls /\ \A b \in A : call[b].isp \in Isps
      BY <1>1
    <3> HIDE DEF A, top, d
    <3> QED
      BY <1>1, <2>2, <3>1, <3>2, BucketsAddUp
  <2>4. SumFunctionOnSet(top, Isps) = Cap[e][Total]
    BY <1>1, TotalCap
  <2>5. Cardinality(A) \in Nat /\ Cardinality(Holders(d, Total)) \in Nat
    BY <1>3, HoldersFinite
  <2> HIDE DEF A, top, d, e, n
  <2> QED
    BY <1>2, <2>1, <2>3, <2>4, <2>5
<1>7. E >= Cap[e][Total]
  <2>1. CASE \E b \in Calls : call[b].pc = "undo" /\ call[b].key = Total /\ DateOf(call[b].now) = d
    <3>1. PICK b \in Calls : call[b].pc = "undo" /\ call[b].key = Total /\ DateOf(call[b].now) = d
      BY <2>1
    <3>2. E >= Cap[call[b].day][Total]
      BY <3>1 DEF SplitInv, TotalIsFull, Filled
    <3>3. call[b].now \in Time /\ call[b].day \in Days /\ call[b].day = DayOf(call[b].now, Start)
      BY <1>1, <3>1 DEF CallRecord
    <3>4. call[c].now <= call[b].now
      BY <1>1, <1>6, <3>1, <3>3, HalfDays
    <3>5. e = DayOf(call[c].now, Start)
      BY <1>1
    <3>6. e <= call[b].day
      BY <1>1, <3>3, <3>4, <3>5, DayOfGrows
    <3>7. Cap[e][Total] <= Cap[call[b].day][Total] /\ Cap[call[b].day][Total] \in Nat
      BY <1>1, <3>3, <3>6, CapGrows, CapAssumption
    <3> HIDE DEF E, e
    <3> QED
      BY <1>2, <1>5, <3>2, <3>7
  <2>2. CASE ~ \E b \in Calls : call[b].pc = "undo" /\ call[b].key = Total /\ DateOf(call[b].now) = d
    <3>1. ASSUME NEW b \in Holders(d, Total) PROVE b \in Passed(d, Total)
      <4>1. b \in Calls /\ call[b].key = Total /\ call[b].pc = "expire" /\ DateOf(call[b].now) = d
        BY <1>1, <1>4, <2>2 DEF Holders, Holds
      <4>2. call[b].isp \in Isps /\ call[b].day \in Days
        BY <1>1, <4>1 DEF CallRecord
      <4>3. Cap[call[b].day][call[b].isp] >= 1
        BY <4>1 DEF SplitInv, BucketOpen
      <4>4. /\ Cap[call[b].day][call[b].isp] <= Cap[call[b].day][Total]
            /\ Cap[call[b].day][call[b].isp] \in Nat /\ Cap[call[b].day][Total] \in Nat
        BY <1>1, <4>2, TotalCap, CapAssumption DEF Keys
      <4>5. Cap[call[b].day][Total] >= 1
        BY <4>3, <4>4
      <4> QED
        BY <4>1, <4>5 DEF Passed, Through, Holders
    <3>2. Passed(d, Total) = Holders(d, Total)
      BY <3>1 DEF Passed, Holders, Through
    <3> HIDE DEF d, e, n
    <3> QED
      BY <1>2, <1>5, <3>2
  <2> QED
    BY <2>1, <2>2
<1>8. \E i \in Isps : granted[Redis][d][i] + Cardinality(Passed(d, i)) > Cap[e][i]
  <2> SUFFICES ASSUME \A i \in Isps : ~(granted[Redis][d][i] + Cardinality(Passed(d, i)) > Cap[e][i])
               PROVE  FALSE
    OBVIOUS
  <2> DEFINE A == At({"incr", "expire"})
             top == [i \in Isps |-> Cap[e][i]]
  <2>1. Cardinality(A) >= Cardinality(Passed(d, Total)) + 1
    <3>1. Passed(d, Total) \subseteq A /\ c \in A /\ c \notin Passed(d, Total)
      BY <1>1, <1>4 DEF Passed, Through, Holds
    <3>2. Passed(d, Total) \cup {c} \subseteq A /\ IsFiniteSet(Passed(d, Total))
      BY <3>1, HoldersFinite
    <3>3. Cardinality(Passed(d, Total) \cup {c}) = Cardinality(Passed(d, Total)) + 1
      BY <3>1, <3>2, FS_AddElement
    <3>4. Cardinality(Passed(d, Total) \cup {c}) <= Cardinality(A)
      <4> HIDE DEF A
      <4>1. IsFiniteSet(A)
        BY <1>3 DEF A
      <4> QED
        BY <3>2, <4>1, FS_Subset
    <3>5. Cardinality(A) \in Nat
      BY <1>3
    <3> HIDE DEF A
    <3> QED
      BY <1>5, <3>3, <3>4, <3>5
  <2>2. ASSUME NEW i \in Isps
        PROVE  granted[Redis][d][i] + Cardinality({b \in A : call[b].isp = i}) <= top[i]
    <3>1. {b \in A : call[b].isp = i} \subseteq Passed(d, i)
      BY <1>4 DEF Passed, Through, Holds
    <3>2. Cardinality({b \in A : call[b].isp = i}) <= Cardinality(Passed(d, i))
      BY <3>1, HoldersFinite, FS_Subset
    <3>3. granted[Redis][d][i] \in Nat /\ Cap[e][i] \in Nat
      BY <1>1, CapAssumption DEF TypeOK, Stores, Keys
    <3>4. Cardinality({b \in A : call[b].isp = i}) \in Nat /\ Cardinality(Passed(d, i)) \in Nat
      BY <3>1, HoldersFinite, FS_Subset, FS_CardinalityType
    <3>5. top[i] = Cap[e][i] /\ ~(granted[Redis][d][i] + Cardinality(Passed(d, i)) > Cap[e][i])
      OBVIOUS
    <3> HIDE DEF A, top, d, e
    <3> QED
      BY <3>2, <3>3, <3>4, <3>5
  <2>3. n + Cardinality(A) <= SumFunctionOnSet(top, Isps)
    <3>1. top \in [Isps -> Int]
      <4>1. top \in [Isps -> Nat]
        BY <1>1, TotalCap
      <4> HIDE DEF top
      <4> QED
        BY <4>1
    <3>2. A \in SUBSET Calls /\ \A b \in A : call[b].isp \in Isps
      BY <1>1
    <3> HIDE DEF A, top, d
    <3> QED
      BY <1>1, <2>2, <3>1, <3>2, BucketsAddUp
  <2>4. SumFunctionOnSet(top, Isps) = Cap[e][Total]
    BY <1>1, TotalCap
  <2>5. Cardinality(A) \in Nat
    BY <1>3
  <2> HIDE DEF A, top, d, e, n
  <2> QED
    BY <1>2, <1>5, <1>7, <2>1, <2>3, <2>4, <2>5 DEF E
<1> QED
  BY <1>7, <1>8 DEF Filled

\* A counter that fits under the cap of a call leaves room for it in the ramp, next to
\* every call that holds the key.
LEMMA RoomForHolder ==
  ASSUME QuotaInv, NEW c \in Calls, call[c].pc = "incr",
         count[DateOf(call[c].now)][call[c].key] + 1 <= Cap[call[c].day][call[c].key]
  PROVE  granted[Redis][DateOf(call[c].now)][call[c].key]
           + Cardinality(Holders(DateOf(call[c].now), call[c].key)) + 1
             <= CapOn(DateOf(call[c].now), call[c].key, Start)
<1> DEFINE d == DateOf(call[c].now)
           k == call[c].key
<1>1. call[c].now \in Time /\ d \in Dates /\ k \in Keys
  BY SaneCall DEF CallRecord
<1>2. Start \in Time /\ call[c].day = DayOf(call[c].now, Start)
  BY StartType DEF QuotaInv, TypeInv, CallsAreSane
<1>3. /\ Cap[call[c].day][k] \in Nat /\ CapOn(d, k, Start) \in Nat
      /\ Cap[call[c].day][k] <= CapOn(d, k, Start)
  BY <1>1, <1>2, CapWithinDate
<1>4. count[d][k] \in Int /\ granted[Redis][d][k] \in Nat
  BY <1>1 DEF QuotaInv, TypeInv, TypeOK, Stores
<1>5. count[d][k] >= granted[Redis][d][k] + Cardinality(Holders(d, k))
  BY <1>1 DEF QuotaInv, Counted
<1>6. Cardinality(Holders(d, k)) \in Nat
  BY HoldersFinite
<1>7. count[d][k] + 1 <= Cap[call[c].day][k]
  OBVIOUS
<1> HIDE DEF d, k
<1>8. granted[Redis][d][k] + Cardinality(Holders(d, k)) + 1 <= CapOn(d, k, Start)
  BY <1>3, <1>4, <1>5, <1>6, <1>7
<1> QED
  BY <1>8 DEF d, k

\* How a call moves while every command is answered: towards its first increment, ...
Approaches(c) ==
  /\ call[c].pc \in {"idle", "setnx", "get"}
  /\ call'[c].pc \in {"setnx", "get", "incr"}
  /\ call'[c].key = call'[c].isp /\ call'[c].isp \in Isps
  /\ UNCHANGED granted

\* ... past the first increment of a key, ...
Begins(c) ==
  /\ call[c].pc = "incr" /\ count[DateOf(call[c].now)][call[c].key] + 1 = 1
  /\ call' = [call EXCEPT ![c].pc = "expire"]
  /\ UNCHANGED <<granted, redisStart>>

\* ... past a comparison, ...
Compares(c) ==
  \E v \in Int :
    /\ Compare(c, v, Redis)
    /\ \/ call[c].pc = "incr" /\ v = count[DateOf(call[c].now)][call[c].key] + 1
       \/ call[c].pc = "expire" /\ v = 1
    /\ UNCHANGED redisStart

\* ... or back.
Returns(c) ==
  /\ call[c].pc = "undo" /\ call' = [call EXCEPT ![c] = Rollback(c)]
  /\ UNCHANGED <<granted, redisStart>>

LEMMA StepShape ==
  ASSUME MaxFaults = 0, QuotaInv, NEW c \in Calls, Step(c)
  PROVE  /\ \A b \in Calls \ {c} : call'[b] = call[b]
         /\ UNCHANGED crashes
         /\ Start # Unset => Start' = Start
         /\ Approaches(c) \/ Begins(c) \/ Compares(c) \/ Returns(c)
<1> DEFINE Shape == /\ \A b \in Calls \ {c} : call'[b] = call[b]
                    /\ UNCHANGED crashes
                    /\ Start # Unset => Start' = Start
                    /\ Approaches(c) \/ Begins(c) \/ Compares(c) \/ Returns(c)
<1>1. ~Fault
  BY NoFault DEF QuotaInv, TypeInv
<1>2. call \in [Calls -> CallRecord] /\ TypeOK
  BY DEF QuotaInv, TypeInv, TypeOK, CallRecord
<1>3. call[c] \in CallRecord /\ (call[c].pc # "idle" => call[c].isp \in Isps)
      /\ (call[c].pc \in {"setnx", "get"} => call[c].key = call[c].isp)
  BY SaneCall
<1>4. CASE Reserve(c)
  <2> DEFINE known == IF Configured # Unset THEN Configured ELSE startedAt[WorkerOf[c]]
  <2>1. PICK i \in Isps :
          call' = [call EXCEPT ![c] =
                     [Idle EXCEPT !.now = clock, !.isp = i, !.key = i,
                        !.pc  = IF known = Unset THEN "setnx" ELSE "incr",
                        !.day = IF known = Unset THEN 1 ELSE DayOf(clock, known)]]
    BY <1>4, ZenonT(30) DEF Reserve
  <2>2. /\ call'[c].isp = i /\ call'[c].key = i
        /\ call'[c].pc = IF known = Unset THEN "setnx" ELSE "incr"
        /\ \A b \in Calls \ {c} : call'[b] = call[b]
    BY <1>2, <2>1 DEF Idle
  <2>3. call[c].pc = "idle" /\ UNCHANGED <<granted, redisStart, crashes>>
    BY <1>4 DEF Reserve
  <2> QED
    BY <2>2, <2>3 DEF Approaches, Start
<1>5. CASE SetStart(c)
  <2>1. /\ call[c].pc = "setnx" /\ redisStart' = SetNx(c)
        /\ call' = [call EXCEPT ![c].pc = "get"]
        /\ UNCHANGED <<granted, crashes>>
    BY <1>1, <1>5 DEF SetStart
  <2>2. /\ call'[c] = [call[c] EXCEPT !.pc = "get"]
        /\ \A b \in Calls \ {c} : call'[b] = call[b]
    BY <1>2, <2>1
  <2>3. call'[c].pc = "get" /\ call'[c].key = call'[c].isp /\ call'[c].isp \in Isps
    BY <1>3, <2>1, <2>2 DEF CallRecord
  <2>4. Start # Unset => Start' = Start
    BY <2>1 DEF SetNx, Start
  <2> QED
    BY <2>1, <2>2, <2>3, <2>4 DEF Approaches
<1>6. CASE GetStart(c)
  <2>1. /\ call[c].pc = "get" /\ Resolve(c, redisStart)
        /\ UNCHANGED <<granted, redisStart, crashes>>
    BY <1>1, <1>6 DEF GetStart, ReadBack
  <2>2. /\ call'[c] = [call[c] EXCEPT !.pc = "incr", !.day = DayOf(call[c].now, redisStart)]
        /\ \A b \in Calls \ {c} : call'[b] = call[b]
    BY <1>2, <2>1 DEF Resolve
  <2>3. call'[c].pc = "incr" /\ call'[c].key = call'[c].isp /\ call'[c].isp \in Isps
    BY <1>3, <2>1, <2>2 DEF CallRecord
  <2> QED
    BY <2>1, <2>2, <2>3 DEF Approaches, Start
<1>7. CASE Increment(c)
  <2> DEFINE v == count[DateOf(call[c].now)][call[c].key] + 1
  <2>1. /\ call[c].pc = "incr"
        /\ IF v = 1
           THEN call' = [call EXCEPT ![c].pc = "expire"] /\ UNCHANGED granted
           ELSE Compare(c, v, Redis)
        /\ UNCHANGED <<redisStart, crashes>>
    BY <1>1, <1>7 DEF Increment, CountLocally
  <2>2. v \in Int
    BY SaneCall DEF QuotaInv, TypeInv, TypeOK, CallRecord
  <2>3. CASE v = 1
    <3>1. \A b \in Calls \ {c} : call'[b] = call[b]
      BY <1>2, <2>1, <2>3
    <3> QED
      BY <2>1, <2>3, <3>1 DEF Begins, Start
  <2>4. CASE v # 1
    <3>1. Compare(c, v, Redis)
      BY <2>1, <2>4
    <3>2. \A b \in Calls \ {c} : call'[b] = call[b]
      BY <3>1, CompareType DEF QuotaInv, Stores
    <3>3. Compares(c)
      BY <2>1, <2>2, <3>1 DEF Compares
    <3> QED
      BY <2>1, <3>2, <3>3 DEF Start
  <2> QED
    BY <2>3, <2>4
<1>8. CASE Expire(c)
  <2>1. /\ call[c].pc = "expire" /\ Compare(c, 1, Redis) /\ UNCHANGED <<redisStart, crashes>>
    BY <1>1, <1>8 DEF Expire, CountLocally
  <2>2. \A b \in Calls \ {c} : call'[b] = call[b]
    BY <2>1, CompareType DEF QuotaInv, Stores
  <2>3. Compares(c)
    BY <2>1 DEF Compares
  <2> QED
    BY <2>1, <2>2, <2>3 DEF Start
<1>9. CASE Decrement(c)
  <2>1. Returns(c) /\ UNCHANGED <<redisStart, crashes>>
    BY <1>9 DEF Decrement, Returns
  <2>2. \A b \in Calls \ {c} : call'[b] = call[b]
    BY <1>2, <2>1 DEF Returns
  <2> QED
    BY <2>1, <2>2 DEF Start
<1> QED
  BY <1>4, <1>5, <1>6, <1>7, <1>8, <1>9 DEF Step

StagedAt(r, d, i) == Through(r, d, i) \/ Stuck(r, d, i)

\* The calls a bucket has let through once one call has moved.
LEMMA StagedMoves ==
  ASSUME NEW c \in Calls, \A b \in Calls \ {c} : call'[b] = call[b], NEW d, NEW i \in Isps
  PROVE  /\ Cardinality(Staged(d, i)') \in Nat
         /\ Cardinality(Staged(d, i)') =
              Cardinality(Staged(d, i)) + Bit(StagedAt(call'[c], d, i)) - Bit(StagedAt(call[c], d, i))
<1>1. \A b : b # c => (b \in Staged(d, i) <=> b \in Staged(d, i)')
  BY DEF Staged
<1>2. /\ c \in Staged(d, i)  <=> StagedAt(call[c], d, i)
      /\ c \in Staged(d, i)' <=> StagedAt(call'[c], d, i)
  BY DEF Staged, StagedAt
<1>3. /\ Bit(c \in Staged(d, i)) = Bit(StagedAt(call[c], d, i))
      /\ Bit(c \in Staged(d, i)') = Bit(StagedAt(call'[c], d, i))
  BY <1>2 DEF Bit
<1>4. IsFiniteSet(Staged(d, i))
  BY StagedFinite
<1>5. /\ Cardinality(Staged(d, i)') \in Nat
      /\ Cardinality(Staged(d, i)') =
           Cardinality(Staged(d, i)) + Bit(c \in Staged(d, i)') - Bit(c \in Staged(d, i))
  BY <1>1, <1>4, OneMoves
<1> QED
  BY <1>3, <1>5

\* A step of call c keeps the split when every bucket moves by at most what it has room
\* for, the total by as much as its buckets, and a call the total refuses found it full.
LEMMA StepKeepsSplit ==
  ASSUME QuotaInv, SplitInv, TypeOK', NEW c \in Calls, \A b \in Calls \ {c} : call'[b] = call[b],
         UNCHANGED crashes, Start # Unset => Start' = Start,
         SentAdds',
         \A d \in Dates, i \in Isps :
           \/ /\ granted'[Redis][d][i] = granted[Redis][d][i]
              /\ StagedAt(call'[c], d, i) => StagedAt(call[c], d, i)
           \/ /\ granted'[Redis][d][i] = granted[Redis][d][i] + 1
              /\ StagedAt(call[c], d, i) /\ ~StagedAt(call'[c], d, i)
           \/ /\ granted'[Redis][d][i] = granted[Redis][d][i]
              /\ granted[Redis][d][i] + Cardinality(Holders(d, i)) + 1 <= CapOn(d, i, Start),
         call'[c].pc # "idle" /\ call'[c].key = Total => Cap[call'[c].day][call'[c].isp] >= 1,
         \A d \in Dates :
           granted'[Redis][d][Total] + Bit(Through(call'[c], d, Total))
             >= granted[Redis][d][Total] + Bit(Through(call[c], d, Total)),
         crashes = 0 /\ call'[c].pc = "undo" /\ call'[c].key = Total =>
           Filled(DateOf(call'[c].now)) >= Cap[call'[c].day][Total]
  PROVE  SplitInv'
<1>1. ASSUME NEW d \in Dates, NEW i \in Isps
      PROVE  granted'[Redis][d][i] + Cardinality(Staged(d, i)') <= CapOn(d, i, Start')
  <2>1. granted[Redis][d][i] \in Nat /\ granted'[Redis][d][i] \in Nat
    BY DEF QuotaInv, TypeInv, TypeOK, Stores, Keys
  <2>2. CapOn(d, i, Start) \in Nat /\ CapOn(d, i, Start') \in Nat
    <3>1. i \in Keys /\ Start' \in Time \cup {Unset} /\ Start \in Time \cup {Unset}
      BY StartType, StartAssumption DEF Start, TypeOK, Keys, QuotaInv, TypeInv
    <3> QED
      BY <3>1, CapOnType
  <2>3. CapOn(d, i, Start) <= CapOn(d, i, Start')
    BY <2>2, SMT DEF CapOn
  <2>4. granted[Redis][d][i] + Cardinality(Staged(d, i)) <= CapOn(d, i, Start)
    BY DEF SplitInv, StagedWithin
  <2>5. /\ Cardinality(Staged(d, i)) \in Nat /\ Cardinality(Holders(d, i)) \in Nat
        /\ Cardinality(Staged(d, i)) <= Cardinality(Holders(d, i))
    BY StagedFinite, HoldersFinite
  <2>6. /\ Cardinality(Staged(d, i)') \in Nat
        /\ Cardinality(Staged(d, i)') =
             Cardinality(Staged(d, i)) + Bit(StagedAt(call'[c], d, i)) - Bit(StagedAt(call[c], d, i))
    BY StagedMoves
  <2>7. CASE /\ granted'[Redis][d][i] = granted[Redis][d][i]
             /\ StagedAt(call'[c], d, i) => StagedAt(call[c], d, i)
    <3>1. /\ Bit(StagedAt(call'[c], d, i)) <= Bit(StagedAt(call[c], d, i))
          /\ Bit(StagedAt(call'[c], d, i)) \in Nat /\ Bit(StagedAt(call[c], d, i)) \in Nat
      BY <2>7 DEF Bit
    <3> QED
      BY <2>1, <2>2, <2>3, <2>4, <2>5, <2>6, <2>7, <3>1
  <2>8. CASE /\ granted'[Redis][d][i] = granted[Redis][d][i] + 1
             /\ StagedAt(call[c], d, i) /\ ~StagedAt(call'[c], d, i)
    <3>1. Bit(StagedAt(call'[c], d, i)) = 0 /\ Bit(StagedAt(call[c], d, i)) = 1
      BY <2>8 DEF Bit
    <3>2. Cardinality(Staged(d, i)') = Cardinality(Staged(d, i)) - 1
      BY <2>5, <2>6, <3>1
    <3>3. granted'[Redis][d][i] = granted[Redis][d][i] + 1
      BY <2>8
    <3> QED
      BY <2>1, <2>2, <2>3, <2>4, <2>5, <3>2, <3>3
  <2>9. CASE /\ granted'[Redis][d][i] = granted[Redis][d][i]
             /\ granted[Redis][d][i] + Cardinality(Holders(d, i)) + 1 <= CapOn(d, i, Start)
    <3>1. /\ Bit(StagedAt(call'[c], d, i)) <= 1 /\ Bit(StagedAt(call[c], d, i)) >= 0
          /\ Bit(StagedAt(call'[c], d, i)) \in Nat /\ Bit(StagedAt(call[c], d, i)) \in Nat
      BY DEF Bit
    <3> QED
      BY <2>1, <2>2, <2>3, <2>5, <2>6, <2>9, <3>1
  <2> QED
    BY <2>7, <2>8, <2>9
<1>2. StagedWithin'
  BY <1>1 DEF StagedWithin
<1>3. BucketOpen'
  <2>1. ASSUME NEW b \in Calls, call'[b].pc # "idle", call'[b].key = Total
        PROVE  Cap[call'[b].day][call'[b].isp] >= 1
    <3>1. CASE b = c
      BY <2>1, <3>1
    <3>2. CASE b # c
      BY <2>1, <3>2 DEF SplitInv, BucketOpen
    <3> QED
      BY <3>1, <3>2
  <2> QED
    BY <2>1 DEF BucketOpen
<1>4. ASSUME NEW d \in Dates PROVE Filled(d)' >= Filled(d) /\ Filled(d)' \in Nat /\ Filled(d) \in Nat
  <2>1. granted[Redis][d][Total] \in Nat /\ granted'[Redis][d][Total] \in Nat
    BY DEF QuotaInv, TypeInv, TypeOK, Stores, Keys
  <2>2. /\ Cardinality(Passed(d, Total)) \in Nat /\ Cardinality(Passed(d, Total)') \in Nat
        /\ Cardinality(Passed(d, Total)') =
             Cardinality(Passed(d, Total))
               + Bit(Through(call'[c], d, Total)) - Bit(Through(call[c], d, Total))
    BY HoldersFinite, CallMoves
  <2>3. Bit(Through(call'[c], d, Total)) \in Nat /\ Bit(Through(call[c], d, Total)) \in Nat
    BY DEF Bit
  <2>4. granted'[Redis][d][Total] + Bit(Through(call'[c], d, Total))
          >= granted[Redis][d][Total] + Bit(Through(call[c], d, Total))
    OBVIOUS
  <2>5. /\ Filled(d) = granted[Redis][d][Total] + Cardinality(Passed(d, Total))
        /\ Filled(d)' = granted'[Redis][d][Total] + Cardinality(Passed(d, Total)')
    BY DEF Filled
  <2> QED
    BY <2>1, <2>2, <2>3, <2>4, <2>5
<1>5. TotalIsFull'
  <2>1. ASSUME crashes' = 0, NEW b \in Calls, call'[b].pc = "undo", call'[b].key = Total,
               NEW d, d = DateOf(call'[b].now)
        PROVE  granted'[Redis][d][Total] + Cardinality(Passed(d, Total)') >= Cap[call'[b].day][Total]
    <3>1. d \in Dates /\ Cap[call'[b].day][Total] \in Nat
      BY <2>1, DateOfType, CapAssumption DEF TypeOK, Keys
    <3>2. Filled(d) >= Cap[call'[b].day][Total]
      <4>1. CASE b = c
        BY <2>1, <4>1
      <4>2. CASE b # c
        BY <2>1, <4>2 DEF SplitInv, TotalIsFull
      <4> QED
        BY <4>1, <4>2
    <3>3. Filled(d)' >= Filled(d) /\ Filled(d)' \in Nat /\ Filled(d) \in Nat
      BY <1>4, <3>1
    <3>4. Filled(d)' >= Cap[call'[b].day][Total]
      BY <3>1, <3>2, <3>3
    <3> QED
      BY <3>4 DEF Filled
  <2> QED
    BY <2>1 DEF TotalIsFull, Filled, Passed
<1> QED
  BY <1>2, <1>3, <1>5 DEF SplitInv

\* A step that records nothing leaves the sums as they are.
LEMMA SumsStay == ASSUME SentAdds, UNCHANGED granted PROVE SentAdds'
  BY DEF SentAdds, SentBy

\* A call that has not come to its first increment has nothing staged.
LEMMA ApproachKeepsSplit ==
  ASSUME QuotaInv, SplitInv, TypeOK', NEW c \in Calls, \A b \in Calls \ {c} : call'[b] = call[b],
         UNCHANGED crashes, Start # Unset => Start' = Start, Approaches(c)
  PROVE  SplitInv'
<1>1. SentAdds' /\ UNCHANGED granted
  BY SumsStay DEF SplitInv, Approaches
<1>2. call'[c].key # Total
  BY IspAssumption DEF Approaches
<1>3. \A d \in Dates, i \in Isps :
        /\ granted'[Redis][d][i] = granted[Redis][d][i]
        /\ StagedAt(call'[c], d, i) => StagedAt(call[c], d, i)
  BY <1>1, <1>2 DEF Approaches, StagedAt, Through, Stuck, Holds
<1>4. \A d : ~Through(call[c], d, Total) /\ ~Through(call'[c], d, Total)
  BY <1>2 DEF Approaches, Through, Holds
<1>5. ASSUME NEW d \in Dates
      PROVE  granted'[Redis][d][Total] + Bit(Through(call'[c], d, Total))
               >= granted[Redis][d][Total] + Bit(Through(call[c], d, Total))
  <2>1. granted[Redis][d][Total] \in Nat
    BY DEF QuotaInv, TypeInv, TypeOK, Stores, Keys
  <2> QED
    BY <1>1, <1>4, <2>1 DEF Bit
<1> QED
  BY <1>1, <1>2, <1>3, <1>5, StepKeepsSplit

\* The first increment of a bucket is staged only if its cap lets it through.
LEMMA BeginKeepsSplit ==
  ASSUME QuotaInv, SplitInv, TypeOK', NEW c \in Calls, \A b \in Calls \ {c} : call'[b] = call[b],
         UNCHANGED crashes, Start # Unset => Start' = Start, Begins(c)
  PROVE  SplitInv'
<1> DEFINE r == call[c]
           dc == DateOf(r.now)
<1>1. /\ r \in CallRecord /\ dc \in Dates /\ r.key \in Keys /\ r.isp \in Keys /\ r.isp \in Isps
      /\ r.isp # Total /\ r.key \in {r.isp, Total} /\ r.pc = "incr"
  BY SaneCall DEF CallRecord, Begins
<1>2. call'[c] = [r EXCEPT !.pc = "expire"]
  BY DEF QuotaInv, TypeInv, TypeOK, Begins
<1>3. /\ call'[c].pc = "expire" /\ call'[c].now = r.now /\ call'[c].day = r.day
      /\ call'[c].key = r.key /\ call'[c].isp = r.isp
  BY <1>1, <1>2 DEF CallRecord
<1>4. SentAdds' /\ UNCHANGED granted
  BY SumsStay DEF SplitInv, Begins
<1>5. ASSUME NEW d \in Dates, NEW i \in Isps
      PROVE  \/ StagedAt(call'[c], d, i) => StagedAt(r, d, i)
             \/ granted[Redis][d][i] + Cardinality(Holders(d, i)) + 1 <= CapOn(d, i, Start)
  <2>1. i # Total
    BY IspAssumption
  <2>2. CASE d = dc /\ i = r.key /\ Cap[r.day][i] >= 1
    <3>1. count[dc][r.key] + 1 = 1
      BY DEF Begins
    <3>2. count[dc][r.key] + 1 <= Cap[r.day][r.key]
      BY <2>2, <3>1
    <3>3. granted[Redis][dc][r.key] + Cardinality(Holders(dc, r.key)) + 1 <= CapOn(dc, r.key, Start)
      BY <1>1, <3>2, RoomForHolder
    <3> QED
      BY <2>2, <3>3
  <2>3. CASE ~(d = dc /\ i = r.key /\ Cap[r.day][i] >= 1)
    <3>1. StagedAt(call'[c], d, i) => StagedAt(r, d, i)
      BY <1>1, <1>3, <2>1, <2>3 DEF StagedAt, Through, Stuck, Holds
    <3> QED
      BY <3>1
  <2> QED
    BY <2>2, <2>3
<1>6. call'[c].key = Total => Cap[call'[c].day][call'[c].isp] >= 1
  BY <1>1, <1>3 DEF SplitInv, BucketOpen
<1>7. ASSUME NEW d \in Dates
      PROVE  granted'[Redis][d][Total] + Bit(Through(call'[c], d, Total))
               >= granted[Redis][d][Total] + Bit(Through(call[c], d, Total))
  <2>1. granted[Redis][d][Total] \in Nat
    BY DEF QuotaInv, TypeInv, TypeOK, Stores, Keys
  <2>2. ~Through(call[c], d, Total)
    BY <1>1 DEF Through, Holds
  <2> QED
    BY <1>4, <2>1, <2>2 DEF Bit
<1> QED
  BY <1>3, <1>4, <1>5, <1>6, <1>7, StepKeepsSplit

\* A rollback stages nothing.
LEMMA ReturnKeepsSplit ==
  ASSUME QuotaInv, SplitInv, TypeOK', NEW c \in Calls, \A b \in Calls \ {c} : call'[b] = call[b],
         UNCHANGED crashes, Start # Unset => Start' = Start, Returns(c)
  PROVE  SplitInv'
<1> DEFINE r == call[c]
<1>1. /\ r \in CallRecord /\ r.isp \in Isps /\ r.isp # Total /\ r.pc = "undo"
  BY SaneCall DEF CallRecord, Returns
<1>2. call'[c] = Rollback(c)
  BY DEF QuotaInv, TypeInv, TypeOK, Returns
<1>3. \/ call'[c].pc = "idle"
      \/ call'[c].pc = "undo" /\ call'[c].key = r.isp
  <2>1. CASE r.key = Total
    <3>1. call'[c] = [r EXCEPT !.key = r.isp]
      BY <1>2, <2>1 DEF Rollback
    <3> QED
      BY <1>1, <3>1 DEF CallRecord
  <2>2. CASE r.key # Total
    BY <1>2, <2>2 DEF Rollback, Idle
  <2> QED
    BY <2>1, <2>2
<1>4. SentAdds' /\ UNCHANGED granted
  BY SumsStay DEF SplitInv, Returns
<1>5. \A d, i : ~StagedAt(call'[c], d, i) \/ call'[c].pc = "undo"
  BY <1>3 DEF StagedAt, Through, Stuck, Holds
<1>6. \A d \in Dates, i \in Isps : ~StagedAt(call'[c], d, i)
  BY <1>1, <1>3, <1>5 DEF StagedAt, Through, Stuck
<1>7. ASSUME NEW d \in Dates
      PROVE  granted'[Redis][d][Total] + Bit(Through(call'[c], d, Total))
               >= granted[Redis][d][Total] + Bit(Through(call[c], d, Total))
  <2>1. granted[Redis][d][Total] \in Nat
    BY DEF QuotaInv, TypeInv, TypeOK, Stores, Keys
  <2>2. ~Through(call[c], d, Total)
    BY <1>1 DEF Through
  <2> QED
    BY <1>4, <2>1, <2>2 DEF Bit
<1>8. ~(call'[c].pc # "idle" /\ call'[c].key = Total)
  BY <1>1, <1>3
<1>9. ~(call'[c].pc = "undo" /\ call'[c].key = Total)
  BY <1>1, <1>3
<1> QED
  BY <1>4, <1>6, <1>7, <1>8, <1>9, StepKeepsSplit

\* An expiry at the total is never the one refused: the call's bucket allowed a send, and
\* so does the total.
LEMMA TotalOpen ==
  ASSUME QuotaInv, SplitInv, NEW c \in Calls, call[c].pc # "idle", call[c].key = Total
  PROVE  Cap[call[c].day][Total] >= 1
<1>1. call[c].day \in Days /\ call[c].isp \in Isps
  BY SaneCall DEF CallRecord
<1>2. Cap[call[c].day][call[c].isp] >= 1
  BY DEF SplitInv, BucketOpen
<1>3. /\ Cap[call[c].day][call[c].isp] <= Cap[call[c].day][Total]
      /\ Cap[call[c].day][call[c].isp] \in Nat /\ Cap[call[c].day][Total] \in Nat
  BY <1>1, TotalCap, CapAssumption DEF Keys
<1> QED
  BY <1>2, <1>3

\* A send is recorded once in a bucket and once in the total.
LEMMA GrantSplits ==
  ASSUME QuotaInv, SentAdds, TypeOK', NEW c \in Calls, Grant(c, Redis), call[c].pc # "idle"
  PROVE  SentAdds'
<1> DEFINE dc == DateOf(call[c].now)
           i0 == call[c].isp
<1>1. /\ i0 \in Isps /\ i0 # Total /\ i0 \in Keys /\ dc \in Dates /\ call[c].via = Redis
      /\ TypeOK /\ Total \in Keys
  BY SaneCall DEF CallRecord, QuotaInv, TypeInv, Keys
<1>2. ASSUME NEW d \in Dates
      PROVE  SumFunctionOnSet(SentBy(d)', Isps) = granted'[Redis][d][Total]
  <2> DEFINE f == SentBy(d)
             g == SentBy(d)'
  <2>1. \A k \in Keys : granted'[Redis][d][k] =
                          granted[Redis][d][k] + Bit(d = dc /\ k \in {i0, Total})
    BY <1>1, GrantAdds
  <2>2. f \in [Isps -> Int] /\ \A i \in Isps : f[i] = granted[Redis][d][i]
    BY <1>1 DEF SentBy, TypeOK, Stores, Keys
  <2>3. g \in [Isps -> Int] /\ \A i \in Isps : g[i] = granted'[Redis][d][i]
    BY <1>1 DEF SentBy, TypeOK, Stores, Keys
  <2>4. \A i \in Isps \ {i0} : g[i] = f[i]
    <3>1. ASSUME NEW i \in Isps \ {i0} PROVE g[i] = f[i]
      <4>1. i \in Keys /\ i # Total /\ i # i0 /\ i \in Isps
        BY IspAssumption DEF Keys
      <4>2. granted'[Redis][d][i] = granted[Redis][d][i] + Bit(d = dc /\ i \in {i0, Total})
        BY <2>1, <4>1
      <4>3. granted[Redis][d][i] \in Nat
        BY <1>1, <4>1 DEF TypeOK, Stores
      <4>4. granted'[Redis][d][i] = granted[Redis][d][i]
        BY <4>1, <4>2, <4>3 DEF Bit
      <4> QED
        BY <2>2, <2>3, <4>1, <4>4
    <3> QED
      BY <3>1
  <2>5. granted[Redis][d][Total] \in Nat /\ granted[Redis][d][i0] \in Nat
    BY <1>1 DEF TypeOK, Stores
  <2>6. g[i0] - f[i0] = Bit(d = dc) /\ granted'[Redis][d][Total] = granted[Redis][d][Total] + Bit(d = dc)
    <3>1. /\ granted'[Redis][d][i0] = granted[Redis][d][i0] + Bit(d = dc /\ i0 \in {i0, Total})
          /\ granted'[Redis][d][Total] = granted[Redis][d][Total] + Bit(d = dc /\ Total \in {i0, Total})
      BY <1>1, <2>1
    <3>2. Bit(d = dc /\ i0 \in {i0, Total}) = Bit(d = dc) /\ Bit(d = dc /\ Total \in {i0, Total}) = Bit(d = dc)
      BY DEF Bit
    <3>3. g[i0] = granted'[Redis][d][i0] /\ f[i0] = granted[Redis][d][i0]
      BY <1>1, <2>2, <2>3
    <3>4. Bit(d = dc) \in Nat
      BY DEF Bit
    <3> HIDE DEF f, g, dc, i0
    <3> QED
      BY <2>5, <3>1, <3>2, <3>3, <3>4
  <2>7. SumFunctionOnSet(f, Isps) = granted[Redis][d][Total]
    BY DEF SentAdds
  <2>8. SumFunctionOnSet(g, Isps) = SumFunctionOnSet(f, Isps) + g[i0] - f[i0]
    <3> HIDE DEF f, g, dc, i0
    <3> QED
      BY <1>1, <2>2, <2>3, <2>4, IspAssumption, SumMoves
  <2>9. g[i0] \in Int /\ f[i0] \in Int /\ Bit(d = dc) \in Int
    BY <1>1, <2>2, <2>3 DEF Bit
  <2>10. SumFunctionOnSet(g, Isps) = granted'[Redis][d][Total]
    <3> HIDE DEF f, g, dc, i0
    <3> QED
      BY <2>5, <2>6, <2>7, <2>8, <2>9
  <2> QED
    BY <2>10
<1> QED
  BY <1>2 DEF SentAdds

\* What a comparison decides is staged within the ramp, and the total refuses only full.
LEMMA CompareKeepsSplit ==
  ASSUME QuotaInv, SplitInv, TypeOK', NEW c \in Calls, \A b \in Calls \ {c} : call'[b] = call[b],
         UNCHANGED crashes, Start # Unset => Start' = Start, Compares(c)
  PROVE  SplitInv'
<1> DEFINE r == call[c]
           dc == DateOf(r.now)
<1>1. PICK v \in Int :
        /\ Compare(c, v, Redis)
        /\ \/ r.pc = "incr" /\ v = count[dc][r.key] + 1
           \/ r.pc = "expire" /\ v = 1
  BY DEF Compares
<1>2. /\ r \in CallRecord /\ dc \in Dates /\ r.key \in Keys /\ r.isp \in Keys /\ r.isp \in Isps
      /\ r.isp # Total /\ r.key \in {r.isp, Total} /\ r.via = Redis
      /\ Cap[r.day][r.key] \in Nat /\ r.pc \in {"incr", "expire"}
  BY <1>1, SaneCall, CapAssumption DEF CallRecord
<1>3. \A i \in Isps : i # Total
  BY IspAssumption
<1>4. \A d \in Dates, k \in Keys : granted[Redis][d][k] \in Nat
  BY DEF QuotaInv, TypeInv, TypeOK, Stores
<1>5. CASE ~Fits(c, v) /\ call' = [call EXCEPT ![c].pc = "undo"] /\ UNCHANGED granted
  <2>1. call'[c] = [r EXCEPT !.pc = "undo"]
    BY <1>5 DEF QuotaInv, TypeInv, TypeOK
  <2>2. /\ call'[c].pc = "undo" /\ call'[c].now = r.now /\ call'[c].day = r.day
        /\ call'[c].key = r.key /\ call'[c].isp = r.isp
    BY <1>2, <2>1 DEF CallRecord
  <2>3. SentAdds'
    BY <1>5, SumsStay DEF SplitInv
  <2>4. \A d \in Dates, i \in Isps : StagedAt(call'[c], d, i) => StagedAt(r, d, i)
    BY <1>2, <1>3, <2>2 DEF StagedAt, Through, Stuck, Holds
  <2>5. call'[c].key = Total => Cap[call'[c].day][call'[c].isp] >= 1
    BY <1>2, <2>2 DEF SplitInv, BucketOpen
  <2>6. r.key = Total => r.pc = "incr"
    <3> SUFFICES ASSUME r.key = Total, r.pc = "expire" PROVE FALSE
      BY <1>2
    <3>1. v = 1 /\ ~(v <= Cap[r.day][Total])
      BY <1>1, <1>5 DEF Fits
    <3>2. Cap[r.day][Total] >= 1 /\ Cap[r.day][Total] \in Nat
      BY <1>2, TotalOpen
    <3> QED
      BY <3>1, <3>2
  <2>7. ASSUME crashes = 0, call'[c].key = Total
        PROVE  Filled(DateOf(call'[c].now)) >= Cap[call'[c].day][Total]
    <3>1. r.key = Total /\ r.pc = "incr" /\ v = count[dc][Total] + 1 /\ ~(v <= Cap[r.day][Total])
      BY <1>1, <1>5, <2>2, <2>6, <2>7 DEF Fits
    <3>2. Cap[r.day][Total] \in Nat /\ v \in Int
      BY <1>2, <3>1
    <3>3. count[dc][Total] + 1 > Cap[r.day][Total]
      BY <3>1, <3>2
    <3>4. Filled(dc) >= Cap[r.day][Total]
      BY <2>7, <3>1, <3>3, RefusedByTotal
    <3> QED
      BY <2>2, <3>4
  <2>8. ASSUME NEW d \in Dates
        PROVE  granted'[Redis][d][Total] + Bit(Through(call'[c], d, Total))
                 >= granted[Redis][d][Total] + Bit(Through(call[c], d, Total))
    <3>1. ~Through(call[c], d, Total)
      BY <1>2, <2>6 DEF Through, Holds
    <3>2. granted[Redis][d][Total] \in Nat
      BY <1>4 DEF Keys
    <3> QED
      BY <1>5, <3>1, <3>2 DEF Bit
  <2> QED
    BY <1>5, <2>3, <2>4, <2>5, <2>7, <2>8, StepKeepsSplit
<1>6. CASE /\ Fits(c, v)
           /\ r.key # Total
           /\ call' = [call EXCEPT ![c].pc = "incr", ![c].key = Total, ![c].via = Redis]
           /\ UNCHANGED granted
  <2>1. call'[c] = [r EXCEPT !.pc = "incr", !.key = Total, !.via = Redis]
    BY <1>6 DEF QuotaInv, TypeInv, TypeOK
  <2>2. /\ call'[c].pc = "incr" /\ call'[c].now = r.now /\ call'[c].day = r.day
        /\ call'[c].key = Total /\ call'[c].isp = r.isp
    BY <1>2, <2>1 DEF CallRecord
  <2>3. SentAdds'
    BY <1>6, SumsStay DEF SplitInv
  <2>4. r.key = r.isp
    BY <1>2, <1>6
  <2>5. v >= 1
    <3>1. CASE r.pc = "incr" /\ v = count[dc][r.key] + 1
      <4>1. count[dc][r.key] >= granted[Redis][dc][r.key] + Cardinality(Holders(dc, r.key))
        BY <1>2 DEF QuotaInv, Counted
      <4>2. Cardinality(Holders(dc, r.key)) \in Nat /\ granted[Redis][dc][r.key] \in Nat
        BY <1>2, <1>4, HoldersFinite
      <4>3. count[dc][r.key] \in Int
        BY <1>2 DEF QuotaInv, TypeInv, TypeOK
      <4> HIDE DEF dc, r
      <4> QED
        BY <3>1, <4>1, <4>2, <4>3
    <3> QED
      BY <1>1, <3>1
  <2>6. v <= Cap[r.day][r.isp] /\ Cap[r.day][r.isp] \in Nat
    BY <1>2, <1>6, <2>4 DEF Fits
  <2>7. Cap[r.day][r.isp] >= 1
    BY <2>5, <2>6
  <2>8. ASSUME NEW d \in Dates, NEW i \in Isps
        PROVE  \/ StagedAt(call'[c], d, i) => StagedAt(r, d, i)
               \/ granted[Redis][d][i] + Cardinality(Holders(d, i)) + 1 <= CapOn(d, i, Start)
    <3>1. CASE d = dc /\ i = r.isp /\ r.pc = "incr"
      <4>1. count[dc][r.key] + 1 <= Cap[r.day][r.key]
        BY <1>1, <2>4, <2>6, <3>1
      <4>2. granted[Redis][dc][r.key] + Cardinality(Holders(dc, r.key)) + 1 <= CapOn(dc, r.key, Start)
        BY <3>1, <4>1, RoomForHolder
      <4> QED
        BY <2>4, <3>1, <4>2
    <3>2. CASE d = dc /\ i = r.isp /\ r.pc = "expire"
      <4>1. StagedAt(r, d, i)
        BY <2>4, <2>7, <3>2 DEF StagedAt, Through, Holds
      <4> QED
        BY <4>1
    <3>3. CASE ~(d = dc /\ i = r.isp)
      <4>1. ~StagedAt(call'[c], d, i)
        BY <1>3, <2>2, <3>3 DEF StagedAt, Through, Stuck, Holds
      <4> QED
        BY <4>1
    <3> QED
      BY <1>2, <3>1, <3>2, <3>3
  <2>9. ASSUME NEW d \in Dates
        PROVE  granted'[Redis][d][Total] + Bit(Through(call'[c], d, Total))
                 >= granted[Redis][d][Total] + Bit(Through(call[c], d, Total))
    <3>1. ~Through(call[c], d, Total)
      BY <1>2, <2>4 DEF Through, Holds
    <3>2. granted[Redis][d][Total] \in Nat
      BY <1>4 DEF Keys
    <3> QED
      BY <1>6, <3>1, <3>2 DEF Bit
  <2> QED
    BY <1>6, <2>2, <2>3, <2>7, <2>8, <2>9, StepKeepsSplit
<1>7. CASE /\ Fits(c, v)
           /\ r.key = Total
           /\ call' = [call EXCEPT ![c] = Idle]
           /\ Grant(c, Redis)
  <2>1. call'[c].pc = "idle"
    BY <1>7 DEF QuotaInv, TypeInv, TypeOK, Idle
  <2>2. SentAdds'
    BY <1>2, <1>7, GrantSplits DEF SplitInv
  <2>3. \A d \in Dates, k \in Keys :
          granted'[Redis][d][k] = granted[Redis][d][k] + Bit(d = dc /\ k \in {r.isp, Total})
    BY <1>2, <1>7, GrantAdds DEF QuotaInv, TypeInv
  <2>4. \A d, k : ~StagedAt(call'[c], d, k) /\ ~Through(call'[c], d, k)
    BY <2>1 DEF StagedAt, Through, Stuck, Holds
  <2>5. ASSUME NEW d \in Dates, NEW i \in Isps
        PROVE  \/ /\ granted'[Redis][d][i] = granted[Redis][d][i]
                  /\ StagedAt(call'[c], d, i) => StagedAt(call[c], d, i)
               \/ /\ granted'[Redis][d][i] = granted[Redis][d][i] + 1
                  /\ StagedAt(call[c], d, i) /\ ~StagedAt(call'[c], d, i)
    <3>1. granted'[Redis][d][i] = granted[Redis][d][i] + Bit(d = dc /\ i \in {r.isp, Total})
      BY <2>3 DEF Keys
    <3>2. granted[Redis][d][i] \in Nat
      BY <1>4 DEF Keys
    <3>3. CASE d = dc /\ i = r.isp
      <4>1. StagedAt(call[c], d, i)
        BY <1>2, <1>7, <3>3 DEF StagedAt, Through, Holds
      <4>2. granted'[Redis][d][i] = granted[Redis][d][i] + 1
        BY <3>1, <3>3 DEF Bit
      <4> QED
        BY <2>4, <4>1, <4>2
    <3>4. CASE ~(d = dc /\ i = r.isp)
      <4>1. granted'[Redis][d][i] = granted[Redis][d][i]
        BY <1>3, <3>1, <3>2, <3>4 DEF Bit
      <4> QED
        BY <2>4, <4>1
    <3> QED
      BY <3>3, <3>4
  <2>6. ASSUME NEW d \in Dates
        PROVE  granted'[Redis][d][Total] + Bit(Through(call'[c], d, Total))
                 >= granted[Redis][d][Total] + Bit(Through(call[c], d, Total))
    <3>1. granted'[Redis][d][Total] = granted[Redis][d][Total] + Bit(d = dc)
      <4>1. granted'[Redis][d][Total] = granted[Redis][d][Total] + Bit(d = dc /\ Total \in {r.isp, Total})
        BY <2>3 DEF Keys
      <4> QED
        BY <4>1 DEF Bit
    <3>2. granted[Redis][d][Total] \in Nat
      BY <1>4 DEF Keys
    <3>3. Through(call[c], d, Total) => d = dc
      BY DEF Through, Holds
    <3>4. Bit(Through(call[c], d, Total)) <= Bit(d = dc) /\ Bit(Through(call[c], d, Total)) \in Nat
          /\ Bit(d = dc) \in Nat
      BY <3>3 DEF Bit
    <3>5. Bit(Through(call'[c], d, Total)) = 0
      BY <2>4 DEF Bit
    <3> QED
      BY <3>1, <3>2, <3>4, <3>5
  <2> QED
    BY <2>1, <2>2, <2>5, <2>6, StepKeepsSplit
<1> QED
  BY <1>1, <1>5, <1>6, <1>7 DEF Compare

\* A crash only takes calls away.
LEMMA CrashKeepsSplit ==
  ASSUME QuotaInv, SplitInv, NEW w \in Workers, Crash(w)
  PROVE  SplitInv'
<1>1. UNCHANGED <<granted, redisStart>>
  BY DEF Crash
<1>2. \A b \in Calls : call'[b] = call[b] \/ call'[b] = Idle
  BY DEF Crash
<1>3. SentAdds'
  BY <1>1, SumsStay DEF SplitInv
<1>4. BucketOpen'
  BY <1>2 DEF SplitInv, BucketOpen, Idle
<1>5. crashes' # 0
  BY FaultAssumption, SMT DEF Crash, QuotaInv, TypeInv, TypeOK
<1>6. ASSUME NEW d \in Dates, NEW i \in Isps
      PROVE  granted'[Redis][d][i] + Cardinality(Staged(d, i)') <= CapOn(d, i, Start')
  <2>1. Staged(d, i)' \subseteq Staged(d, i)
    BY <1>2 DEF Staged, Through, Stuck, Holds, Idle
  <2>2. /\ Cardinality(Staged(d, i)') \in Nat /\ Cardinality(Staged(d, i)) \in Nat
        /\ Cardinality(Staged(d, i)') <= Cardinality(Staged(d, i))
    BY <2>1, StagedFinite, FS_Subset, FS_CardinalityType
  <2>3. granted[Redis][d][i] \in Nat
    BY DEF QuotaInv, TypeInv, TypeOK, Stores, Keys
  <2>4. CapOn(d, i, Start) \in Nat
    BY CapOnType, StartType DEF QuotaInv, TypeInv, Keys
  <2>5. granted[Redis][d][i] + Cardinality(Staged(d, i)) <= CapOn(d, i, Start)
    BY DEF SplitInv, StagedWithin
  <2>6. Start' = Start
    BY <1>1 DEF Start
  <2> QED
    BY <1>1, <2>2, <2>3, <2>4, <2>5, <2>6
<1> QED
  BY <1>3, <1>4, <1>5, <1>6 DEF SplitInv, StagedWithin, TotalIsFull

LEMMA SplitInit == Init => SplitInv
<1> SUFFICES ASSUME Init PROVE SplitInv
  OBVIOUS
<1>1. SentAdds
  <2>1. ASSUME NEW d \in Dates
        PROVE  SumFunctionOnSet(SentBy(d), Isps) = granted[Redis][d][Total]
    <3> DEFINE f == SentBy(d)
    <3>1. \A k \in Keys : granted[Redis][d][k] = 0
      BY DEF Init, Zero, Stores
    <3>2. f \in [Isps -> Int] /\ \A i \in Isps : f[i] = 0
      BY <3>1 DEF SentBy, Keys
    <3>3. SumFunctionOnSet(f, Isps) = 0
      <4> HIDE DEF f
      <4> QED
        BY <3>2, IspAssumption, SumOfZeroes
    <3> QED
      BY <3>1, <3>3 DEF Keys
  <2> QED
    BY <2>1 DEF SentAdds
<1>2. \A c \in Calls : call[c] = Idle
  BY DEF Init
<1>3. BucketOpen /\ TotalIsFull
  BY <1>2 DEF BucketOpen, TotalIsFull, Idle
<1>4. ASSUME NEW d \in Dates, NEW i \in Isps
      PROVE  granted[Redis][d][i] + Cardinality(Staged(d, i)) <= CapOn(d, i, Start)
  <2>1. Staged(d, i) = {}
    BY <1>2 DEF Staged, Through, Stuck, Holds, Idle
  <2>2. granted[Redis][d][i] = 0
    BY DEF Init, Zero, Stores, Keys
  <2>3. CapOn(d, i, Start) \in Nat
    BY CapOnType, StartType, TypeInit DEF TypeInv, Keys
  <2> QED
    BY <2>1, <2>2, <2>3, FS_EmptySet
<1> QED
  BY <1>1, <1>3, <1>4 DEF SplitInv, StagedWithin

LEMMA SplitStep == MaxFaults = 0 /\ QuotaInv /\ QuotaInv' /\ SplitInv /\ [Next]_vars => SplitInv'
<1> SUFFICES ASSUME MaxFaults = 0, QuotaInv, QuotaInv', SplitInv, [Next]_vars PROVE SplitInv'
  OBVIOUS
<1>1. TypeOK'
  BY DEF QuotaInv, TypeInv
<1>2. ASSUME NEW c \in Calls, Step(c) PROVE SplitInv'
  <2>1. /\ \A b \in Calls \ {c} : call'[b] = call[b]
        /\ UNCHANGED crashes
        /\ Start # Unset => Start' = Start
        /\ Approaches(c) \/ Begins(c) \/ Compares(c) \/ Returns(c)
    BY <1>2, StepShape
  <2>2. CASE Approaches(c)
    BY <1>1, <2>1, <2>2, ApproachKeepsSplit
  <2>3. CASE Begins(c)
    BY <1>1, <2>1, <2>3, BeginKeepsSplit
  <2>4. CASE Compares(c)
    BY <1>1, <2>1, <2>4, CompareKeepsSplit
  <2>5. CASE Returns(c)
    BY <1>1, <2>1, <2>5, ReturnKeepsSplit
  <2> QED
    BY <2>1, <2>2, <2>3, <2>4, <2>5
<1>3. ASSUME NEW w \in Workers, Crash(w) PROVE SplitInv'
  BY <1>3, CrashKeepsSplit
<1>4. CASE UNCHANGED <<call, granted, redisStart, crashes>>
  <2>1. SentAdds'
    BY <1>4, SumsStay DEF SplitInv
  <2>2. \A d, k : Staged(d, k)' = Staged(d, k) /\ Passed(d, k)' = Passed(d, k)
    BY <1>4 DEF Staged, Passed
  <2>3. BucketOpen'
    BY <1>4 DEF SplitInv, BucketOpen
  <2>4. StagedWithin'
    BY <1>4, <2>2 DEF SplitInv, StagedWithin, Start
  <2>5. TotalIsFull'
    BY <1>4 DEF SplitInv, TotalIsFull, Filled, Passed
  <2> QED
    BY <2>1, <2>3, <2>4, <2>5 DEF SplitInv
<1>5. Tick \/ UNCHANGED vars => UNCHANGED <<call, granted, redisStart, crashes>>
  BY DEF Tick, vars
<1> QED
  BY <1>2, <1>3, <1>4, <1>5 DEF Next

LEMMA SplitInvariant == ASSUME MaxFaults = 0 PROVE Spec => [](QuotaInv /\ SplitInv)
<1>1. Init => QuotaInv /\ SplitInv
  BY QuotaInit, SplitInit
<1>2. (QuotaInv /\ SplitInv) /\ [Next]_vars => (QuotaInv /\ SplitInv)'
  BY QuotaStep, SplitStep
<1> QED
  BY <1>1, <1>2, PTL DEF Spec

\* As long as Redis answers and no call is lost, the total refuses no call on time: where
\* it does refuse, some bucket let through more than the call's own warm-up day allows.
THEOREM TotalRefusesOnlyTheLate == ASSUME MaxFaults = 0 PROVE Spec => TotalStopsOnlyLateCalls
<1> DEFINE Late(c) ==
             \E i \in Isps :
               granted[Redis][DateOf(call[c].now)][i] + Cardinality(Passed(DateOf(call[c].now), i))
                 > Cap[call[c].day][i]
<1>1. ASSUME QuotaInv, SplitInv, Next, NEW c \in Calls, Refused(c), call[c].key = Total, crashes = 0
      PROVE  Late(c)
  <2>1. call \in [Calls -> CallRecord] /\ call[c].pc # "undo" /\ call'[c].pc = "undo"
    BY <1>1 DEF Refused, QuotaInv, TypeInv, TypeOK, CallRecord
  <2>2. PICK b \in Calls : Step(b)
    BY <1>1, <2>1 DEF Next, Tick, Crash, Idle
  <2>3. /\ \A a \in Calls \ {b} : call'[a] = call[a]
        /\ Approaches(b) \/ Begins(b) \/ Compares(b) \/ Returns(b)
    BY <1>1, <2>2, StepShape
  <2>4. b = c
    BY <2>1, <2>3
  <2>5. ~Approaches(c) /\ ~Begins(c) /\ ~Returns(c)
    BY <2>1 DEF Approaches, Begins, Returns, CallRecord
  <2>6. PICK v \in Int :
          /\ Compare(c, v, Redis)
          /\ \/ call[c].pc = "incr" /\ v = count[DateOf(call[c].now)][Total] + 1
             \/ call[c].pc = "expire" /\ v = 1
    BY <1>1, <2>3, <2>4, <2>5 DEF Compares
  <2>7. ~(v <= Cap[call[c].day][Total])
    BY <1>1, <2>1, <2>6 DEF Compare, Fits, Idle
  <2>8. Cap[call[c].day][Total] \in Nat /\ Cap[call[c].day][Total] >= 1
    <3>1. call[c].day \in Days /\ call[c].pc # "idle"
      BY <1>1, <2>6, SaneCall DEF CallRecord
    <3> QED
      BY <1>1, <3>1, TotalOpen, CapAssumption DEF Keys
  <2>9. call[c].pc = "incr" /\ count[DateOf(call[c].now)][Total] + 1 > Cap[call[c].day][Total]
    BY <2>6, <2>7, <2>8
  <2> QED
    BY <1>1, <2>9, RefusedByTotal
<1>2. QuotaInv /\ SplitInv /\ [Next]_vars =>
        [\A c \in Calls : Refused(c) /\ call[c].key = Total /\ crashes = 0 =>
           LET d == DateOf(call[c].now) IN
           \E i \in Isps :
             granted[Redis][d][i] + Cardinality(Passed(d, i)) > Cap[call[c].day][i]]_vars
  BY <1>1
<1> QED
  BY <1>2, SplitInvariant, PTL DEF Spec, TotalStopsOnlyLateCalls

\* As long as Redis answers and no call is lost, every refusal is explained: by the calls
\* it races with, or by the lateness of the call the total refuses.
THEOREM EveryRefusalIsExplained == ASSUME MaxFaults = 0 PROVE Spec => RefusalsAreExplained
  BY RefusedForAReason, TotalRefusesOnlyTheLate DEF RefusalsAreExplained
=============================================================================
