----------------------------- MODULE SumProofs -----------------------------
(***************************************************************************)
(* Induction and recursion over the natural numbers and over finite sets,  *)
(* for sets and functions as parameters, and from them what the sums of    *)
(* the community modules compute: SumFunctionOnSet adds up the values of a *)
(* function in whatever order.                                             *)
(***************************************************************************)
EXTENDS FiniteSetsExt, FiniteSetTheorems, TLAPS

(***************************************************************************)
(* Natural numbers.                                                        *)
(***************************************************************************)
LEMMA LeastNumber ==
    ASSUME NEW S \in SUBSET Nat, S # {}
    PROVE  \E m \in S : \A n \in S : m <= n
  <1> DEFINE Less == OpToRel(<, Nat)
  <1>1. IsWellFoundedOn(Less, Nat)
    BY NatLessThanWellFounded, Zenon
  <1>2. \A m, n \in Nat : <<m, n>> \in Less <=> m < n
    BY DEF OpToRel
  <1> HIDE DEF Less
  <1>3. PICK m \in S : \A n \in S : <<n, m>> \notin Less
    BY <1>1, WFMin, Zenon
  <1>4. \A n \in S : m <= n
    <2> SUFFICES ASSUME NEW n \in S PROVE m <= n
      OBVIOUS
    <2>1. ~(n < m)
      BY <1>2, <1>3
    <2> QED
      BY <2>1
  <1> QED
    BY <1>4, Zenon

LEMMA CountingUp ==
    ASSUME NEW P \in SUBSET Nat, 0 \in P, \A n \in P : n + 1 \in P
    PROVE  P = Nat
  <1> SUFFICES ASSUME Nat \ P # {} PROVE FALSE
    OBVIOUS
  <1>1. PICK m \in Nat \ P : \A n \in Nat \ P : m <= n
    BY LeastNumber
  <1>2. m # 0 /\ m - 1 \in Nat /\ m - 1 \in P
    BY <1>1
  <1> QED
    BY <1>1, <1>2

(***************************************************************************)
(* Recursion down a rank: prev[x] is what is left of x, gain[x] what x     *)
(* adds to it.                                                             *)
(***************************************************************************)
Adds(g, D, rank, prev, gain) ==
    \A x \in D : g[x] = IF rank[x] = 0 THEN 0 ELSE gain[x] + g[prev[x]]

Descends(D, rank, prev, gain) ==
    /\ \A x \in D : rank[x] \in Nat /\ gain[x] \in Int
    /\ \A x \in D : rank[x] # 0 => prev[x] \in D /\ rank[prev[x]] = rank[x] - 1

LEMMA AddsOnce ==
    ASSUME NEW D, NEW rank, NEW prev, NEW gain, Descends(D, rank, prev, gain),
           NEW g, NEW h, Adds(g, D, rank, prev, gain), Adds(h, D, rank, prev, gain)
    PROVE  \A x \in D : g[x] = h[x]
  <1> DEFINE P == {n \in Nat : \A x \in D : rank[x] = n => g[x] = h[x]}
  <1>1. 0 \in P
    BY DEF Adds
  <1>2. ASSUME NEW n \in P
        PROVE  n + 1 \in P
    <2> SUFFICES ASSUME NEW x \in D, rank[x] = n + 1 PROVE g[x] = h[x]
      OBVIOUS
    <2>1. prev[x] \in D /\ rank[prev[x]] = n /\ rank[x] # 0
      BY DEF Descends
    <2> QED
      BY <2>1 DEF Adds
  <1>3. P = Nat
    <2> HIDE DEF P
    <2>1. P \in SUBSET Nat
      BY DEF P
    <2> QED
      BY <1>1, <1>2, <2>1, CountingUp
  <1> QED
    BY <1>3 DEF Descends

LEMMA SumsExist ==
    ASSUME NEW D, NEW rank, NEW prev, NEW gain, Descends(D, rank, prev, gain)
    PROVE  \E g \in [D -> Int] : Adds(g, D, rank, prev, gain)
  <1> DEFINE Low(n) == {x \in D : rank[x] <= n}
             Good(g, n) == g \in [Low(n) -> Int] /\ Adds(g, Low(n), rank, prev, gain)
             P == {n \in Nat : \E g : Good(g, n)}
  <1>1. 0 \in P
    <2> DEFINE g == [x \in Low(0) |-> 0]
    <2>1. g \in [Low(0) -> Int]
      OBVIOUS
    <2>2. \A x \in Low(0) : rank[x] = 0
      BY DEF Descends
    <2>3. Good(g, 0)
      BY <2>1, <2>2 DEF Adds
    <2> QED
      BY <2>3
  <1>2. ASSUME NEW n \in P
        PROVE  n + 1 \in P
    <2>1. PICK f : Good(f, n)
      OBVIOUS
    <2> DEFINE g == [x \in Low(n + 1) |-> IF rank[x] = 0 THEN 0 ELSE gain[x] + f[prev[x]]]
    <2>2. \A x \in Low(n + 1) : rank[x] # 0 => prev[x] \in Low(n) /\ prev[x] \in Low(n + 1)
      BY DEF Descends
    <2>3. g \in [Low(n + 1) -> Int]
      <3> SUFFICES ASSUME NEW x \in Low(n + 1), rank[x] # 0 PROVE gain[x] + f[prev[x]] \in Int
        OBVIOUS
      <3> QED
        BY <2>1, <2>2 DEF Descends
    <2>4. \A x \in Low(n) : x \in Low(n + 1) /\ g[x] = f[x]
      <3> SUFFICES ASSUME NEW x \in Low(n) PROVE x \in Low(n + 1) /\ g[x] = f[x]
        OBVIOUS
      <3>1. x \in Low(n + 1)
        BY DEF Descends
      <3>2. f[x] = IF rank[x] = 0 THEN 0 ELSE gain[x] + f[prev[x]]
        BY <2>1 DEF Adds
      <3> QED
        BY <3>1, <3>2
    <2>5. Adds(g, Low(n + 1), rank, prev, gain)
      <3> SUFFICES ASSUME NEW x \in Low(n + 1)
                   PROVE  g[x] = IF rank[x] = 0 THEN 0 ELSE gain[x] + g[prev[x]]
        BY DEF Adds
      <3>1. g[x] = IF rank[x] = 0 THEN 0 ELSE gain[x] + f[prev[x]]
        OBVIOUS
      <3> HIDE DEF g
      <3> QED
        BY <2>2, <2>4, <3>1
    <2>6. Good(g, n + 1)
      BY <2>3, <2>5
    <2> HIDE DEF g, Good
    <2> QED
      BY <2>6
  <1>3. \A n \in Nat : \E g : Good(g, n)
    <2> HIDE DEF P
    <2>1. P \in SUBSET Nat
      BY DEF P
    <2>2. P = Nat
      BY <1>1, <1>2, <2>1, CountingUp
    <2> QED
      BY <2>2 DEF P
  <1> DEFINE best == [n \in Nat |-> CHOOSE g : Good(g, n)]
             sum == [x \in D |-> best[rank[x]][x]]
  <1>4. \A n \in Nat : Good(best[n], n)
    <2> HIDE DEF Good
    <2> QED
      BY <1>3
  <1> HIDE DEF best
  <1>5. ASSUME NEW x \in D
        PROVE  /\ sum[x] = best[rank[x]][x]
               /\ sum[x] \in Int
               /\ rank[x] = 0 => sum[x] = 0
               /\ rank[x] # 0 => sum[x] = gain[x] + best[rank[x]][prev[x]]
    <2> DEFINE f == best[rank[x]]
    <2>1. f \in [Low(rank[x]) -> Int] /\ x \in Low(rank[x])
      <3>1. rank[x] \in Nat
        BY DEF Descends
      <3>2. Good(best[rank[x]], rank[x])
        <4> HIDE DEF Good
        <4> QED
          BY <1>4, <3>1
      <3> QED
        BY <3>1, <3>2
    <2>2. f[x] = IF rank[x] = 0 THEN 0 ELSE gain[x] + f[prev[x]]
      BY <1>4, <2>1 DEF Adds, Descends
    <2>3. sum[x] = f[x]
      OBVIOUS
    <2> HIDE DEF f, sum
    <2>4. f[x] \in Int
      BY <2>1
    <2> QED
      BY <2>2, <2>3, <2>4 DEF f
  <1>6. ASSUME NEW x \in D, rank[x] # 0
        PROVE  sum[prev[x]] = best[rank[x]][prev[x]]
    <2> DEFINE n == rank[prev[x]]
    <2>1. /\ prev[x] \in D /\ n \in Nat /\ rank[x] = n + 1
          /\ prev[x] \in Low(n)
      BY <1>6 DEF Descends
    <2>2. /\ Adds(best[n], Low(n), rank, prev, gain)
          /\ Adds(best[n + 1], Low(n + 1), rank, prev, gain)
      <3>1. Good(best[n], n) /\ Good(best[n + 1], n + 1)
        <4> HIDE DEF Good, n
        <4> QED
          BY <1>4, <2>1
      <3> QED
        BY <3>1
    <2>3. Adds(best[n + 1], Low(n), rank, prev, gain)
      BY <2>1, <2>2 DEF Adds, Descends
    <2>4. Descends(Low(n), rank, prev, gain)
      <3> HIDE DEF n
      <3> QED
        BY <2>1 DEF Descends
    <2>5. best[n + 1][prev[x]] = best[n][prev[x]]
      <3> HIDE DEF Low, n
      <3> QED
        BY <2>1, <2>2, <2>3, <2>4, AddsOnce
    <2> QED
      BY <1>5, <2>1, <2>5
  <1> HIDE DEF sum
  <1>7. sum \in [D -> Int]
    BY <1>5 DEF sum
  <1>8. Adds(sum, D, rank, prev, gain)
    BY <1>5, <1>6 DEF Adds
  <1> QED
    BY <1>7, <1>8

(***************************************************************************)
(* Sums over finite sets.                                                  *)
(***************************************************************************)
Some(s) == CHOOSE x \in s : TRUE

Numbers(F, S) == \A x \in S : F[x] \in Int

Totals(g, F, S) ==
    /\ g \in [SUBSET S -> Int]
    /\ \A s \in SUBSET S : g[s] = SumFunctionOnSet(F, s)
    /\ \A s \in SUBSET S :
          g[s] = IF s = {} THEN 0 ELSE F[Some(s)] + g[s \ {Some(s)}]

\* The recursion that the folds of the community modules are.
Folds(g, F, S) ==
    g = [s \in SUBSET S |-> IF s = {} THEN 0 ELSE F[Some(s)] + g[s \ {Some(s)}]]

LEMMA SumFolds ==
    ASSUME NEW F, NEW S
    PROVE  SumFunctionOnSet(F, S) = (CHOOSE g : Folds(g, F, S))[S]
  BY DEF SumFunctionOnSet, FoldFunctionOnSet, MapThenFoldSet, Folds, Some

\* The ranks and the remainders of the subsets of S.
LEMMA SetsDescend ==
    ASSUME NEW S, IsFiniteSet(S), NEW F, Numbers(F, S)
    PROVE  Descends(SUBSET S, [s \in SUBSET S |-> Cardinality(s)],
                    [s \in SUBSET S |-> s \ {Some(s)}],
                    [s \in SUBSET S |-> IF s = {} THEN 0 ELSE F[Some(s)]])
  <1> SUFFICES ASSUME NEW s \in SUBSET S
               PROVE  /\ Cardinality(s) \in Nat
                      /\ (IF s = {} THEN 0 ELSE F[Some(s)]) \in Int
                      /\ Cardinality(s) # 0 =>
                            /\ s \ {Some(s)} \in SUBSET S
                            /\ Cardinality(s \ {Some(s)}) = Cardinality(s) - 1
    BY DEF Descends, Numbers
  <1>1. IsFiniteSet(s) /\ Cardinality(s) \in Nat
    BY FS_Subset, FS_CardinalityType
  <1>2. s # {} => Some(s) \in s
    BY DEF Some
  <1>3. Cardinality(s) # 0 <=> s # {}
    BY <1>1, FS_EmptySet
  <1>4. s # {} => Cardinality(s \ {Some(s)}) = Cardinality(s) - 1
    BY <1>1, <1>2, FS_RemoveElement
  <1> QED
    BY <1>1, <1>2, <1>3, <1>4 DEF Numbers

\* One table holds the sums over all the subsets of S.
LEMMA SumTable ==
    ASSUME NEW S, IsFiniteSet(S), NEW F, Numbers(F, S)
    PROVE  \E g : Totals(g, F, S)
  <1> DEFINE rank(T) == [s \in SUBSET T |-> Cardinality(s)]
             prev(T) == [s \in SUBSET T |-> s \ {Some(s)}]
             gain(T) == [s \in SUBSET T |-> IF s = {} THEN 0 ELSE F[Some(s)]]
             Table(g, T) == \A s \in SUBSET T :
                g[s] = IF s = {} THEN 0 ELSE F[Some(s)] + g[s \ {Some(s)}]
  <1>1. ASSUME NEW T \in SUBSET S
        PROVE  /\ Descends(SUBSET T, rank(T), prev(T), gain(T))
               /\ \A g : Adds(g, SUBSET T, rank(T), prev(T), gain(T)) <=> Table(g, T)
    <2>1. IsFiniteSet(T)
      BY FS_Subset
    <2>2. Numbers(F, T)
      BY DEF Numbers
    <2>3. Descends(SUBSET T, rank(T), prev(T), gain(T))
      BY <2>1, <2>2, SetsDescend
    <2>4. \A s \in SUBSET T : Cardinality(s) = 0 <=> s = {}
      BY <2>1, FS_Subset, FS_EmptySet
    <2> QED
      BY <2>3, <2>4 DEF Adds
  <1>2. ASSUME NEW T \in SUBSET S, NEW g, NEW h, Table(g, T), Table(h, T)
        PROVE  g[T] = h[T]
    <2> HIDE DEF rank, prev, gain, Table
    <2>1. /\ Descends(SUBSET T, rank(T), prev(T), gain(T))
          /\ Adds(g, SUBSET T, rank(T), prev(T), gain(T))
          /\ Adds(h, SUBSET T, rank(T), prev(T), gain(T))
      BY <1>1, <1>2
    <2>2. \A s \in SUBSET T : g[s] = h[s]
      BY <2>1, AddsOnce
    <2> QED
      BY <2>2
  <1>3. PICK g \in [SUBSET S -> Int] : Table(g, S)
    <2> HIDE DEF rank, prev, gain, Table
    <2>1. Descends(SUBSET S, rank(S), prev(S), gain(S))
      BY <1>1
    <2>2. \E g \in [SUBSET S -> Int] : Adds(g, SUBSET S, rank(S), prev(S), gain(S))
      BY <2>1, SumsExist
    <2> QED
      BY <1>1, <2>2
  <1>4. ASSUME NEW T \in SUBSET S
        PROVE  SumFunctionOnSet(F, T) = g[T]
    <2> DEFINE h == [s \in SUBSET T |-> g[s]]
    <2>1. Table(h, T)
      <3> SUFFICES ASSUME NEW s \in SUBSET T
                   PROVE  h[s] = IF s = {} THEN 0 ELSE F[Some(s)] + h[s \ {Some(s)}]
        OBVIOUS
      <3>1. s \in SUBSET S /\ s \ {Some(s)} \in SUBSET T
        OBVIOUS
      <3> QED
        BY <1>3, <3>1
    <2>2. Folds(h, F, T)
      <3> SUFFICES h = [s \in SUBSET T |-> IF s = {} THEN 0
                                            ELSE F[Some(s)] + h[s \ {Some(s)}]]
        BY DEF Folds
      <3> QED
        BY <2>1
    <2> DEFINE f == CHOOSE f : Folds(f, F, T)
    <2>3. Folds(f, F, T)
      BY <2>2
    <2>4. f[T] = SumFunctionOnSet(F, T)
      BY SumFolds
    <2> HIDE DEF f, h
    <2>5. Table(f, T)
      BY <2>3 DEF Folds
    <2>6. Table(g, T)
      BY <1>3
    <2> HIDE DEF Table
    <2> QED
      BY <1>2, <2>4, <2>5, <2>6
  <1> QED
    BY <1>3, <1>4 DEF Totals

LEMMA SumType ==
    ASSUME NEW S, IsFiniteSet(S), NEW F, Numbers(F, S)
    PROVE  \A s \in SUBSET S : SumFunctionOnSet(F, s) \in Int
  <1>1. PICK g : Totals(g, F, S)
    BY SumTable
  <1> QED
    BY <1>1 DEF Totals

LEMMA SumOfNone ==
    ASSUME NEW F
    PROVE  SumFunctionOnSet(F, {}) = 0
  <1>1. IsFiniteSet({}) /\ Numbers(F, {})
    BY FS_EmptySet DEF Numbers
  <1>2. PICK g : Totals(g, F, {})
    BY <1>1, SumTable
  <1>3. g[{}] = 0 /\ g[{}] = SumFunctionOnSet(F, {})
    BY <1>2 DEF Totals
  <1> QED
    BY <1>3

\* Whatever element is taken out first.
LEMMA SumOfRest ==
    ASSUME NEW S, IsFiniteSet(S), NEW F, Numbers(F, S)
    PROVE  \A s \in SUBSET S : \A x \in s :
              SumFunctionOnSet(F, s) = F[x] + SumFunctionOnSet(F, s \ {x})
  <1>1. PICK g : Totals(g, F, S)
    BY SumTable
  <1>2. \A s \in SUBSET S : Cardinality(s) \in Nat /\ IsFiniteSet(s)
    BY FS_Subset, FS_CardinalityType
  <1> DEFINE P == {n \in Nat : \A s \in SUBSET S : \A x \in s :
                      Cardinality(s) = n => g[s] = F[x] + g[s \ {x}]}
  <1>3. 0 \in P
    BY <1>2, FS_EmptySet
  <1>4. ASSUME NEW n \in P
        PROVE  n + 1 \in P
    <2> SUFFICES ASSUME NEW s \in SUBSET S, NEW x \in s, Cardinality(s) = n + 1
                 PROVE  g[s] = F[x] + g[s \ {x}]
      OBVIOUS
    <2> DEFINE y == Some(s)
    <2>1. y \in s
      BY DEF Some
    <2> HIDE DEF y
    <2>2. g[s] = F[y] + g[s \ {y}]
      BY <1>1 DEF y, Totals
    <2>3. CASE x = y
      BY <2>2, <2>3
    <2>4. CASE x # y
      <3>1. /\ x \in s \ {y} /\ y \in s \ {x}
            /\ Cardinality(s \ {x}) = n /\ Cardinality(s \ {y}) = n
        <4>1. n \in Nat /\ IsFiniteSet(s)
          BY <1>2
        <4>2. Cardinality(s \ {x}) = (n + 1) - 1 /\ Cardinality(s \ {y}) = (n + 1) - 1
          <5> HIDE DEF P
          <5>1. /\ x \in s /\ Cardinality(s \ {x}) = Cardinality(s) - 1
                /\ y \in s /\ Cardinality(s \ {y}) = Cardinality(s) - 1
            BY <2>1, <4>1, FS_RemoveElement
          <5> QED
            BY <5>1
        <4> QED
          BY <2>1, <2>4, <4>1, <4>2
      <3>2. /\ g[s \ {y}] = F[x] + g[(s \ {y}) \ {x}]
            /\ g[s \ {x}] = F[y] + g[(s \ {x}) \ {y}]
        BY <3>1
      <3>3. (s \ {y}) \ {x} = (s \ {x}) \ {y}
        OBVIOUS
      <3> DEFINE r == (s \ {x}) \ {y}
      <3>4. F[x] \in Int /\ F[y] \in Int /\ g[r] \in Int
        BY <1>1, <2>1 DEF Numbers, Totals
      <3>5. g[s] = F[y] + (F[x] + g[r]) /\ g[s \ {x}] = F[y] + g[r]
        BY <2>2, <3>2, <3>3
      <3> HIDE DEF P, r
      <3> QED
        BY <3>4, <3>5
    <2> QED
      BY <2>3, <2>4
  <1>5. P = Nat
    <2> HIDE DEF P
    <2>1. P \in SUBSET Nat
      BY DEF P
    <2> QED
      BY <1>3, <1>4, <2>1, CountingUp
  <1> QED
    BY <1>1, <1>2, <1>5 DEF Totals

\* Functions that agree on a set have the same sum over it.
LEMMA SumsAgree ==
    ASSUME NEW S, IsFiniteSet(S), NEW F, NEW G,
           Numbers(F, S), \A x \in S : G[x] = F[x]
    PROVE  SumFunctionOnSet(G, S) = SumFunctionOnSet(F, S)
  <1> DEFINE P == {n \in Nat : \A s \in SUBSET S :
                      Cardinality(s) = n => SumFunctionOnSet(G, s) = SumFunctionOnSet(F, s)}
  <1>1. \A s \in SUBSET S : Cardinality(s) \in Nat /\ IsFiniteSet(s)
    BY FS_Subset, FS_CardinalityType
  <1>2. 0 \in P
    BY <1>1, FS_EmptySet, SumOfNone
  <1>3. ASSUME NEW n \in P
        PROVE  n + 1 \in P
    <2> SUFFICES ASSUME NEW s \in SUBSET S, Cardinality(s) = n + 1
                 PROVE  SumFunctionOnSet(G, s) = SumFunctionOnSet(F, s)
      OBVIOUS
    <2>1. PICK x \in s : TRUE
      BY <1>1, FS_EmptySet
    <2>2. n \in Nat /\ Cardinality(s \ {x}) = n
      BY <1>1, <2>1, FS_RemoveElement
    <2>3. SumFunctionOnSet(G, s \ {x}) = SumFunctionOnSet(F, s \ {x})
      BY <2>2
    <2>4. Numbers(G, S)
      BY DEF Numbers
    <2>5. /\ SumFunctionOnSet(F, s) = F[x] + SumFunctionOnSet(F, s \ {x})
          /\ SumFunctionOnSet(G, s) = G[x] + SumFunctionOnSet(G, s \ {x})
      BY <2>1, <2>4, SumOfRest
    <2> QED
      BY <2>3, <2>5
  <1>4. P = Nat
    <2> HIDE DEF P
    <2>1. P \in SUBSET Nat
      BY DEF P
    <2> QED
      BY <1>2, <1>3, <2>1, CountingUp
  <1> QED
    BY <1>1, <1>4

LEMMA SumOfZeros ==
    ASSUME NEW S, IsFiniteSet(S), NEW F, \A x \in S : F[x] = 0
    PROVE  SumFunctionOnSet(F, S) = 0
  <1> DEFINE P == {n \in Nat : \A s \in SUBSET S :
                      Cardinality(s) = n => SumFunctionOnSet(F, s) = 0}
  <1>1. \A s \in SUBSET S : Cardinality(s) \in Nat /\ IsFiniteSet(s)
    BY FS_Subset, FS_CardinalityType
  <1>2. Numbers(F, S)
    BY DEF Numbers
  <1>3. 0 \in P
    BY <1>1, FS_EmptySet, SumOfNone
  <1>4. ASSUME NEW n \in P
        PROVE  n + 1 \in P
    <2> SUFFICES ASSUME NEW s \in SUBSET S, Cardinality(s) = n + 1
                 PROVE  SumFunctionOnSet(F, s) = 0
      OBVIOUS
    <2>1. PICK x \in s : TRUE
      BY <1>1, FS_EmptySet
    <2>2. Cardinality(s \ {x}) = n
      <3>1. n \in Nat /\ IsFiniteSet(s)
        BY <1>1
      <3>2. Cardinality(s \ {x}) = Cardinality(s) - 1
        BY <2>1, <3>1, FS_RemoveElement
      <3> HIDE DEF P
      <3> QED
        BY <3>1, <3>2
    <2>3. SumFunctionOnSet(F, s \ {x}) = 0
      BY <2>2
    <2>4. SumFunctionOnSet(F, s) = F[x] + SumFunctionOnSet(F, s \ {x})
      BY <1>2, <2>1, SumOfRest
    <2> QED
      BY <2>3, <2>4
  <1>5. P = Nat
    <2> HIDE DEF P
    <2>1. P \in SUBSET Nat
      BY DEF P
    <2> QED
      BY <1>3, <1>4, <2>1, CountingUp
  <1> QED
    BY <1>1, <1>5

\* A change at one place changes the sum by as much.
LEMMA SumChange ==
    ASSUME NEW S, IsFiniteSet(S), NEW F, NEW G, NEW x \in S,
           Numbers(F, S), G[x] \in Int, \A y \in S : y # x => G[y] = F[y]
    PROVE  SumFunctionOnSet(G, S) = SumFunctionOnSet(F, S) + G[x] - F[x]
  <1>1. Numbers(G, S) /\ F[x] \in Int
    BY DEF Numbers
  <1>2. /\ SumFunctionOnSet(F, S) = F[x] + SumFunctionOnSet(F, S \ {x})
        /\ SumFunctionOnSet(G, S) = G[x] + SumFunctionOnSet(G, S \ {x})
    BY <1>1, SumOfRest
  <1>3. SumFunctionOnSet(G, S \ {x}) = SumFunctionOnSet(F, S \ {x})
    <2>1. IsFiniteSet(S \ {x}) /\ Numbers(F, S \ {x})
      BY FS_RemoveElement DEF Numbers
    <2> QED
      BY <2>1, SumsAgree
  <1>4. SumFunctionOnSet(F, S \ {x}) \in Int
    BY SumType
  <1> QED
    BY <1>1, <1>2, <1>3, <1>4

\* A sum grows with its terms, and with the set it is taken over.
LEMMA SumGrows ==
    ASSUME NEW S, IsFiniteSet(S), NEW R \in SUBSET S, NEW F, NEW G,
           \A x \in S : G[x] \in Nat, \A x \in R : F[x] \in Nat /\ F[x] <= G[x]
    PROVE  SumFunctionOnSet(F, R) <= SumFunctionOnSet(G, S)
  <1> DEFINE P == {n \in Nat : \A s \in SUBSET S : Cardinality(s) = n =>
                      SumFunctionOnSet(F, R \cap s) <= SumFunctionOnSet(G, s)}
  <1>1. \A s \in SUBSET S : Cardinality(s) \in Nat /\ IsFiniteSet(s)
    BY FS_Subset, FS_CardinalityType
  <1>2. IsFiniteSet(R) /\ Numbers(F, R) /\ Numbers(G, S)
    BY <1>1 DEF Numbers
  <1>3. \A s \in SUBSET S : SumFunctionOnSet(G, s) \in Int
    BY <1>2, SumType
  <1>4. \A r \in SUBSET R : SumFunctionOnSet(F, r) \in Int
    BY <1>2, SumType
  <1>5. 0 \in P
    <2> SUFFICES ASSUME NEW s \in SUBSET S, Cardinality(s) = 0
                 PROVE  SumFunctionOnSet(F, R \cap s) <= SumFunctionOnSet(G, s)
      OBVIOUS
    <2>1. s = {} /\ R \cap s = {}
      BY <1>1, FS_EmptySet
    <2>2. SumFunctionOnSet(F, {}) = 0 /\ SumFunctionOnSet(G, {}) = 0
      BY SumOfNone
    <2> QED
      BY <2>1, <2>2
  <1>6. ASSUME NEW n \in P
        PROVE  n + 1 \in P
    <2> SUFFICES ASSUME NEW s \in SUBSET S, Cardinality(s) = n + 1
                 PROVE  SumFunctionOnSet(F, R \cap s) <= SumFunctionOnSet(G, s)
      OBVIOUS
    <2>1. PICK x \in s : TRUE
      BY <1>1, FS_EmptySet
    <2> DEFINE rest == s \ {x}
    <2>2. n \in Nat /\ Cardinality(rest) = n /\ rest \in SUBSET S
      <3>1. n \in Nat /\ IsFiniteSet(s)
        BY <1>1
      <3>2. Cardinality(rest) = Cardinality(s) - 1
        BY <2>1, <3>1, FS_RemoveElement
      <3> HIDE DEF P
      <3> QED
        BY <3>1, <3>2
    <2>3. SumFunctionOnSet(F, R \cap rest) <= SumFunctionOnSet(G, rest)
      BY <2>2
    <2>4. SumFunctionOnSet(G, s) = G[x] + SumFunctionOnSet(G, rest) /\ G[x] \in Nat
      BY <1>2, <2>1, SumOfRest
    <2>5. CASE x \in R
      <3>1. SumFunctionOnSet(F, R \cap s) = F[x] + SumFunctionOnSet(F, (R \cap s) \ {x})
        BY <1>2, <2>1, <2>5, SumOfRest
      <3>2. (R \cap s) \ {x} = R \cap rest
        OBVIOUS
      <3>3. F[x] \in Nat /\ F[x] <= G[x]
        BY <2>5
      <3>4. SumFunctionOnSet(F, R \cap rest) \in Int /\ SumFunctionOnSet(G, rest) \in Int
        BY <1>3, <1>4
      <3> HIDE DEF P, rest
      <3> QED
        BY <2>3, <2>4, <3>1, <3>2, <3>3, <3>4
    <2>6. CASE x \notin R
      <3>1. R \cap s = R \cap rest
        BY <2>6
      <3>2. SumFunctionOnSet(F, R \cap rest) \in Int /\ SumFunctionOnSet(G, rest) \in Int
        BY <1>3, <1>4
      <3> HIDE DEF P, rest
      <3> QED
        BY <2>3, <2>4, <3>1, <3>2
    <2> QED
      BY <2>5, <2>6
  <1>7. P = Nat
    <2> HIDE DEF P
    <2>1. P \in SUBSET Nat
      BY DEF P
    <2> QED
      BY <1>5, <1>6, <2>1, CountingUp
  <1>8. SumFunctionOnSet(F, R \cap S) <= SumFunctionOnSet(G, S)
    BY <1>1, <1>7
  <1>9. R \cap S = R
    OBVIOUS
  <1> QED
    BY <1>8, <1>9

=============================================================================
