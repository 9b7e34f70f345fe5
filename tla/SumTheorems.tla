----------------------------- MODULE SumTheorems -----------------------------
(***************************************************************************)
(* What SumFunctionOnSet of the community module Functions computes over a *)
(* finite set: the facts the accounting proofs of the escrows cite.        *)
(*                                                                         *)
(* The sum is defined by recursion on subsets.  Induction is carried by    *)
(* WFMin, the minimal-counterexample form of well-founded induction,       *)
(* applied to strict inclusion among the subsets of a finite set.          *)
(***************************************************************************)
EXTENDS Integers, Functions, FiniteSetTheorems, WellFoundedInduction, TLAPS

Pick(s) == CHOOSE x \in s : TRUE

\* The recursive function inside SumFunctionOnSet.
Partial(f, S) ==
    CHOOSE g : g = [s \in SUBSET S |->
                      IF s = {} THEN 0 ELSE f[Pick(s)] + g[s \ {Pick(s)}]]

\* g gives the sum of f over every subset of S, whatever element is last.
IsTable(g, f, S) ==
    /\ g \in [SUBSET S -> Int]
    /\ g[{}] = 0
    /\ \A X \in SUBSET S : \A x \in X : g[X] = g[X \ {x}] + f[x]

\* Every nonempty collection of subsets of a finite set has a minimal member.
LEMMA MinimalSubset ==
    ASSUME NEW S, IsFiniteSet(S), NEW Bad, Bad \subseteq SUBSET S, Bad # {}
    PROVE  \E X \in Bad : \A Y \in Bad : ~(Y \subseteq X /\ Y # X)
<1>1. IsWellFoundedOn(StrictSubsetOrdering(S), FiniteSubsetsOf(S))
  BY FS_StrictSubsetOrderingWellFounded
<1>2. FiniteSubsetsOf(S) = SUBSET S
  BY FS_FiniteSubsetsOfFinite
<1>3. PICK X \in Bad : \A Y \in Bad : <<Y, X>> \notin StrictSubsetOrdering(S)
  BY <1>1, <1>2, WFMin
<1>4. QED
  BY <1>3 DEF StrictSubsetOrdering

\* A table exists: extend the table of X \ {x} by x.
LEMMA TableExists ==
    ASSUME NEW S, IsFiniteSet(S), NEW f, \A x \in S : f[x] \in Int
    PROVE  \E g : IsTable(g, f, S)
<1> DEFINE Bad == {X \in SUBSET S : ~ \E g : IsTable(g, f, X)}
<1>1. SUFFICES ASSUME Bad # {} PROVE FALSE
  OBVIOUS
<1>0. Bad \subseteq SUBSET S
  OBVIOUS
<1>2. PICK X \in Bad : \A Y \in Bad : ~(Y \subseteq X /\ Y # X)
  <2> HIDE DEF Bad
  <2> QED BY <1>0, <1>1, MinimalSubset
<1>3. CASE X = {}
  <2>1. IsTable([s \in SUBSET {} |-> 0], f, {})
    BY DEF IsTable
  <2> QED BY <2>1, <1>2, <1>3
<1>4. CASE X # {}
  <2>1. PICK x \in X : TRUE
    BY <1>4
  <2>2. PICK g : IsTable(g, f, X \ {x})
    BY <1>2, <2>1
  <2> DEFINE h == [Y \in SUBSET X |->
                     IF x \in Y THEN g[Y \ {x}] + f[x] ELSE g[Y]]
  <2>3. f[x] \in Int /\ X \subseteq S
    BY <1>2, <2>1
  <2>4. h \in [SUBSET X -> Int]
    <3> SUFFICES ASSUME NEW Y \in SUBSET X PROVE h[Y] \in Int
      OBVIOUS
    <3>1. CASE x \in Y
      <4>1. Y \ {x} \in SUBSET (X \ {x})
        OBVIOUS
      <4> QED BY <4>1, <3>1, <2>2, <2>3 DEF IsTable
    <3>2. CASE x \notin Y
      <4>1. Y \in SUBSET (X \ {x})
        BY <3>2
      <4> QED BY <4>1, <3>2, <2>2 DEF IsTable
    <3> QED BY <3>1, <3>2
  <2>5. h[{}] = 0
    BY <2>2 DEF IsTable
  <2>6. ASSUME NEW Y \in SUBSET X, NEW y \in Y
        PROVE  h[Y] = h[Y \ {y}] + f[y]
    <3> DEFINE Z == Y \ {y}
    <3>0. Z \in SUBSET X /\ f[y] \in Int
      BY <2>3
    <3>1. CASE x = y
      <4>1. h[Z] = g[Z] /\ h[Y] = g[Z] + f[x]
        BY <3>1, <3>0
      <4> QED BY <4>1, <3>1
    <3>2. CASE x # y /\ x \in Y
      <4> DEFINE W == Y \ {x}
      <4>1. W \in SUBSET (X \ {x}) /\ y \in W /\ W \ {y} = Z \ {x} /\ W \ {y} \in SUBSET (X \ {x})
        BY <3>2
      <4>2. g[W] = g[W \ {y}] + f[y] /\ g[W \ {y}] \in Int
        BY <4>1, <2>2 DEF IsTable
      <4>3. h[Y] = g[W] + f[x] /\ h[Z] = g[Z \ {x}] + f[x]
        BY <3>2, <3>0
      <4>4. W \ {y} = Z \ {x}
        BY <4>1
      <4> HIDE DEF h, W, Z
      <4>5. h[Y] = (g[W \ {y}] + f[y]) + f[x] /\ h[Z] = g[W \ {y}] + f[x]
        BY <4>2, <4>3, <4>4
      <4>6. h[Y] = h[Z] + f[y]
        BY <4>2, <4>5, <3>0, <2>3
      <4> QED BY <4>6 DEF Z
    <3>3. CASE x \notin Y
      <4>1. Y \in SUBSET (X \ {x}) /\ Z \in SUBSET (X \ {x})
        BY <3>3
      <4>2. g[Y] = g[Z] + f[y]
        BY <4>1, <2>2 DEF IsTable
      <4>3. h[Y] = g[Y] /\ h[Z] = g[Z]
        BY <3>3, <3>0
      <4> QED BY <4>2, <4>3
    <3> QED BY <3>1, <3>2, <3>3
  <2>7. IsTable(h, f, X)
    BY <2>4, <2>5, <2>6 DEF IsTable
  <2> QED BY <2>7, <1>2
<1> QED BY <1>3, <1>4

\* The recursive function of the definition is that table.
LEMMA PartialIsTable ==
    ASSUME NEW S, IsFiniteSet(S), NEW f, \A x \in S : f[x] \in Int,
           NEW g, IsTable(g, f, S)
    PROVE  Partial(f, S) = g
<1> DEFINE Rec(k) == k = [s \in SUBSET S |->
                            IF s = {} THEN 0 ELSE f[Pick(s)] + k[s \ {Pick(s)}]]
<1>0. ASSUME NEW s \in SUBSET S, s # {}
      PROVE  Pick(s) \in s /\ f[Pick(s)] \in Int /\ s \ {Pick(s)} \in SUBSET S
  BY <1>0 DEF Pick
<1>1. Rec(g)
  <2>1. g = [s \in SUBSET S |-> g[s]]
    BY DEF IsTable
  <2>2. ASSUME NEW s \in SUBSET S
        PROVE  g[s] = IF s = {} THEN 0 ELSE f[Pick(s)] + g[s \ {Pick(s)}]
    <3>1. CASE s = {}
      BY <3>1 DEF IsTable
    <3>2. CASE s # {}
      <4>1. g[s] = g[s \ {Pick(s)}] + f[Pick(s)]
        BY <3>2, <1>0 DEF IsTable
      <4>2. g[s \ {Pick(s)}] \in Int
        BY <3>2, <1>0 DEF IsTable
      <4> QED BY <4>1, <4>2, <3>2, <1>0
    <3> QED BY <3>1, <3>2
  <2> QED BY <2>1, <2>2
<1>2. Rec(Partial(f, S))
  BY <1>1 DEF Partial
<1> DEFINE k == Partial(f, S)
           Bad == {X \in SUBSET S : k[X] # g[X]}
<1>3. Bad = {}
  <2> SUFFICES ASSUME Bad # {} PROVE FALSE
    OBVIOUS
  <2>0. Bad \subseteq SUBSET S
    OBVIOUS
  <2>1. PICK X \in Bad : \A Y \in Bad : ~(Y \subseteq X /\ Y # X)
    <3> HIDE DEF Bad
    <3> QED BY <2>0, MinimalSubset
  <2> HIDE DEF k
  <2>2. k[X] = IF X = {} THEN 0 ELSE f[Pick(X)] + k[X \ {Pick(X)}]
    BY <1>2 DEF k
  <2>3. g[X] = IF X = {} THEN 0 ELSE f[Pick(X)] + g[X \ {Pick(X)}]
    BY <1>1
  <2>4. X # {} => k[X \ {Pick(X)}] = g[X \ {Pick(X)}]
    BY <2>1, <1>0
  <2> QED BY <2>1, <2>2, <2>3, <2>4
<1>4. k = [s \in SUBSET S |-> k[s]]
  BY <1>2
<1>5. g = [s \in SUBSET S |-> g[s]]
  BY DEF IsTable
<1> HIDE DEF k
<1>6. \A s \in SUBSET S : k[s] = g[s]
  BY <1>3
<1>7. k = g
  BY <1>4, <1>5, <1>6
<1> QED BY <1>7 DEF k

\* The library sum is the recursive function Partial at the whole set.
LEMMA SumUnfold ==
    ASSUME NEW f, NEW S
    PROVE  SumFunctionOnSet(f, S) = Partial(f, S)[S]
BY DEF SumFunctionOnSet, FoldFunctionOnSet, MapThenFoldSet, Partial, Pick

\* The sum over every subset of S is read off a table that satisfies IsTable.
LEMMA SumIsTable ==
    ASSUME NEW S, IsFiniteSet(S), NEW f, \A x \in S : f[x] \in Int,
           NEW g, IsTable(g, f, S)
    PROVE  SumFunctionOnSet(f, S) = g[S]
BY SumUnfold, PartialIsTable

-----------------------------------------------------------------------------

\* The sum of integers is an integer.
THEOREM SumType ==
    ASSUME NEW S, IsFiniteSet(S), NEW f, \A x \in S : f[x] \in Int
    PROVE  SumFunctionOnSet(f, S) \in Int
<1>1. PICK g : IsTable(g, f, S)
  BY TableExists
<1>2. SumFunctionOnSet(f, S) = g[S]
  BY <1>1, SumIsTable
<1> QED BY <1>1, <1>2 DEF IsTable

\* Taking one element out of the index set takes its value off the sum.
THEOREM SumRemove ==
    ASSUME NEW S, IsFiniteSet(S), NEW f, \A x \in S : f[x] \in Int, NEW x \in S
    PROVE  SumFunctionOnSet(f, S) = SumFunctionOnSet(f, S \ {x}) + f[x]
<1>1. PICK g : IsTable(g, f, S)
  BY TableExists
<1> DEFINE T == S \ {x}
           h == [X \in SUBSET T |-> g[X]]
<1>2. IsFiniteSet(T)
  BY FS_Subset
<1>3. IsTable(h, f, T)
  BY <1>1 DEF IsTable
<1>4. SumFunctionOnSet(f, T) = h[T]
  BY <1>2, <1>3, SumIsTable
<1>5. SumFunctionOnSet(f, S) = g[S]
  BY <1>1, SumIsTable
<1> QED BY <1>1, <1>4, <1>5 DEF IsTable

\* The sum depends only on the values at the indices.
THEOREM SumSame ==
    ASSUME NEW S, IsFiniteSet(S), NEW f, NEW g,
           \A x \in S : f[x] \in Int /\ g[x] = f[x]
    PROVE  SumFunctionOnSet(g, S) = SumFunctionOnSet(f, S)
<1>1. PICK h : IsTable(h, f, S)
  BY TableExists
<1>2. IsTable(h, g, S)
  BY <1>1 DEF IsTable
<1> QED BY <1>1, <1>2, SumIsTable

\* Changing the value at one index changes the sum by the difference.
THEOREM SumUpdate ==
    ASSUME NEW S, IsFiniteSet(S), NEW f, NEW g, NEW x \in S,
           \A y \in S : f[y] \in Int /\ g[y] \in Int,
           \A y \in S \ {x} : g[y] = f[y]
    PROVE  SumFunctionOnSet(g, S) = SumFunctionOnSet(f, S) - f[x] + g[x]
<1> DEFINE T == S \ {x}
<1>1. IsFiniteSet(T)
  BY FS_Subset
<1>2. SumFunctionOnSet(g, T) = SumFunctionOnSet(f, T)
  BY <1>1, SumSame
<1>3. SumFunctionOnSet(f, T) \in Int
  BY <1>1, SumType
<1>4. SumFunctionOnSet(f, S) = SumFunctionOnSet(f, T) + f[x]
  BY SumRemove
<1>5. SumFunctionOnSet(g, S) = SumFunctionOnSet(g, T) + g[x]
  BY SumRemove
<1> QED BY <1>2, <1>3, <1>4, <1>5

\* A sum of zeroes is zero.
THEOREM SumZero ==
    ASSUME NEW S, IsFiniteSet(S), NEW f, \A x \in S : f[x] = 0
    PROVE  SumFunctionOnSet(f, S) = 0
<1>1. IsTable([X \in SUBSET S |-> 0], f, S)
  BY DEF IsTable
<1> QED BY <1>1, SumIsTable

\* A sum of naturals is a natural, and no element exceeds it.
THEOREM SumNat ==
    ASSUME NEW S, IsFiniteSet(S), NEW f, \A x \in S : f[x] \in Nat
    PROVE  /\ SumFunctionOnSet(f, S) \in Nat
           /\ \A x \in S : f[x] <= SumFunctionOnSet(f, S)
<1> DEFINE Bad == {X \in SUBSET S : SumFunctionOnSet(f, X) \notin Nat}
<1>1. ASSUME NEW X \in SUBSET S PROVE IsFiniteSet(X) /\ \A x \in X : f[x] \in Int
  BY FS_Subset
<1>2. Bad = {}
  <2> SUFFICES ASSUME Bad # {} PROVE FALSE
    OBVIOUS
  <2>0. Bad \subseteq SUBSET S
    OBVIOUS
  <2>1. PICK X \in Bad : \A Y \in Bad : ~(Y \subseteq X /\ Y # X)
    <3> HIDE DEF Bad
    <3> QED BY <2>0, MinimalSubset
  <2>2. CASE X = {}
    <3>1. SumFunctionOnSet(f, X) = 0
      BY <2>2, <1>1, SumZero
    <3> QED BY <3>1
  <2>3. CASE X # {}
    <3>1. PICK x \in X : TRUE
      BY <2>3
    <3>2. SumFunctionOnSet(f, X \ {x}) \in Nat
      BY <2>1, <3>1
    <3>3. SumFunctionOnSet(f, X) = SumFunctionOnSet(f, X \ {x}) + f[x]
      BY <1>1, <3>1, SumRemove
    <3> QED BY <3>2, <3>3
  <2> QED BY <2>2, <2>3
<1>3. ASSUME NEW x \in S PROVE f[x] <= SumFunctionOnSet(f, S)
  <2>1. SumFunctionOnSet(f, S) = SumFunctionOnSet(f, S \ {x}) + f[x]
    BY SumRemove
  <2>2. SumFunctionOnSet(f, S \ {x}) \in Nat
    BY <1>2
  <2> QED BY <2>1, <2>2
<1> QED BY <1>2, <1>3

\* A function that is zero everywhere but at x sums to its value at x: what a
\* refunded lone creator and a paid winner leave in a room's credits.
THEOREM SumOne ==
    ASSUME NEW S, IsFiniteSet(S), NEW f, NEW x \in S, f[x] \in Int,
           \A y \in S \ {x} : f[y] = 0
    PROVE  SumFunctionOnSet(f, S) = f[x]
<1> DEFINE zero == [y \in S |-> 0]
<1>1. SumFunctionOnSet(zero, S) = 0
  BY SumZero
<1>2. SumFunctionOnSet(f, S) = SumFunctionOnSet(zero, S) - zero[x] + f[x]
  <2>1. \A y \in S : zero[y] \in Int /\ f[y] \in Int
    OBVIOUS
  <2>2. \A y \in S \ {x} : f[y] = zero[y]
    OBVIOUS
  <2> HIDE DEF zero
  <2> QED BY <2>1, <2>2, SumUpdate
<1> QED BY <1>1, <1>2

\* The same at two indices: the credits of two refunded players.
THEOREM SumTwo ==
    ASSUME NEW S, IsFiniteSet(S), NEW f, NEW x \in S, NEW z \in S, x # z,
           f[x] \in Int, f[z] \in Int, \A y \in S \ {x, z} : f[y] = 0
    PROVE  SumFunctionOnSet(f, S) = f[x] + f[z]
<1> DEFINE one == [y \in S |-> IF y = x THEN f[x] ELSE 0]
<1>1. SumFunctionOnSet(one, S) = one[x]
  <2>1. one[x] \in Int /\ \A y \in S \ {x} : one[y] = 0
    OBVIOUS
  <2> HIDE DEF one
  <2> QED BY <2>1, SumOne
<1>2. SumFunctionOnSet(f, S) = SumFunctionOnSet(one, S) - one[z] + f[z]
  <2>1. \A y \in S : one[y] \in Int /\ f[y] \in Int
    OBVIOUS
  <2>2. \A y \in S \ {z} : f[y] = one[y]
    OBVIOUS
  <2> HIDE DEF one
  <2> QED BY <2>1, <2>2, SumUpdate
<1> QED BY <1>1, <1>2
-----------------------------------------------------------------------------
(* Sums of several functions: what dividing a pool by ranks relies on. *)

\* The sum of a pointwise sum.
THEOREM SumPlus ==
    ASSUME NEW S, IsFiniteSet(S), NEW f, NEW g, NEW h,
           \A x \in S : f[x] \in Int /\ g[x] \in Int /\ h[x] = f[x] + g[x]
    PROVE  SumFunctionOnSet(h, S) = SumFunctionOnSet(f, S) + SumFunctionOnSet(g, S)
<1> DEFINE F(X) == SumFunctionOnSet(f, X)
           G(X) == SumFunctionOnSet(g, X)
           H(X) == SumFunctionOnSet(h, X)
           Bad == {X \in SUBSET S : H(X) # F(X) + G(X)}
<1>1. Bad = {}
  <2> SUFFICES ASSUME Bad # {} PROVE FALSE
    OBVIOUS
  <2>0. Bad \subseteq SUBSET S
    OBVIOUS
  <2>1. PICK X \in Bad : \A Y \in Bad : ~(Y \subseteq X /\ Y # X)
    <3> HIDE DEF Bad
    <3> QED BY <2>0, MinimalSubset
  <2>2. IsFiniteSet(X) /\ \A x \in X : f[x] \in Int /\ g[x] \in Int /\ h[x] \in Int
    BY FS_Subset
  <2>3. CASE X = {}
    <3>1. F(X) = 0 /\ G(X) = 0 /\ H(X) = 0
      BY <2>2, <2>3, SumZero
    <3> QED BY <3>1
  <2>4. CASE X # {}
    <3>1. PICK x \in X : TRUE
      BY <2>4
    <3>2. H(X \ {x}) = F(X \ {x}) + G(X \ {x})
      BY <2>1, <3>1
    <3>3. F(X) = F(X \ {x}) + f[x] /\ G(X) = G(X \ {x}) + g[x] /\ H(X) = H(X \ {x}) + h[x]
      BY <2>2, SumRemove
    <3>4. IsFiniteSet(X \ {x})
      BY <2>2, FS_Subset
    <3>5. F(X \ {x}) \in Int /\ G(X \ {x}) \in Int
      BY <2>2, <3>4, SumType
    <3>6. h[x] = f[x] + g[x] /\ f[x] \in Int /\ g[x] \in Int
      OBVIOUS
    <3>7. H(X) = F(X) + G(X)
      <4> HIDE DEF F, G, H
      <4> QED BY <3>2, <3>3, <3>5, <3>6
    <3> QED BY <3>7
  <2> QED BY <2>3, <2>4
<1> QED BY <1>1

\* A bound on every value, scaled by the same factors, bounds the sums.
THEOREM SumScaled ==
    ASSUME NEW S, IsFiniteSet(S), NEW f, NEW g, NEW d \in Nat, NEW n \in Nat,
           \A x \in S : f[x] \in Nat /\ g[x] \in Nat /\ d * f[x] <= n * g[x]
    PROVE  d * SumFunctionOnSet(f, S) <= n * SumFunctionOnSet(g, S)
<1> DEFINE F(X) == SumFunctionOnSet(f, X)
           G(X) == SumFunctionOnSet(g, X)
           Bad == {X \in SUBSET S : ~(d * F(X) <= n * G(X))}
<1>1. Bad = {}
  <2> SUFFICES ASSUME Bad # {} PROVE FALSE
    OBVIOUS
  <2>0. Bad \subseteq SUBSET S
    OBVIOUS
  <2>1. PICK X \in Bad : \A Y \in Bad : ~(Y \subseteq X /\ Y # X)
    <3> HIDE DEF Bad
    <3> QED BY <2>0, MinimalSubset
  <2>2. IsFiniteSet(X) /\ \A x \in X : f[x] \in Nat /\ g[x] \in Nat
    BY FS_Subset
  <2>3. CASE X = {}
    <3>1. F(X) = 0 /\ G(X) = 0
      BY <2>2, <2>3, SumZero
    <3> QED BY <3>1
  <2>4. CASE X # {}
    <3>1. PICK x \in X : TRUE
      BY <2>4
    <3>2. d * F(X \ {x}) <= n * G(X \ {x})
      BY <2>1, <3>1
    <3>3. F(X) = F(X \ {x}) + f[x] /\ G(X) = G(X \ {x}) + g[x]
      BY <2>2, SumRemove
    <3>4. IsFiniteSet(X \ {x})
      BY <2>2, FS_Subset
    <3>5. F(X \ {x}) \in Nat /\ G(X \ {x}) \in Nat
      BY <2>2, <3>4, SumNat
    <3>6. d * f[x] <= n * g[x] /\ f[x] \in Nat /\ g[x] \in Nat
      OBVIOUS
    <3>7. d * F(X) <= n * G(X)
      <4> HIDE DEF F, G
      <4>1. ASSUME NEW a \in Nat, NEW b \in Nat, NEW u \in Nat, NEW v \in Nat,
                   d * a <= n * b, d * u <= n * v
            PROVE  d * (a + u) <= n * (b + v)
        <5>1. d * (a + u) = d * a + d * u /\ n * (b + v) = n * b + n * v
          OBVIOUS
        <5> QED BY <5>1, <4>1
      <4> QED BY <3>2, <3>3, <3>5, <3>6, <4>1
    <3> QED BY <3>7
  <2> QED BY <2>3, <2>4
<1> QED BY <1>1

\* Summing first over the indices that w sends to each a, then over all a, is
\* summing over all indices.
THEOREM SumFibres ==
    ASSUME NEW S, IsFiniteSet(S), NEW A, IsFiniteSet(A), NEW f, NEW w,
           \A x \in S : f[x] \in Int /\ w[x] \in A
    PROVE  SumFunctionOnSet([a \in A |->
               SumFunctionOnSet(f, {x \in S : w[x] = a})], A) = SumFunctionOnSet(f, S)
<1> DEFINE Fibre(X, a) == {x \in X : w[x] = a}
           c(X) == [a \in A |-> SumFunctionOnSet(f, Fibre(X, a))]
           Bad == {X \in SUBSET S :
                     SumFunctionOnSet(c(X), A) # SumFunctionOnSet(f, X)}
<1>1. Bad = {}
  <2> SUFFICES ASSUME Bad # {} PROVE FALSE
    OBVIOUS
  <2>0. Bad \subseteq SUBSET S
    OBVIOUS
  <2>1. PICK X \in Bad : \A Y \in Bad : ~(Y \subseteq X /\ Y # X)
    <3> HIDE DEF Bad
    <3> QED BY <2>0, MinimalSubset
  <2>2. ASSUME NEW Y \in SUBSET X, NEW a \in A
        PROVE  /\ IsFiniteSet(Fibre(Y, a))
               /\ \A x \in Fibre(Y, a) : f[x] \in Int
    <3>1. Fibre(Y, a) \subseteq S
      OBVIOUS
    <3> QED BY <3>1, FS_Subset
  <2>3. ASSUME NEW Y \in SUBSET X
        PROVE  /\ \A a \in A : c(Y)[a] \in Int
               /\ SumFunctionOnSet(c(Y), A) \in Int
    <3>1. \A a \in A : c(Y)[a] \in Int
      BY <2>2, SumType
    <3> HIDE DEF c
    <3> QED BY <3>1, SumType
  <2>4. IsFiniteSet(X) /\ \A x \in X : f[x] \in Int
    BY FS_Subset
  <2>5. CASE X = {}
    <3>1. \A a \in A : Fibre(X, a) = {}
      BY <2>5
    <3>2. \A a \in A : c(X)[a] = 0
      BY <3>1, SumZero, FS_EmptySet
    <3>3. SumFunctionOnSet(c(X), A) = 0
      <4> HIDE DEF c
      <4> QED BY <3>2, SumZero
    <3>4. SumFunctionOnSet(f, X) = 0
      BY <2>4, <2>5, SumZero
    <3> QED BY <3>3, <3>4
  <2>6. CASE X # {}
    <3>1. PICK y \in X : TRUE
      BY <2>6
    <3> DEFINE Y == X \ {y}
               b == w[y]
    <3>2. b \in A /\ f[y] \in Int /\ Y \in SUBSET X /\ Y # X /\ Y \subseteq S
      OBVIOUS
    <3>3. SumFunctionOnSet(c(Y), A) = SumFunctionOnSet(f, Y)
      BY <2>1, <3>2
    <3>4. c(X)[b] = c(Y)[b] + f[y]
      <4>1. Fibre(Y, b) = Fibre(X, b) \ {y} /\ y \in Fibre(X, b)
        OBVIOUS
      <4>2. IsFiniteSet(Fibre(X, b)) /\ \A x \in Fibre(X, b) : f[x] \in Int
        BY <2>2, <3>2
      <4> HIDE DEF Fibre, b, Y
      <4>3. SumFunctionOnSet(f, Fibre(X, b))
               = SumFunctionOnSet(f, Fibre(X, b) \ {y}) + f[y]
        BY <4>1, <4>2, SumRemove
      <4> QED BY <3>2, <4>1, <4>3
    <3>5. \A a \in A \ {b} : c(X)[a] = c(Y)[a]
      <4>1. ASSUME NEW a \in A \ {b} PROVE Fibre(X, a) = Fibre(Y, a)
        OBVIOUS
      <4> HIDE DEF Fibre, b, Y
      <4> QED BY <4>1
    <3>6. \A a \in A : c(X)[a] \in Int /\ c(Y)[a] \in Int
      BY <2>3, <3>2
    <3>7. SumFunctionOnSet(c(X), A) = SumFunctionOnSet(c(Y), A) - c(Y)[b] + c(X)[b]
      <4> DEFINE k == c(X)
                 l == c(Y)
      <4>1. /\ \A a \in A : l[a] \in Int /\ k[a] \in Int
            /\ \A a \in A \ {b} : k[a] = l[a]
        BY <3>5, <3>6
      <4> HIDE DEF k, l, b
      <4>2. SumFunctionOnSet(k, A) = SumFunctionOnSet(l, A) - l[b] + k[b]
        BY <3>2, <4>1, SumUpdate
      <4> QED BY <4>2 DEF k, l
    <3>8. SumFunctionOnSet(f, X) = SumFunctionOnSet(f, Y) + f[y]
      BY <2>4, SumRemove
    <3>9. SumFunctionOnSet(c(Y), A) \in Int
      BY <2>3, <3>2
    <3>10. SumFunctionOnSet(c(X), A) = SumFunctionOnSet(f, X)
      <4> HIDE DEF c, b, Y
      <4> QED BY <3>2, <3>3, <3>4, <3>6, <3>7, <3>8, <3>9
    <3> QED BY <3>10
  <2> QED BY <2>5, <2>6
<1> QED BY <1>1
=============================================================================
