-------------------------------- MODULE Sums --------------------------------
(* Sums over finite sets.  MapThenSumSet of the community modules adds up in *)
(* the order that CHOOSE takes the members; these lemmas say that the order  *)
(* does not matter.  The ledger of the leave balances and the tax, a sum     *)
(* over brackets, rest on them.                                              *)
EXTENDS Integers, FiniteSets, FiniteSetsExt, FiniteSetTheorems,
        WellFoundedInduction, TLAPS

\* The recursion MapThenSumSet unfolds to, for the weights W of the members.
Chosen(s) == CHOOSE x \in s : TRUE
Adds(W, S, f) ==
    f = [s \in SUBSET S |-> IF s = {} THEN 0 ELSE W[Chosen(s)] + f[s \ {Chosen(s)}]]
Adding(W, S) == CHOOSE f : Adds(W, S, f)
Total(W, S) == Adding(W, S)[S]

\* A nonempty family of subsets of a finite set has a smallest member.
LEMMA SmallestSubset ==
    ASSUME NEW S, IsFiniteSet(S), NEW T, T \subseteq SUBSET S, T # {}
    PROVE  \E t \in T : \A u \in T : u \subseteq t => u = t
<1>1. T \subseteq FiniteSubsetsOf(S)
  BY FS_FiniteSubsetsOfFinite
<1>2. IsWellFoundedOn(StrictSubsetOrdering(S), FiniteSubsetsOf(S))
  BY FS_StrictSubsetOrderingWellFounded
<1>3. PICK t \in T : \A u \in T : <<u, t>> \notin StrictSubsetOrdering(S)
  BY <1>1, <1>2, WFMin
<1> QED  BY <1>3 DEF StrictSubsetOrdering

\* A nonempty finite set of integers has a largest member.
LEMMA LargestNumber ==
    ASSUME NEW S, \A x \in S : x \in Int, IsFiniteSet(S), S # {}
    PROVE  \E i \in S : \A j \in S : j <= i
<1>1. PICK T : T = {{j \in S : j > i} : i \in S}
  OBVIOUS
<1>2. T \subseteq SUBSET S /\ T # {}
  BY <1>1
<1>3. PICK t \in T : \A u \in T : u \subseteq t => u = t
  BY <1>2, SmallestSubset
<1>4. PICK i \in S : t = {j \in S : j > i}
  BY <1>1, <1>3
<1>5. ASSUME NEW k \in S, k > i PROVE FALSE
  <2>1. PICK u : u = {j \in S : j > k}
    OBVIOUS
  <2>2. u \in T
    BY <1>1, <2>1
  <2>3. \A j \in S : j > k => j > i
    BY <1>4, <1>5
  <2>4. u \subseteq t /\ k \in t /\ k \notin u
    BY <1>4, <1>5, <2>1, <2>3
  <2> QED  BY <1>3, <2>2, <2>4
<1>6. \A j \in S : ~(j > i) => j <= i
  BY <1>4
<1> QED  BY <1>4, <1>5, <1>6

\* The member a sum takes next is one of the set.
LEMMA ChosenInside ==
    ASSUME NEW s, s # {}
    PROVE  Chosen(s) \in s
BY DEF Chosen

\* Two recursions agree on the sets whose members weigh the same in both.
LEMMA AddsAgree ==
    ASSUME NEW S, NEW T, NEW V, IsFiniteSet(V), V \subseteq S, V \subseteq T,
           NEW W, NEW X, \A x \in V : W[x] = X[x],
           NEW f, Adds(W, S, f), NEW g, Adds(X, T, g)
    PROVE  \A s \in SUBSET V : f[s] = g[s]
<1> DEFINE Bad == {s \in SUBSET V : f[s] # g[s]}
<1> SUFFICES ASSUME Bad # {} PROVE FALSE
  OBVIOUS
<1>1. PICK s \in Bad : \A u \in Bad : u \subseteq s => u = s
  <2>1. Bad \subseteq SUBSET V
    OBVIOUS
  <2> HIDE DEF Bad
  <2> QED  BY <2>1, SmallestSubset
<1>2. s \in SUBSET S /\ s \in SUBSET T
  OBVIOUS
<1>3. CASE s = {}
  BY <1>2, <1>3 DEF Adds
<1>4. CASE s # {}
  <2>1. Chosen(s) \in s /\ s \ {Chosen(s)} \in SUBSET V /\ s \ {Chosen(s)} # s
    BY <1>4, ChosenInside
  <2>2. f[s \ {Chosen(s)}] = g[s \ {Chosen(s)}]
    BY <1>1, <2>1
  <2>3. f[s] = W[Chosen(s)] + f[s \ {Chosen(s)}]
    BY <1>2, <1>4 DEF Adds
  <2>4. g[s] = X[Chosen(s)] + g[s \ {Chosen(s)}]
    BY <1>2, <1>4 DEF Adds
  <2>5. W[Chosen(s)] = X[Chosen(s)]
    BY <2>1
  <2> QED  BY <2>2, <2>3, <2>4, <2>5
<1> QED  BY <1>3, <1>4

\* The recursion for a set restricts to its subsets.
LEMMA AddsBelow ==
    ASSUME NEW S, NEW W, NEW f, Adds(W, S, f), NEW V \in SUBSET S
    PROVE  Adds(W, V, [s \in SUBSET V |-> f[s]])
<1> DEFINE g == [s \in SUBSET V |-> f[s]]
<1>1. ASSUME NEW s \in SUBSET V
      PROVE  g[s] = IF s = {} THEN 0 ELSE W[Chosen(s)] + g[s \ {Chosen(s)}]
  <2>1. s \in SUBSET S /\ s \ {Chosen(s)} \in SUBSET V
    OBVIOUS
  <2>2. f[s] = IF s = {} THEN 0 ELSE W[Chosen(s)] + f[s \ {Chosen(s)}]
    BY <2>1 DEF Adds
  <2> QED  BY <2>1, <2>2
<1> QED  BY <1>1 DEF Adds

\* The recursion has a solution on every finite set.
LEMMA AddingExists ==
    ASSUME NEW S, IsFiniteSet(S), NEW W
    PROVE  Adds(W, S, Adding(W, S))
<1> DEFINE Bad == {T \in SUBSET S : ~Adds(W, T, Adding(W, T))}
<1> SUFFICES ASSUME Bad # {} PROVE FALSE
  OBVIOUS
<1>1. PICK T \in Bad : \A U \in Bad : U \subseteq T => U = T
  <2>1. Bad \subseteq SUBSET S
    OBVIOUS
  <2> HIDE DEF Bad
  <2> QED  BY <2>1, SmallestSubset
<1>2. \A U \in SUBSET T : U # T => Adds(W, U, Adding(W, U)) /\ IsFiniteSet(U)
  BY <1>1, FS_Subset
<1> DEFINE f == [s \in SUBSET T |->
                   IF s = {} THEN 0 ELSE W[Chosen(s)] + Total(W, s \ {Chosen(s)})]
<1>3. ASSUME NEW U \in SUBSET T, U # T PROVE f[U] = Total(W, U)
  <2>1. Adds(W, U, Adding(W, U))
    BY <1>2, <1>3
  <2>2. CASE U = {}
    BY <2>1, <2>2 DEF Total, Adds
  <2>3. CASE U # {}
    <3> DEFINE V == U \ {Chosen(U)}
    <3>1. V \in SUBSET U /\ V \in SUBSET T /\ V # T
      BY <1>3
    <3>2. Total(W, U) = W[Chosen(U)] + Adding(W, U)[V]
      BY <2>1, <2>3 DEF Total, Adds
    <3>3. Adds(W, V, Adding(W, V)) /\ IsFiniteSet(V)
      BY <3>1, <1>2
    <3>4. Adding(W, U)[V] = Adding(W, V)[V]
      <4> HIDE DEF V
      <4>1. \A s \in SUBSET V : Adding(W, U)[s] = Adding(W, V)[s]
        BY <2>1, <3>1, <3>3, AddsAgree
      <4> QED  BY <4>1
    <3>5. f[U] = W[Chosen(U)] + Total(W, V)
      BY <2>3
    <3> QED  BY <3>2, <3>4, <3>5 DEF Total
  <2> QED  BY <2>2, <2>3
<1>4. Adds(W, T, f)
  <2>1. ASSUME NEW s \in SUBSET T
        PROVE  f[s] = IF s = {} THEN 0 ELSE W[Chosen(s)] + f[s \ {Chosen(s)}]
    <3>1. CASE s = {}
      BY <3>1
    <3>2. CASE s # {}
      <4>1. s \ {Chosen(s)} \in SUBSET T /\ s \ {Chosen(s)} # T
        BY <3>2, ChosenInside
      <4>2. f[s \ {Chosen(s)}] = Total(W, s \ {Chosen(s)})
        BY <4>1, <1>3
      <4>3. f[s] = W[Chosen(s)] + Total(W, s \ {Chosen(s)})
        BY <3>2
      <4> HIDE DEF f
      <4> QED  BY <3>2, <4>2, <4>3
    <3> QED  BY <3>1, <3>2
  <2> QED  BY <2>1 DEF Adds
<1>5. Adds(W, T, Adding(W, T))
  <2> HIDE DEF f
  <2> QED  BY <1>4 DEF Adding
<1> QED  BY <1>1, <1>5

\* An empty sum is 0.
LEMMA TotalOfNone == ASSUME NEW W PROVE Total(W, {}) = 0
<1>1. Adds(W, {}, Adding(W, {}))
  BY AddingExists, FS_EmptySet
<1> QED  BY <1>1 DEF Adds, Total

\* A sum is the weight of the chosen member and the sum of the others.
LEMMA TotalChosen ==
    ASSUME NEW S, IsFiniteSet(S), NEW W, S # {}
    PROVE  Total(W, S) = W[Chosen(S)] + Total(W, S \ {Chosen(S)})
<1> DEFINE V == S \ {Chosen(S)}
<1>1. Adds(W, S, Adding(W, S))
  BY AddingExists
<1>2. IsFiniteSet(V) /\ V \subseteq S
  BY FS_Subset
<1>3. Adds(W, V, Adding(W, V))
  BY <1>2, AddingExists
<1>4. Total(W, S) = W[Chosen(S)] + Adding(W, S)[V]
  BY <1>1 DEF Total, Adds
<1> HIDE DEF V
<1>5. \A s \in SUBSET V : Adding(W, S)[s] = Adding(W, V)[s]
  BY <1>1, <1>2, <1>3, AddsAgree
<1> QED  BY <1>4, <1>5 DEF Total, V

\* A sum reads the weights of its own members only.
LEMMA TotalAgrees ==
    ASSUME NEW S, IsFiniteSet(S), NEW W, NEW X, \A x \in S : W[x] = X[x]
    PROVE  Total(W, S) = Total(X, S)
<1>1. Adds(W, S, Adding(W, S)) /\ Adds(X, S, Adding(X, S))
  BY AddingExists
<1>2. \A s \in SUBSET S : Adding(W, S)[s] = Adding(X, S)[s]
  BY <1>1, AddsAgree
<1> QED  BY <1>2 DEF Total

\* A sum of integers is an integer.
LEMMA TotalType ==
    ASSUME NEW S, IsFiniteSet(S), NEW W, \A x \in S : W[x] \in Int
    PROVE  Total(W, S) \in Int
<1> DEFINE Bad == {T \in SUBSET S : Total(W, T) \notin Int}
<1> SUFFICES ASSUME Bad # {} PROVE FALSE
  OBVIOUS
<1>1. PICK T \in Bad : \A U \in Bad : U \subseteq T => U = T
  <2>1. Bad \subseteq SUBSET S
    OBVIOUS
  <2> HIDE DEF Bad
  <2> QED  BY <2>1, SmallestSubset
<1>2. IsFiniteSet(T)
  BY FS_Subset
<1>3. CASE T = {}
  BY <1>3, TotalOfNone
<1>4. CASE T # {}
  <2>1. Chosen(T) \in T /\ T \ {Chosen(T)} \in SUBSET S /\ T \ {Chosen(T)} # T
    BY <1>4, ChosenInside
  <2>2. Total(W, T \ {Chosen(T)}) \in Int /\ W[Chosen(T)] \in Int
    BY <1>1, <2>1
  <2> QED  BY <1>2, <1>4, <2>2, TotalChosen
<1> QED  BY <1>3, <1>4

\* Any member may be taken out of a sum first.
LEMMA TotalSplits ==
    ASSUME NEW S, IsFiniteSet(S), NEW W, \A x \in S : W[x] \in Int, NEW x \in S
    PROVE  Total(W, S) = W[x] + Total(W, S \ {x})
<1> DEFINE Bad == {T \in SUBSET S : \E y \in T : Total(W, T) # W[y] + Total(W, T \ {y})}
<1> SUFFICES ASSUME Bad # {} PROVE FALSE
  OBVIOUS
<1>1. PICK T \in Bad : \A U \in Bad : U \subseteq T => U = T
  <2>1. Bad \subseteq SUBSET S
    OBVIOUS
  <2> HIDE DEF Bad
  <2> QED  BY <2>1, SmallestSubset
<1>2. PICK y \in T : Total(W, T) # W[y] + Total(W, T \ {y})
  BY <1>1
<1> DEFINE c == Chosen(T)
           C == T \ {c}
           Y == T \ {y}
           B == C \ {y}
<1>3. c \in T /\ IsFiniteSet(T) /\ IsFiniteSet(Y)
  BY ChosenInside, FS_Subset
<1>4. Total(W, T) = W[c] + Total(W, C)
  BY <1>3, TotalChosen
<1>5. y # c
  BY <1>2, <1>4
<1>6. Total(W, C) = W[y] + Total(W, B)
  <2>1. y \in C /\ C # T /\ C \in SUBSET S /\ C \subseteq T
    BY <1>3, <1>5
  <2>2. C \notin Bad
    BY <1>1, <2>1
  <2> QED  BY <2>1, <2>2
<1>7. Total(W, Y) = W[c] + Total(W, B)
  <2>1. c \in Y /\ Y # T /\ Y \in SUBSET S /\ Y \subseteq T
    BY <1>3, <1>5
  <2>2. Y \notin Bad
    BY <1>1, <2>1
  <2>3. Total(W, Y) = W[c] + Total(W, Y \ {c})
    BY <2>1, <2>2
  <2>4. Y \ {c} = B
    OBVIOUS
  <2> QED  BY <2>3, <2>4
<1>8. W[c] \in Int /\ W[y] \in Int /\ Total(W, B) \in Int
  <2>1. B \in SUBSET S /\ IsFiniteSet(B)
    BY FS_Subset
  <2> HIDE DEF B
  <2>2. Total(W, B) \in Int
    BY <2>1, TotalType
  <2> QED  BY <1>3, <2>2
<1> HIDE DEF c, C, Y, B, Bad
<1>9. Total(W, T) = W[y] + Total(W, Y)
  BY <1>4, <1>6, <1>7, <1>8
<1> QED  BY <1>2, <1>9 DEF Y
\* Members that weigh nothing add nothing.
LEMMA TotalRest ==
    ASSUME NEW S, IsFiniteSet(S), NEW W, \A x \in S : W[x] \in Int,
           NEW V, V \subseteq S, \A x \in S \ V : W[x] = 0
    PROVE  Total(W, S) = Total(W, V)
<1> DEFINE Bad == {T \in SUBSET S : V \subseteq T /\ Total(W, T) # Total(W, V)}
<1> SUFFICES ASSUME Bad # {} PROVE FALSE
  OBVIOUS
<1>1. PICK T \in Bad : \A U \in Bad : U \subseteq T => U = T
  <2>1. Bad \subseteq SUBSET S
    OBVIOUS
  <2> HIDE DEF Bad
  <2> QED  BY <2>1, SmallestSubset
<1>2. PICK y \in T : y \notin V
  OBVIOUS
<1>3. T \ {y} \subseteq T /\ T \ {y} # T /\ T \ {y} \in SUBSET S /\ V \subseteq T \ {y}
  BY <1>2
<1>4. Total(W, T \ {y}) = Total(W, V)
  <2>1. T \ {y} \notin Bad
    BY <1>1, <1>3
  <2> QED  BY <1>3, <2>1
<1>5. IsFiniteSet(T) /\ IsFiniteSet(T \ {y}) /\ W[y] = 0
  BY <1>2, <1>3, FS_Subset
<1>6. Total(W, T) = W[y] + Total(W, T \ {y})
  BY <1>5, TotalSplits
<1>7. Total(W, T \ {y}) \in Int
  BY <1>3, <1>5, TotalType
<1>8. Total(W, T) = Total(W, V)
  BY <1>4, <1>5, <1>6, <1>7
<1> QED  BY <1>8

\* A sum of sums is the sum of their sums.
LEMMA TotalOfBoth ==
    ASSUME NEW S, IsFiniteSet(S), NEW W, NEW X, NEW Y,
           \A x \in S : W[x] \in Int /\ X[x] \in Int /\ Y[x] = W[x] + X[x]
    PROVE  Total(Y, S) = Total(W, S) + Total(X, S)
<1> DEFINE Bad == {T \in SUBSET S : Total(Y, T) # Total(W, T) + Total(X, T)}
<1> SUFFICES ASSUME Bad # {} PROVE FALSE
  OBVIOUS
<1>1. PICK T \in Bad : \A U \in Bad : U \subseteq T => U = T
  <2>1. Bad \subseteq SUBSET S
    OBVIOUS
  <2> HIDE DEF Bad
  <2> QED  BY <2>1, SmallestSubset
<1>2. CASE T = {}
  BY <1>2, TotalOfNone
<1>3. CASE T # {}
  <2>1. PICK y \in T : TRUE
    BY <1>3
  <2>2. PICK R : R = T \ {y}
    OBVIOUS
  <2>3. R \subseteq T /\ R # T /\ R \in SUBSET S /\ R \notin Bad
    BY <1>1, <2>1, <2>2
  <2>4. IsFiniteSet(T) /\ IsFiniteSet(R)
    BY <2>3, FS_Subset
  <2>5. \A x \in S : W[x] \in Int /\ X[x] \in Int /\ Y[x] \in Int
    OBVIOUS
  <2>6. /\ Total(W, T) = W[y] + Total(W, R) /\ Total(X, T) = X[y] + Total(X, R)
        /\ Total(Y, T) = Y[y] + Total(Y, R)
    BY <2>2, <2>4, <2>5, TotalSplits
  <2>7. Total(W, R) \in Int /\ Total(X, R) \in Int /\ Total(Y, R) = Total(W, R) + Total(X, R)
    BY <2>3, <2>4, <2>5, TotalType
  <2>8. Y[y] = W[y] + X[y] /\ W[y] \in Int /\ X[y] \in Int
    BY <2>5
  <2>9. Total(Y, T) = Total(W, T) + Total(X, T)
    BY <2>6, <2>7, <2>8
  <2> QED  BY <2>9
<1> QED  BY <1>2, <1>3

-----------------------------------------------------------------------------
(* Numbers *)

\* A nonempty set of natural numbers has a smallest member.
LEMMA SmallestNumber ==
    ASSUME NEW S, \A x \in S : x \in Nat, S # {}
    PROVE  \E i \in S : \A j \in S : i <= j
<1>1. PICK b \in S : TRUE
  OBVIOUS
<1>2. PICK T : T = {i \in S : i <= b}
  OBVIOUS
<1>3. b \in T /\ T \subseteq 0..b /\ b \in Nat
  BY <1>2
<1>4. IsFiniteSet(T)
  <2>1. IsFiniteSet(0..b)
    BY <1>3, FS_Interval
  <2> QED  BY <1>3, <2>1, FS_Subset
<1>5. PICK U : U = {{j \in T : j < i} : i \in T}
  OBVIOUS
<1>6. U \subseteq SUBSET T /\ U # {}
  BY <1>3, <1>5
<1>7. PICK u \in U : \A v \in U : v \subseteq u => v = u
  BY <1>4, <1>6, SmallestSubset
<1>8. PICK i \in T : u = {j \in T : j < i}
  BY <1>5, <1>7
<1>9. ASSUME NEW k \in T, k < i PROVE FALSE
  <2>1. PICK v : v = {j \in T : j < k}
    OBVIOUS
  <2>2. v \in U
    BY <1>5, <2>1
  <2>3. \A j \in T : j \in Nat
    BY <1>2
  <2>4. \A j \in T : j < k => j < i
    BY <1>9, <2>3
  <2>5. v \subseteq u /\ k \in u /\ k \notin v
    BY <1>8, <1>9, <2>1, <2>3, <2>4
  <2> QED  BY <1>7, <2>2, <2>5
<1>10. ASSUME NEW j \in S PROVE i <= j
  <2>1. j \in Nat /\ i \in Nat /\ i \in S /\ i <= b /\ b \in Nat
    BY <1>2
  <2>2. CASE j \in T
    BY <1>9, <2>1, <2>2
  <2>3. CASE j \notin T
    BY <1>2, <2>1, <2>3
  <2> QED  BY <2>2, <2>3
<1>11. i \in S
  BY <1>2
<1> QED  BY <1>10, <1>11

\* What rises by at most one for one more, rises by at most as much for more.
LEMMA SlowRise ==
    ASSUME NEW f, \A x \in Nat : f[x] \in Int /\ f[x + 1] - f[x] \in 0..1,
           NEW a \in Nat, NEW d \in Nat
    PROVE  f[a + d] - f[a] \in 0..d
<1> DEFINE Bad == {n \in Nat : ~(f[a + n] - f[a] \in 0..n)}
<1> SUFFICES ASSUME Bad # {} PROVE FALSE
  OBVIOUS
<1>1. PICK n \in Bad : \A m \in Bad : n <= m
  <2>1. \A x \in Bad : x \in Nat
    OBVIOUS
  <2> HIDE DEF Bad
  <2> QED  BY <2>1, SmallestNumber
<1>2. n # 0
  <2>1. a + 0 = a /\ f[a] \in Int
    OBVIOUS
  <2> QED  BY <1>1, <2>1
<1>3. PICK m \in Nat : n = m + 1
  <2>1. n \in Nat
    OBVIOUS
  <2>2. n - 1 \in Nat /\ n = (n - 1) + 1
    BY <1>2, <2>1
  <2> QED  BY <2>2
<1>4. m \notin Bad
  BY <1>1, <1>3
<1>5. f[a + m] - f[a] \in 0..m
  BY <1>4
<1>6. (a + m) + 1 = a + n /\ a + m \in Nat
  BY <1>3
<1>7. f[a + n] - f[a + m] \in 0..1 /\ f[a] \in Int /\ f[a + m] \in Int /\ f[a + n] \in Int
  <2>1. a + n \in Nat
    BY <1>3
  <2> QED  BY <1>6, <2>1
<1>8. f[a + n] - f[a] \in 0..n
  <2>1. PICK p, q, s : p = f[a] /\ q = f[a + m] /\ s = f[a + n]
    OBVIOUS
  <2> QED  BY <1>3, <1>5, <1>7, <2>1
<1> QED  BY <1>8

=============================================================================
