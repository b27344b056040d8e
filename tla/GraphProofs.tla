----------------------------- MODULE GraphProofs -----------------------------
(***************************************************************************)
(* What holds of every control-flow graph, and of a protected effect on it. *)
(* The first half is about the loops the definitions are built from:        *)
(* induction on the natural numbers, with the property given as the set of  *)
(* numbers that have it, sets that grow until they are closed, loops that   *)
(* end at a fixed point.  The prover can cite these lemmas for any set      *)
(* expression; the graphs of contracts are treated with them, too.          *)
(***************************************************************************)
EXTENDS Dominance, Integrity, FiniteSetTheorems, SequenceTheorems, WellFoundedInduction, TLAPS

\* A set of natural numbers that is not empty has a least one.
LEMMA LeastNatural ==
    ASSUME NEW T \in SUBSET Nat, T # {}
    PROVE  \E m \in T : \A n \in T : m <= n
<1> DEFINE R == OpToRel(<, Nat)
<1>1. IsWellFoundedOn(R, Nat)
  BY NatLessThanWellFounded
<1>2. \A m, n \in Nat : <<m, n>> \in R <=> m < n
  BY DEF OpToRel
<1> HIDE DEF R
<1>3. PICK m \in T : \A n \in T : <<n, m>> \notin R
  BY <1>1, WFMin
<1>4. ASSUME NEW n \in T PROVE m <= n
  <2>1. m \in Nat /\ n \in Nat /\ <<n, m>> \notin R
    BY <1>3
  <2> QED BY <2>1, <1>2
<1> QED BY <1>4

\* A set that contains 0, and with every number the next, contains all of them.
LEMMA NaturalInduction ==
    ASSUME NEW T, 0 \in T, \A n \in Nat : n \in T => n + 1 \in T
    PROVE  Nat \subseteq T
<1> SUFFICES ASSUME Nat \ T # {} PROVE FALSE
  OBVIOUS
<1>1. PICK m \in Nat \ T : \A n \in Nat \ T : m <= n
  BY LeastNatural
<1>2. m # 0 /\ m - 1 \in Nat
  BY <1>1
<1>3. m - 1 \in T
  BY <1>1, <1>2
<1> QED BY <1>1, <1>2, <1>3

\* The same, of the numbers up to a bound.
LEMMA BoundedInduction ==
    ASSUME NEW T, NEW N \in Nat, 0 \in T, \A n \in 0..N : n \in T /\ n < N => n + 1 \in T
    PROVE  0..N \subseteq T
<1> DEFINE U == {n \in Nat : n <= N => n \in T}
<1>1. 0 \in U
  OBVIOUS
<1>2. \A n \in Nat : n \in U => n + 1 \in U
  OBVIOUS
<1> HIDE DEF U
<1>3. Nat \subseteq U
  BY <1>1, <1>2, NaturalInduction
<1> QED BY <1>3 DEF U

\* Every number whose predecessors are all in a set is in it: then all numbers are.
LEMMA StrongInduction ==
    ASSUME NEW T, \A n \in Nat : (\A m \in Nat : m < n => m \in T) => n \in T
    PROVE  Nat \subseteq T
<1> SUFFICES ASSUME Nat \ T # {} PROVE FALSE
  OBVIOUS
<1>1. PICK m \in Nat \ T : \A n \in Nat \ T : m <= n
  BY LeastNatural
<1>2. \A n \in Nat : n < m => n \in T
  BY <1>1
<1> QED BY <1>1, <1>2
-----------------------------------------------------------------------------
(* Sets that grow *)

\* A chain of subsets of a finite set that grows at every step until it is closed is
\* closed after as many steps as the set has elements.
LEMMA GrowingCloses ==
    ASSUME NEW S, IsFiniteSet(S), NEW Within, NEW Closed,
           \A n \in 0..Cardinality(S) : Within[n] \subseteq S,
           \A n \in 1..Cardinality(S) :
                /\ Within[n - 1] \subseteq Within[n]
                /\ Within[n - 1] = Within[n] => n - 1 \in Closed
                /\ n - 1 \in Closed => n \in Closed,
           Within[Cardinality(S)] = S => Cardinality(S) \in Closed
    PROVE  Cardinality(S) \in Closed
<1> DEFINE N == Cardinality(S)
           T == {n \in Nat : n <= N => n \in Closed \/ Cardinality(Within[n]) >= n}
<1>0. N \in Nat
  BY FS_CardinalityType
<1>1. \A n \in 0..N : IsFiniteSet(Within[n]) /\ Cardinality(Within[n]) \in Nat
  BY FS_Subset, FS_CardinalityType
<1> HIDE DEF N
<1>2. 0 \in T
  BY <1>0, <1>1
<1>3. ASSUME NEW n \in Nat, n \in T, n + 1 <= N PROVE n + 1 \in T
  <2>1. CASE n \in Closed
    <3>1. n + 1 \in 1..N /\ (n + 1) - 1 = n
      BY <1>0, <1>3
    <3>2. n + 1 \in Closed
      BY <2>1, <3>1 DEF N
    <3> QED BY <3>2
  <2>2. CASE n \notin Closed
    <3>1. n \in 0..N /\ n + 1 \in 0..N /\ n + 1 \in 1..N /\ (n + 1) - 1 = n
      BY <1>0, <1>3
    <3>2. Within[n] \subseteq Within[n + 1] /\ Within[n] # Within[n + 1]
      BY <2>2, <3>1 DEF N
    <3>3. /\ Cardinality(Within[n]) <= Cardinality(Within[n + 1])
          /\ Cardinality(Within[n]) # Cardinality(Within[n + 1])
      BY <1>1, <3>1, <3>2, FS_Subset
    <3>4. Cardinality(Within[n]) >= n
      BY <1>0, <1>3, <2>2
    <3> QED BY <1>1, <3>1, <3>3, <3>4
  <2> QED BY <2>1, <2>2
<1>4. \A n \in Nat : n \in T => n + 1 \in T
  BY <1>3, <1>0
<1> HIDE DEF T
<1>5. N \in T
  BY <1>0, <1>2, <1>4, NaturalInduction
<1>6. N \in Closed \/ Cardinality(Within[N]) >= N
  BY <1>0, <1>5 DEF T
<1>7. ASSUME Cardinality(Within[N]) >= N PROVE Within[N] = S
  <2>1. Within[N] \subseteq S /\ Cardinality(Within[N]) <= N
    BY <1>0, FS_Subset DEF N
  <2>2. Cardinality(Within[N]) = Cardinality(S)
    BY <1>0, <1>1, <1>7, <2>1 DEF N
  <2> QED BY <2>1, <2>2, FS_Subset
<1> QED BY <1>6, <1>7 DEF N
-----------------------------------------------------------------------------
(* Recursive functions on 0..N: one that satisfies its equations exists *)

Iterations(X, N, a, f) ==
    {W \in [0..N -> X] : W[0] = a /\ \A n \in 1..N : W[n] = f[W[n - 1]]}

LEMMA IterationExists ==
    ASSUME NEW X, NEW N \in Nat, NEW a \in X, NEW f \in [X -> X]
    PROVE  Iterations(X, N, a, f) # {}
<1> DEFINE Good(k, W) == W[0] = a /\ \A n \in 1..k : W[n] = f[W[n - 1]]
           T == {k \in Nat : \E W \in [0..k -> X] : Good(k, W)}
<1>1. 0 \in T
  <2>1. [n \in 0..0 |-> a] \in [0..0 -> X] /\ Good(0, [n \in 0..0 |-> a])
    OBVIOUS
  <2> QED BY <2>1
<1>2. ASSUME NEW k \in Nat, k \in T PROVE k + 1 \in T
  <2>1. PICK W \in [0..k -> X] : Good(k, W)
    BY <1>2
  <2> DEFINE V == [n \in 0..(k + 1) |-> IF n = k + 1 THEN f[W[k]] ELSE W[n]]
  <2>2. V \in [0..(k + 1) -> X]
    <3>1. \A n \in 0..(k + 1) : n # k + 1 => n \in 0..k
      BY <1>2
    <3>2. k \in 0..k
      BY <1>2
    <3> QED BY <3>1, <3>2
  <2>3. ASSUME NEW n \in 1..(k + 1) PROVE V[n] = f[V[n - 1]]
    <3>1. n - 1 \in 0..k /\ V[n - 1] = W[n - 1]
      BY <1>2
    <3>2. CASE n = k + 1
      BY <1>2, <3>1, <3>2
    <3>3. CASE n # k + 1
      <4>1. n \in 1..k /\ V[n] = W[n]
        BY <1>2, <3>3
      <4> QED BY <2>1, <3>1, <4>1
    <3> QED BY <3>2, <3>3
  <2>4. V[0] = a
    BY <1>2, <2>1
  <2>5. Good(k + 1, V)
    BY <2>3, <2>4
  <2> HIDE DEF V, Good
  <2> QED BY <1>2, <2>2, <2>5
<1> HIDE DEF T, Good
<1>3. N \in T
  BY <1>1, <1>2, NaturalInduction
<1>4. \E W \in [0..N -> X] : Good(N, W)
  BY <1>3 DEF T
<1> QED BY <1>4 DEF Good, Iterations
-----------------------------------------------------------------------------
(* Loops: while f changes x, replace x by f[x] *)

IsLoop(loop, X, f) == loop = [x \in X |-> IF f[x] = x THEN x ELSE loop[f[x]]]

\* What the iterations from x come to.
Ends(X, f, x) == {y \in X : f[y] = y /\ \E n \in Nat : \E W \in Iterations(X, n, x, f) : W[n] = y}

LEMMA EndsOfFixedPoint ==
    ASSUME NEW X, NEW f \in [X -> X], NEW x \in X, f[x] = x
    PROVE  Ends(X, f, x) = {x}
<1>1. x \in Ends(X, f, x)
  <2>1. [n \in 0..0 |-> x] \in Iterations(X, 0, x, f) /\ [n \in 0..0 |-> x][0] = x
    BY DEF Iterations
  <2> QED BY <2>1 DEF Ends
<1>2. ASSUME NEW n \in Nat, NEW W \in Iterations(X, n, x, f) PROVE W[n] = x
  <2> DEFINE T == {k \in 0..n : W[k] = x}
  <2>1. 0 \in T
    BY DEF Iterations
  <2>2. ASSUME NEW k \in 0..n, k \in T, k < n PROVE k + 1 \in T
    <3>1. k + 1 \in 1..n /\ (k + 1) - 1 = k
      BY <2>2
    <3> QED BY <2>2, <3>1 DEF Iterations
  <2>3. \A k \in 0..n : k \in T /\ k < n => k + 1 \in T
    BY <2>2
  <2> HIDE DEF T
  <2>4. 0..n \subseteq T
    BY <2>1, <2>3, BoundedInduction
  <2> QED BY <2>4 DEF T
<1> QED BY <1>1, <1>2 DEF Ends

LEMMA EndsOfStep ==
    ASSUME NEW X, NEW f \in [X -> X], NEW x \in X, f[x] # x
    PROVE  Ends(X, f, x) = Ends(X, f, f[x])
<1>1. ASSUME NEW y \in Ends(X, f, x) PROVE y \in Ends(X, f, f[x])
  <2>1. PICK n \in Nat : \E W \in Iterations(X, n, x, f) : W[n] = y
    BY DEF Ends
  <2> PICK W \in Iterations(X, n, x, f) : W[n] = y
    BY <2>1
  <2>2. n # 0
    BY <2>1 DEF Ends, Iterations
  <2> DEFINE V == [k \in 0..(n - 1) |-> W[k + 1]]
  <2>3. n - 1 \in Nat /\ 1 \in 1..n /\ 1 - 1 = 0
    BY <2>2
  <2>4. V \in [0..(n - 1) -> X]
    BY <2>2 DEF Iterations
  <2>5. V[0] = f[x]
    BY <2>3 DEF Iterations
  <2>6. ASSUME NEW k \in 1..(n - 1) PROVE V[k] = f[V[k - 1]]
    <3>1. k + 1 \in 1..n /\ (k + 1) - 1 = k /\ k - 1 \in 0..(n - 1) /\ (k - 1) + 1 = k
      BY <2>2
    <3> QED BY <3>1 DEF Iterations
  <2>7. V[n - 1] = y
    BY <2>1, <2>2
  <2> HIDE DEF V
  <2>8. V \in Iterations(X, n - 1, f[x], f)
    BY <2>4, <2>5, <2>6 DEF Iterations
  <2> QED BY <2>3, <2>7, <2>8 DEF Ends
<1>2. ASSUME NEW y \in Ends(X, f, f[x]) PROVE y \in Ends(X, f, x)
  <2>1. PICK n \in Nat : \E W \in Iterations(X, n, f[x], f) : W[n] = y
    BY DEF Ends
  <2> PICK W \in Iterations(X, n, f[x], f) : W[n] = y
    BY <2>1
  <2> DEFINE V == [k \in 0..(n + 1) |-> IF k = 0 THEN x ELSE W[k - 1]]
  <2>2. V \in [0..(n + 1) -> X]
    <3>1. \A k \in 0..(n + 1) : k # 0 => k - 1 \in 0..n
      OBVIOUS
    <3> QED BY <3>1 DEF Iterations
  <2>3. ASSUME NEW k \in 1..(n + 1) PROVE V[k] = f[V[k - 1]]
    <3>1. CASE k = 1
      BY <3>1 DEF Iterations
    <3>2. CASE k # 1
      <4>1. k - 1 \in 1..n /\ V[k] = W[k - 1] /\ V[k - 1] = W[(k - 1) - 1]
        BY <3>2
      <4> QED BY <4>1 DEF Iterations
    <3> QED BY <3>1, <3>2
  <2>4. V[0] = x /\ V[n + 1] = y /\ n + 1 \in Nat
    BY <2>1
  <2> HIDE DEF V
  <2>5. V \in Iterations(X, n + 1, x, f)
    BY <2>2, <2>3, <2>4 DEF Iterations
  <2> QED BY <2>4, <2>5 DEF Ends
<1> QED BY <1>1, <1>2

\* There is a function that satisfies the equation of a loop, whether it ends or not.
LEMMA LoopExists ==
    ASSUME NEW X, NEW f \in [X -> X]
    PROVE  \E loop : IsLoop(loop, X, f)
<1> DEFINE E == [x \in X |-> Ends(X, f, x)]
           R == [x \in X |-> CHOOSE y : y \in E[x]]
<1>1. ASSUME NEW x \in X, f[x] = x PROVE R[x] = x
  <2>1. E[x] = {x}
    BY <1>1, EndsOfFixedPoint
  <2> QED BY <2>1
<1>2. ASSUME NEW x \in X, f[x] # x PROVE R[x] = R[f[x]]
  <2>1. E[x] = E[f[x]]
    BY <1>2, EndsOfStep
  <2>2. R[x] = CHOOSE y : y \in E[x]
    OBVIOUS
  <2>3. R[f[x]] = CHOOSE y : y \in E[f[x]]
    OBVIOUS
  <2> HIDE DEF E, R
  <2> QED BY <2>1, <2>2, <2>3
<1>3. R = [x \in X |-> R[x]]
  OBVIOUS
<1> HIDE DEF R
<1>4. IsLoop(R, X, f)
  BY <1>1, <1>2, <1>3 DEF IsLoop
<1> QED BY <1>4

\* A loop whose iterations come to a fixed point returns it.
LEMMA LoopReturns ==
    ASSUME NEW X, NEW f \in [X -> X], NEW loop, IsLoop(loop, X, f), NEW a \in X,
           NEW N \in Nat, NEW W \in Iterations(X, N, a, f), f[W[N]] = W[N]
    PROVE  loop[a] = W[N]
<1> DEFINE T == {n \in 0..N : loop[W[N - n]] = W[N]}
<1>0. W \in [0..N -> X] /\ W[0] = a /\ \A n \in 1..N : W[n] = f[W[n - 1]]
  BY DEF Iterations
<1>1. 0 \in T
  BY <1>0 DEF IsLoop
<1>2. ASSUME NEW n \in 0..N, n \in T, n < N PROVE n + 1 \in T
  <2> DEFINE k == N - (n + 1)
  <2>1. k \in 0..N /\ k + 1 \in 1..N /\ (k + 1) - 1 = k /\ N - n = k + 1
    BY <1>2
  <2>2. W[k] \in X /\ f[W[k]] = W[k + 1]
    BY <1>0, <2>1
  <2>3. loop[W[k + 1]] = W[N]
    BY <1>2, <2>1
  <2>4. loop[W[k]] = IF f[W[k]] = W[k] THEN W[k] ELSE loop[f[W[k]]]
    BY <2>2 DEF IsLoop
  <2>5. CASE f[W[k]] = W[k]
    BY <2>2, <2>3, <2>5, <1>2
  <2>6. CASE f[W[k]] # W[k]
    BY <2>2, <2>3, <2>4, <2>6, <1>2
  <2> QED BY <2>5, <2>6
<1>3. \A n \in 0..N : n \in T /\ n < N => n + 1 \in T
  BY <1>2
<1> HIDE DEF T
<1>4. N \in T
  BY <1>1, <1>3, BoundedInduction
<1>5. loop[W[N - N]] = W[N] /\ N - N = 0
  BY <1>4 DEF T
<1> QED BY <1>0, <1>5
-----------------------------------------------------------------------------
(* Reachability *)

\* P is left by no edge.
ClosedUnder(edges, P) == \A e \in edges : e.from \in P => e.to \in P

LEMMA EndsAreFinite ==
    ASSUME NEW edges, IsFiniteSet(edges)
    PROVE  IsFiniteSet({e.to : e \in edges}) /\ IsFiniteSet(Reversed(edges))
<1> DEFINE to == [e \in edges |-> e.to]
           reversed == [e \in edges |-> [from |-> e.to, to |-> e.from]]
<1>1. to \in Surjection(edges, {e.to : e \in edges})
  BY DEF Surjection
<1>2. reversed \in Surjection(edges, Reversed(edges))
  BY DEF Surjection, Reversed
<1> HIDE DEF to, reversed
<1> QED BY <1>1, <1>2, FS_Surjection

\* Closure is the least set that has S and is left by no edge.
LEMMA ClosureIsLeast ==
    ASSUME NEW edges, IsFiniteSet(edges), NEW S, IsFiniteSet(S)
    PROVE  /\ S \subseteq Closure(edges, S)
           /\ Closure(edges, S) \subseteq S \cup {e.to : e \in edges}
           /\ ClosedUnder(edges, Closure(edges, S))
           /\ \A P : S \subseteq P /\ ClosedUnder(edges, P) => Closure(edges, S) \subseteq P
<1> DEFINE M == S \cup {e.to : e \in edges}
           X == SUBSET M
           f == [T \in X |-> Successors(edges, T)]
           N == Cardinality(M)
           grown == CHOOSE loop : loop = [T \in X |->
                        LET next == Successors(edges, T) IN IF next = T THEN T ELSE loop[next]]
<1>1. IsFiniteSet(M) /\ N \in Nat
  <2>1. IsFiniteSet({e.to : e \in edges})
    BY EndsAreFinite
  <2> QED BY <2>1, FS_Union, FS_CardinalityType
<1>2. f \in [X -> X] /\ S \in X /\ \A T \in X : f[T] = Successors(edges, T)
  BY DEF Successors
<1>3. Closure(edges, S) = grown[S]
  BY DEF Closure
<1> HIDE DEF N, f
<1>4. IsLoop(grown, X, f)
  <2> DEFINE Good(loop) == loop = [T \in X |->
                LET next == Successors(edges, T) IN IF next = T THEN T ELSE loop[next]]
  <2>1. PICK loop : IsLoop(loop, X, f)
    BY <1>2, LoopExists
  <2>2. Good(loop)
    BY <1>2, <2>1 DEF IsLoop
  <2>3. Good(grown)
    <3> HIDE DEF Good
    <3>1. Good(CHOOSE g : Good(g))
      BY <2>2
    <3> QED BY <3>1 DEF Good
  <2> HIDE DEF grown
  <2> QED BY <1>2, <2>3 DEF IsLoop
<1> HIDE DEF grown
<1>5. PICK W : W \in Iterations(X, N, S, f)
  <2> HIDE DEF X
  <2> QED BY <1>1, <1>2, IterationExists
<1>6. W \in [0..N -> X] /\ W[0] = S
  BY <1>5 DEF Iterations
<1>7. ASSUME NEW n \in 1..N PROVE n - 1 \in 0..N /\ W[n] = Successors(edges, W[n - 1])
  BY <1>1, <1>2, <1>5, <1>6 DEF Iterations
<1> DEFINE Closed == {n \in 0..N : Successors(edges, W[n]) = W[n]}
<1>8. N \in Closed
  <2>1. \A n \in 0..N : W[n] \subseteq M
    BY <1>6
  <2>2. \A n \in 1..N : /\ W[n - 1] \subseteq W[n]
                        /\ W[n - 1] = W[n] => n - 1 \in Closed
                        /\ n - 1 \in Closed => n \in Closed
    BY <1>7 DEF Successors
  <2>3. W[N] = M => N \in Closed
    BY <1>1 DEF Successors
  <2> HIDE DEF Closed, M
  <2> QED BY <1>1, <2>1, <2>2, <2>3, GrowingCloses DEF N
<1>9. Successors(edges, W[N]) = W[N] /\ W[N] \in X
  BY <1>1, <1>6, <1>8
<1>10. Closure(edges, S) = W[N]
  BY <1>1, <1>2, <1>3, <1>4, <1>5, <1>9, LoopReturns
<1>11. S \subseteq W[N]
  <2> DEFINE T == {n \in 0..N : S \subseteq W[n]}
  <2>1. 0 \in T
    BY <1>1, <1>6
  <2>2. \A n \in 0..N : n \in T /\ n < N => n + 1 \in T
    <3> SUFFICES ASSUME NEW n \in 0..N, n \in T, n < N PROVE n + 1 \in T
      OBVIOUS
    <3>1. n + 1 \in 1..N /\ (n + 1) - 1 = n
      BY <1>1
    <3> QED BY <1>7, <3>1 DEF Successors
  <2> HIDE DEF T
  <2>3. N \in T
    BY <1>1, <2>1, <2>2, BoundedInduction
  <2> QED BY <2>3 DEF T
<1>12. ASSUME NEW P, S \subseteq P, ClosedUnder(edges, P) PROVE W[N] \subseteq P
  <2> DEFINE T == {n \in 0..N : W[n] \subseteq P}
  <2>1. 0 \in T
    BY <1>1, <1>6, <1>12
  <2>2. \A n \in 0..N : n \in T /\ n < N => n + 1 \in T
    <3> SUFFICES ASSUME NEW n \in 0..N, n \in T, n < N PROVE n + 1 \in T
      OBVIOUS
    <3>1. n + 1 \in 1..N /\ (n + 1) - 1 = n
      BY <1>1
    <3> QED BY <1>7, <1>12, <3>1 DEF Successors, ClosedUnder
  <2> HIDE DEF T
  <2>3. N \in T
    BY <1>1, <2>1, <2>2, BoundedInduction
  <2> QED BY <2>3 DEF T
<1>13. ClosedUnder(edges, W[N])
  BY <1>9 DEF ClosedUnder, Successors
<1> QED BY <1>9, <1>10, <1>11, <1>12, <1>13

LEMMA ClosureWithin ==
    ASSUME NEW edges, IsFiniteSet(edges), NEW a, NEW P, a \in P, ClosedUnder(edges, P)
    PROVE  Closure(edges, {a}) \subseteq P
<1>1. IsFiniteSet({a}) /\ {a} \subseteq P
  BY FS_Singleton
<1> QED BY <1>1, ClosureIsLeast

LEMMA ClosureFrom ==
    ASSUME NEW edges, IsFiniteSet(edges), NEW a
    PROVE  /\ a \in Closure(edges, {a})
           /\ Closure(edges, {a}) \subseteq {a} \cup {e.to : e \in edges}
           /\ ClosedUnder(edges, Closure(edges, {a}))
<1>1. IsFiniteSet({a})
  BY FS_Singleton
<1> QED BY <1>1, ClosureIsLeast

\* A node reaches another over the reversed edges just if the other reaches it.
LEMMA ReversedReaches ==
    ASSUME NEW edges, IsFiniteSet(edges), NEW a, NEW b
    PROVE  a \in Closure(Reversed(edges), {b}) <=> b \in Closure(edges, {a})
<1>0. IsFiniteSet(Reversed(edges))
  BY EndsAreFinite
<1>1. ASSUME a \in Closure(Reversed(edges), {b}) PROVE b \in Closure(edges, {a})
  <2> DEFINE P == {x \in {b} \cup {e.to : e \in Reversed(edges)} : b \in Closure(edges, {x})}
  <2>1. b \in P
    BY ClosureFrom
  <2>2. ASSUME NEW r \in Reversed(edges), r.from \in P PROVE r.to \in P
    <3>1. PICK e \in edges : r = [from |-> e.to, to |-> e.from]
      BY DEF Reversed
    <3>2. b \in Closure(edges, {e.to})
      BY <2>2, <3>1
    <3>3. e.from \in Closure(edges, {e.from}) /\ ClosedUnder(edges, Closure(edges, {e.from}))
      BY ClosureFrom
    <3>4. e.to \in Closure(edges, {e.from})
      BY <3>3 DEF ClosedUnder
    <3>5. Closure(edges, {e.to}) \subseteq Closure(edges, {e.from})
      BY <3>3, <3>4, ClosureWithin
    <3> QED BY <3>1, <3>2, <3>5
  <2>3. ClosedUnder(Reversed(edges), P)
    BY <2>2 DEF ClosedUnder
  <2> HIDE DEF P
  <2>4. a \in P
    BY <1>0, <1>1, <2>1, <2>3, ClosureWithin
  <2> QED BY <2>4 DEF P
<1>2. ASSUME b \in Closure(edges, {a}) PROVE a \in Closure(Reversed(edges), {b})
  <2> DEFINE P == {x \in {a} \cup {e.to : e \in edges} : a \in Closure(Reversed(edges), {x})}
  <2>1. a \in P
    BY <1>0, ClosureFrom
  <2>2. ASSUME NEW e \in edges, e.from \in P PROVE e.to \in P
    <3> DEFINE r == [from |-> e.to, to |-> e.from]
               C == Closure(Reversed(edges), {e.to})
    <3>1. r \in Reversed(edges) /\ r.from = e.to /\ r.to = e.from
      BY DEF Reversed
    <3>2. e.to \in C /\ ClosedUnder(Reversed(edges), C)
      BY <1>0, ClosureFrom
    <3>3. e.from \in C
      BY <3>1, <3>2 DEF ClosedUnder
    <3> HIDE DEF C
    <3>4. Closure(Reversed(edges), {e.from}) \subseteq C
      BY <1>0, <3>2, <3>3, ClosureWithin
    <3> QED BY <2>2, <3>4 DEF C
  <2>3. ClosedUnder(edges, P)
    BY <2>2 DEF ClosedUnder
  <2> HIDE DEF P
  <2>4. b \in P
    BY <1>2, <2>1, <2>3, ClosureWithin
  <2> QED BY <2>4 DEF P
<1> QED BY <1>1, <1>2
-----------------------------------------------------------------------------
(* Walks *)

\* A sequence of edges that leads from a to b.
IsWalk(edges, w, a, b) ==
    /\ w \in Seq(edges)
    /\ IF w = <<>> THEN a = b ELSE w[1].from = a /\ w[Len(w)].to = b
    /\ \A i \in 1..(Len(w) - 1) : w[i].to = w[i + 1].from

Visited(a, w) == {a} \cup {w[i].to : i \in DOMAIN w}

LEMMA EmptyWalk ==
    ASSUME NEW edges, NEW a
    PROVE  IsWalk(edges, <<>>, a, a) /\ Visited(a, <<>>) = {a}
BY DEF IsWalk, Visited

LEMMA WalkExtends ==
    ASSUME NEW edges, NEW a, NEW b, NEW w, IsWalk(edges, w, a, b), NEW e \in edges, e.from = b
    PROVE  /\ IsWalk(edges, Append(w, e), a, e.to)
           /\ Visited(a, Append(w, e)) = Visited(a, w) \cup {e.to}
<1> DEFINE v == Append(w, e)
<1>1. w \in Seq(edges) /\ Len(w) \in Nat /\ DOMAIN w = 1..Len(w)
  BY DEF IsWalk
<1>2. /\ v \in Seq(edges) /\ v # <<>> /\ Len(v) = Len(w) + 1 /\ DOMAIN v = 1..(Len(w) + 1)
      /\ v[Len(w) + 1] = e /\ \A i \in 1..Len(w) : v[i] = w[i]
  BY <1>1
<1> HIDE DEF v
<1>3. v[1].from = a
  <2>1. CASE w = <<>>
    <3>1. Len(w) + 1 = 1 /\ a = b
      BY <2>1 DEF IsWalk
    <3> QED BY <1>2, <3>1
  <2>2. CASE w # <<>>
    <3>1. 1 \in 1..Len(w) /\ w[1].from = a
      BY <1>1, <2>2 DEF IsWalk
    <3> QED BY <1>2, <3>1
  <2> QED BY <2>1, <2>2
<1>4. ASSUME NEW i \in 1..(Len(v) - 1) PROVE v[i].to = v[i + 1].from
  <2>1. CASE i = Len(w)
    <3>1. w # <<>> /\ i \in 1..Len(w)
      BY <1>1, <1>2, <2>1
    <3>2. w[i].to = b
      BY <2>1, <3>1 DEF IsWalk
    <3> QED BY <1>2, <2>1, <3>1, <3>2
  <2>2. CASE i # Len(w)
    <3>0. Len(w) \in Nat /\ Len(v) - 1 = Len(w)
      BY <1>1, <1>2
    <3>1. i \in 1..(Len(w) - 1) /\ i \in 1..Len(w) /\ i + 1 \in 1..Len(w)
      BY <2>2, <3>0
    <3>2. w[i].to = w[i + 1].from
      BY <3>1 DEF IsWalk
    <3> QED BY <1>2, <3>1, <3>2
  <2> QED BY <2>1, <2>2
<1>5. IsWalk(edges, v, a, e.to)
  BY <1>2, <1>3, <1>4 DEF IsWalk
<1>6. Visited(a, v) = Visited(a, w) \cup {e.to}
  <2>1. ASSUME NEW x \in Visited(a, v) PROVE x \in Visited(a, w) \cup {e.to}
    BY <1>1, <1>2 DEF Visited
  <2>2. ASSUME NEW x \in Visited(a, w) \cup {e.to} PROVE x \in Visited(a, v)
    <3>1. CASE x = a
      BY <3>1 DEF Visited
    <3>2. CASE x = e.to
      <4>1. Len(w) + 1 \in DOMAIN v
        BY <1>1, <1>2
      <4> QED BY <1>2, <3>2, <4>1 DEF Visited
    <3>3. ASSUME NEW i \in DOMAIN w, x = w[i].to PROVE x \in Visited(a, v)
      <4>1. i \in DOMAIN v /\ v[i] = w[i]
        BY <1>1, <1>2
      <4> QED BY <3>3, <4>1 DEF Visited
    <3> QED BY <2>2, <3>1, <3>2, <3>3 DEF Visited
  <2> QED BY <2>1, <2>2
<1> QED BY <1>5, <1>6 DEF v

LEMMA WalkShortens ==
    ASSUME NEW edges, NEW a, NEW b, NEW w, IsWalk(edges, w, a, b), w # <<>>
    PROVE  \E v : \E e \in edges :
              /\ IsWalk(edges, v, a, e.from) /\ e.to = b /\ w = Append(v, e)
              /\ Len(w) = Len(v) + 1
<1> DEFINE n == Len(w) - 1
           v == SubSeq(w, 1, n)
<1>1. w \in Seq(edges) /\ n \in Nat /\ Len(w) = n + 1 /\ DOMAIN w = 1..(n + 1)
  BY DEF IsWalk
<1>2. v \in Seq(edges) /\ Len(v) = n /\ DOMAIN v = 1..n /\ \A i \in 1..n : v[i] = w[i]
  BY <1>1
<1>3. w = Append(v, w[n + 1]) /\ w[n + 1] \in edges
  <2>1. w[n + 1] \in edges
    BY <1>1, ElementOfSeq
  <2>2. Append(v, w[n + 1]) \in Seq(edges) /\ Len(Append(v, w[n + 1])) = n + 1
    BY <1>2, <2>1
  <2>3. \A i \in 1..(n + 1) : w[i] = Append(v, w[n + 1])[i]
    <3> SUFFICES ASSUME NEW i \in 1..(n + 1) PROVE w[i] = Append(v, w[n + 1])[i]
      OBVIOUS
    <3>1. CASE i = n + 1
      BY <1>2, <2>1, <3>1
    <3>2. CASE i # n + 1
      <4>1. i \in 1..n
        <5>1. n \in Nat
          BY <1>1
        <5> HIDE DEF n
        <5> QED BY <3>2, <5>1
      <4> QED BY <1>2, <2>1, <4>1
    <3> QED BY <3>1, <3>2
  <2> HIDE DEF v, n
  <2> QED BY <1>1, <2>1, <2>2, <2>3, SeqEqual
<1> HIDE DEF v
<1>4. w[n + 1].to = b
  BY <1>1 DEF IsWalk
<1>5. IsWalk(edges, v, a, w[n + 1].from)
  <2>1. ASSUME NEW i \in 1..(Len(v) - 1) PROVE v[i].to = v[i + 1].from
    <3>1. i \in 1..(Len(w) - 1) /\ i \in 1..n /\ i + 1 \in 1..n
      BY <1>1, <1>2
    <3>2. w[i].to = w[i + 1].from
      BY <3>1 DEF IsWalk
    <3> QED BY <1>2, <3>1, <3>2
  <2>2. CASE v = <<>>
    <3>1. n = 0
      BY <1>1, <1>2, <2>2
    <3>2. w[1].from = a
      BY DEF IsWalk
    <3> HIDE DEF n
    <3>3. w[n + 1].from = a
      <4>1. n + 1 = 1
        BY <3>1
      <4> QED BY <3>2, <4>1
    <3> QED BY <1>2, <2>1, <2>2, <3>3 DEF IsWalk
  <2>3. CASE v # <<>>
    <3>1. n # 0 /\ 1 \in 1..n /\ n \in 1..n /\ n \in 1..(Len(w) - 1)
      BY <1>1, <1>2, <2>3
    <3>2. v[1].from = a /\ v[Len(v)].to = w[n].to
      BY <1>2, <3>1 DEF IsWalk
    <3>3. w[n].to = w[n + 1].from
      BY <3>1 DEF IsWalk
    <3> QED BY <1>2, <2>1, <2>3, <3>2, <3>3 DEF IsWalk
  <2> QED BY <2>2, <2>3
<1> QED BY <1>1, <1>2, <1>3, <1>4, <1>5

\* A walk stays in a set it begins in and that is left by no edge.
LEMMA WalkStays ==
    ASSUME NEW edges, NEW P, ClosedUnder(edges, P),
           NEW a \in P, NEW b, NEW w, IsWalk(edges, w, a, b)
    PROVE  b \in P /\ Visited(a, w) \subseteq P
<1> DEFINE T == {n \in Nat : \A x, y : IsWalk(edges, x, a, y) /\ Len(x) = n =>
                                          y \in P /\ Visited(a, x) \subseteq P}
<1>1. 0 \in T
  <2> SUFFICES ASSUME NEW x, NEW y, IsWalk(edges, x, a, y), Len(x) = 0
               PROVE  y \in P /\ Visited(a, x) \subseteq P
    OBVIOUS
  <2>1. x = <<>>
    BY DEF IsWalk
  <2> QED BY <2>1, EmptyWalk DEF IsWalk
<1>2. ASSUME NEW n \in Nat, n \in T PROVE n + 1 \in T
  <2> SUFFICES ASSUME NEW x, NEW y, IsWalk(edges, x, a, y), Len(x) = n + 1
               PROVE  y \in P /\ Visited(a, x) \subseteq P
    BY DEF T
  <2>1. x # <<>>
    BY <1>2
  <2>2. PICK v : \E e \in edges : /\ IsWalk(edges, v, a, e.from) /\ e.to = y /\ x = Append(v, e)
                                  /\ Len(x) = Len(v) + 1
    BY <2>1, WalkShortens
  <2>3. PICK e \in edges : /\ IsWalk(edges, v, a, e.from) /\ e.to = y /\ x = Append(v, e)
                           /\ Len(x) = Len(v) + 1
    BY <2>2
  <2>4. Len(v) = n
    BY <1>2, <2>3 DEF IsWalk
  <2>5. e.from \in P /\ Visited(a, v) \subseteq P
    BY <1>2, <2>3, <2>4
  <2>6. y \in P
    BY <2>3, <2>5 DEF ClosedUnder
  <2>7. Visited(a, x) = Visited(a, v) \cup {y}
    BY <2>3, WalkExtends
  <2> QED BY <2>5, <2>6, <2>7
<1>3. Len(w) \in Nat
  BY DEF IsWalk
<1> HIDE DEF T
<1>4. Len(w) \in T
  BY <1>1, <1>2, <1>3, NaturalInduction
<1> QED BY <1>4 DEF T

\* A walk comes from a set it ends in and that is entered by no edge.
LEMMA WalkComesFrom ==
    ASSUME NEW edges, NEW P, \A e \in edges : e.to \in P => e.from \in P,
           NEW a, NEW b \in P, NEW w, IsWalk(edges, w, a, b)
    PROVE  Visited(a, w) \subseteq P
<1> DEFINE T == {n \in Nat : \A x, y : IsWalk(edges, x, a, y) /\ Len(x) = n /\ y \in P =>
                                          Visited(a, x) \subseteq P}
<1>1. 0 \in T
  <2> SUFFICES ASSUME NEW x, NEW y, IsWalk(edges, x, a, y), Len(x) = 0, y \in P
               PROVE  Visited(a, x) \subseteq P
    OBVIOUS
  <2>1. x = <<>>
    BY DEF IsWalk
  <2> QED BY <2>1, EmptyWalk DEF IsWalk
<1>2. ASSUME NEW n \in Nat, n \in T PROVE n + 1 \in T
  <2> SUFFICES ASSUME NEW x, NEW y, IsWalk(edges, x, a, y), Len(x) = n + 1, y \in P
               PROVE  Visited(a, x) \subseteq P
    BY DEF T
  <2>1. x # <<>>
    BY <1>2
  <2>2. PICK v : \E e \in edges : /\ IsWalk(edges, v, a, e.from) /\ e.to = y /\ x = Append(v, e)
                                  /\ Len(x) = Len(v) + 1
    BY <2>1, WalkShortens
  <2>3. PICK e \in edges : /\ IsWalk(edges, v, a, e.from) /\ e.to = y /\ x = Append(v, e)
                           /\ Len(x) = Len(v) + 1
    BY <2>2
  <2>4. Len(v) = n /\ e.from \in P
    BY <1>2, <2>3 DEF IsWalk
  <2>5. Visited(a, v) \subseteq P
    BY <1>2, <2>3, <2>4
  <2>6. Visited(a, x) = Visited(a, v) \cup {y}
    BY <2>3, WalkExtends
  <2> QED BY <2>5, <2>6
<1>3. Len(w) \in Nat
  BY DEF IsWalk
<1> HIDE DEF T
<1>4. Len(w) \in T
  BY <1>1, <1>2, <1>3, NaturalInduction
<1> QED BY <1>4 DEF T

\* A node is in the closure of another just if a walk leads to it.
LEMMA ReachedByWalk ==
    ASSUME NEW edges, IsFiniteSet(edges), NEW a, NEW b
    PROVE  b \in Closure(edges, {a}) <=> \E w : IsWalk(edges, w, a, b)
<1>1. ASSUME NEW w, IsWalk(edges, w, a, b) PROVE b \in Closure(edges, {a})
  <2> DEFINE C == Closure(edges, {a})
  <2>1. a \in C /\ ClosedUnder(edges, C)
    BY ClosureFrom
  <2> HIDE DEF C
  <2>2. b \in C
    BY <1>1, <2>1, WalkStays
  <2> QED BY <2>2 DEF C
<1>2. ASSUME b \in Closure(edges, {a}) PROVE \E w : IsWalk(edges, w, a, b)
  <2> DEFINE P == {x \in {a} \cup {e.to : e \in edges} : \E w : IsWalk(edges, w, a, x)}
  <2>1. a \in P
    BY EmptyWalk
  <2>2. ASSUME NEW e \in edges, e.from \in P PROVE e.to \in P
    <3>1. PICK w : IsWalk(edges, w, a, e.from)
      BY <2>2
    <3>2. IsWalk(edges, Append(w, e), a, e.to)
      BY <3>1, WalkExtends
    <3> QED BY <3>2
  <2>3. ClosedUnder(edges, P)
    BY <2>2 DEF ClosedUnder
  <2> HIDE DEF P
  <2>4. b \in P
    BY <1>2, <2>1, <2>3, ClosureWithin
  <2> QED BY <2>4 DEF P
<1> QED BY <1>1, <1>2
-----------------------------------------------------------------------------
(* Cuts *)

\* The search for a way around a cut (_reachable_path_avoiding) finds none just if every
\* walk from the entry to the sink takes a cut edge or enters a cut node.
THEOREM CutIsExact ==
    ASSUME NEW g, IsGraph(g), NEW nodes, NEW edges, NEW sink
    PROVE  Disconnected(g, nodes, edges, sink) <=>
             \A w : IsWalk(g.edges, w, Entry, sink) =>
                       \E i \in DOMAIN w : w[i] \in edges \/ w[i].to \in nodes
<1> DEFINE left == {e \in g.edges \ edges : e.to \notin nodes}
           Cut(w) == \E i \in DOMAIN w : w[i] \in edges \/ w[i].to \in nodes
<1>1. IsFiniteSet(left)
  BY FS_Subset DEF IsGraph
<1>2. Disconnected(g, nodes, edges, sink) <=> sink \notin Closure(left, {Entry})
  BY DEF Disconnected
<1>3. ASSUME NEW w PROVE IsWalk(left, w, Entry, sink) <=> IsWalk(g.edges, w, Entry, sink) /\ ~ Cut(w)
  <2>1. ASSUME IsWalk(left, w, Entry, sink) PROVE IsWalk(g.edges, w, Entry, sink) /\ ~ Cut(w)
    <3>1. w \in Seq(left) /\ \A i \in DOMAIN w : w[i] \in left
      BY <2>1 DEF IsWalk
    <3>2. w \in Seq(g.edges)
      BY <3>1
    <3> QED BY <2>1, <3>1, <3>2 DEF IsWalk
  <2>2. ASSUME IsWalk(g.edges, w, Entry, sink), ~ Cut(w) PROVE IsWalk(left, w, Entry, sink)
    <3>1. w \in Seq(g.edges) /\ Len(w) \in Nat /\ w = [i \in 1..Len(w) |-> w[i]]
      BY <2>2 DEF IsWalk
    <3>2. \A i \in 1..Len(w) : w[i] \in left
      BY <2>2, <3>1
    <3>3. w \in Seq(left)
      <4> HIDE DEF left
      <4> QED BY <3>1, <3>2, IsASeq
    <3> QED BY <2>2, <3>3 DEF IsWalk
  <2> QED BY <2>1, <2>2
<1> HIDE DEF left, Cut
<1>4. sink \in Closure(left, {Entry}) <=> \E w : IsWalk(left, w, Entry, sink)
  BY <1>1, ReachedByWalk
<1> QED BY <1>2, <1>3, <1>4 DEF Cut
-----------------------------------------------------------------------------
(* Dominators *)

Reach(g) == ReachableFrom(g, Entry)

LEMMA ReachType ==
    ASSUME NEW g, IsGraph(g)
    PROVE  /\ Entry \in Reach(g) /\ IsFiniteSet(Reach(g)) /\ ClosedUnder(g.edges, Reach(g))
           /\ \A n : n \in Reach(g) <=> \E w : IsWalk(g.edges, w, Entry, n)
<1>1. IsFiniteSet(g.edges)
  BY DEF IsGraph
<1>2. Reach(g) = Closure(g.edges, {Entry})
  BY DEF Reach, ReachableFrom
<1>3. IsFiniteSet({Entry} \cup {e.to : e \in g.edges})
  BY <1>1, EndsAreFinite, FS_Singleton, FS_Union
<1>4. Entry \in Reach(g) /\ ClosedUnder(g.edges, Reach(g))
         /\ Reach(g) \subseteq {Entry} \cup {e.to : e \in g.edges}
  BY <1>1, <1>2, ClosureFrom
<1>5. ASSUME NEW n PROVE n \in Reach(g) <=> \E w : IsWalk(g.edges, w, Entry, n)
  BY <1>1, <1>2, ReachedByWalk
<1> QED BY <1>3, <1>4, <1>5, FS_Subset

\* What is a dominator of n after a round.
Stays(g, dom, m, n) ==
    IF n = Entry THEN m = Entry
    ELSE m = n \/ \A e \in g.edges : e.to = n /\ e.from \in Reach(g) => m \in dom[e.from]

LEMMA RefineStays ==
    ASSUME NEW g, IsGraph(g), NEW dom \in [Reach(g) -> SUBSET Reach(g)]
    PROVE  /\ RefineDominators(g, dom) \in [Reach(g) -> SUBSET Reach(g)]
           /\ \A m, n \in Reach(g) : m \in RefineDominators(g, dom)[n] <=> Stays(g, dom, m, n)
<1> DEFINE R == Reach(g)
           preds(n) == {e.from : e \in {d \in g.edges : d.to = n}} \cap R
           next == [n \in R |->
                      IF n = Entry THEN {n}
                      ELSE {n} \cup {m \in R : \A p \in preds(n) : m \in dom[p]}]
<1>1. RefineDominators(g, dom) = next
  BY DEF RefineDominators
<1>2. Entry \in R
  BY ReachType
<1>3. next \in [R -> SUBSET R]
  OBVIOUS
<1>4. ASSUME NEW m \in R, NEW n \in R PROVE m \in next[n] <=> Stays(g, dom, m, n)
  <2>1. (\A p \in preds(n) : m \in dom[p])
           <=> (\A e \in g.edges : e.to = n /\ e.from \in R => m \in dom[e.from])
    OBVIOUS
  <2> QED BY <2>1 DEF Stays
<1> QED BY <1>1, <1>3, <1>4

\* The dominators are the greatest relation that a round does not change.
LEMMA DominatorsAreGreatest ==
    ASSUME NEW g, IsGraph(g)
    PROVE  LET dom == ComputeDominators(g)
           IN  /\ dom \in [Reach(g) -> SUBSET Reach(g)]
               /\ \A m, n \in Reach(g) : m \in dom[n] <=> Stays(g, dom, m, n)
               /\ \A A \in [Reach(g) -> SUBSET Reach(g)] :
                    (\A m, n \in Reach(g) : m \in A[n] => Stays(g, A, m, n))
                        => \A n \in Reach(g) : A[n] \subseteq dom[n]
<1> DEFINE R == Reach(g)
           X == [R -> SUBSET R]
           N == Cardinality(R)
           f == [dom \in X |-> RefineDominators(g, dom)]
           all == [n \in R |-> IF n = Entry THEN {n} ELSE R]
           refined == CHOOSE loop : loop = [dom \in X |->
                LET next == RefineDominators(g, dom) IN IF next = dom THEN dom ELSE loop[next]]
<1>1. IsFiniteSet(R) /\ N \in Nat /\ Entry \in R
  BY ReachType, FS_CardinalityType
<1>2. f \in [X -> X] /\ \A dom \in X : f[dom] = RefineDominators(g, dom)
  BY RefineStays
<1>3. all \in X
  BY <1>1
<1>4. \A m, n \in R : m \in all[n] <=> (n = Entry => m = Entry)
  OBVIOUS
<1>5. ComputeDominators(g) = refined[all]
  BY DEF ComputeDominators, Reach
<1>6. \A dom \in X : \A m, n \in R : m \in f[dom][n] <=> Stays(g, dom, m, n)
  BY <1>2, RefineStays
<1> HIDE DEF N, f, all
<1>7. IsLoop(refined, X, f)
  <2> DEFINE Good(loop) == loop = [dom \in X |->
                LET next == RefineDominators(g, dom) IN IF next = dom THEN dom ELSE loop[next]]
  <2>1. PICK loop : IsLoop(loop, X, f)
    <3> HIDE DEF X
    <3> QED BY <1>2, LoopExists
  <2>2. Good(loop)
    <3> HIDE DEF X
    <3> QED BY <1>2, <2>1 DEF IsLoop
  <2>3. Good(refined)
    <3> HIDE DEF Good
    <3>1. Good(CHOOSE h : Good(h))
      BY <2>2
    <3> QED BY <3>1 DEF Good
  <2> HIDE DEF refined, X
  <2> QED BY <1>2, <2>3 DEF IsLoop
<1> HIDE DEF refined
<1>8. PICK W : W \in Iterations(X, N, all, f)
  <2> HIDE DEF X
  <2> QED BY <1>1, <1>2, <1>3, IterationExists
<1>9. W \in [0..N -> X] /\ W[0] = all
  BY <1>8 DEF Iterations
<1>10. ASSUME NEW k \in 1..N PROVE k - 1 \in 0..N /\ W[k - 1] \in X /\ W[k] = f[W[k - 1]]
  BY <1>1, <1>8, <1>9 DEF Iterations
<1>11. \A k \in 0..N : W[k] \in X
  BY <1>9
<1> DEFINE Less(k) == \A m, n \in R : m \in W[k][n] => m \in W[k - 1][n]
<1>12. \A k \in 1..N : Less(k)
  <2> DEFINE T == {k \in 0..N : k = 0 \/ Less(k)}
  <2>1. 0 \in T
    BY <1>1
  <2>2. ASSUME NEW k \in 0..N, k \in T, k < N PROVE k + 1 \in T
    <3>1. k + 1 \in 1..N /\ (k + 1) - 1 = k
      BY <1>1, <2>2
    <3>2. W[k] \in X /\ W[k + 1] = f[W[k]]
      BY <1>10, <3>1
    <3>3. ASSUME NEW m \in R, NEW n \in R, m \in W[k + 1][n] PROVE m \in W[k][n]
      <4>1. Stays(g, W[k], m, n)
        BY <1>6, <3>2, <3>3
      <4>2. CASE k = 0
        BY <1>4, <1>9, <4>1, <4>2 DEF Stays
      <4>3. CASE k # 0
        <5>1. k \in 1..N /\ Less(k)
          BY <2>2, <4>3
        <5>2. W[k - 1] \in X /\ W[k] = f[W[k - 1]]
          BY <1>10, <5>1
        <5>3. Stays(g, W[k - 1], m, n)
          BY <4>1, <5>1, <3>3 DEF Stays
        <5> QED BY <1>6, <5>2, <5>3
      <4> QED BY <4>2, <4>3
    <3> QED BY <3>1, <3>3
  <2>3. \A k \in 0..N : k \in T /\ k < N => k + 1 \in T
    BY <2>2
  <2> HIDE DEF T
  <2>4. 0..N \subseteq T
    BY <1>1, <2>1, <2>3, BoundedInduction
  <2> QED BY <2>4 DEF T
<1>13. ASSUME NEW m \in R, NEW n \in R PROVE m \in W[N][n] <=> Stays(g, W[N], m, n)
  <2> DEFINE Gone == [k \in 0..N |-> {x \in R : m \notin W[k][x]}]
             Closed == {k \in 0..N : \A x \in R : m \in W[k][x] => Stays(g, W[k], m, x)}
  <2>1. \A k \in 0..N : Gone[k] \subseteq R
    OBVIOUS
  <2>2. ASSUME NEW k \in 1..N
        PROVE  /\ Gone[k - 1] \subseteq Gone[k]
               /\ Gone[k - 1] = Gone[k] => k - 1 \in Closed
               /\ k - 1 \in Closed => k \in Closed
    <3>1. k \in 0..N /\ k - 1 \in 0..N /\ W[k - 1] \in X /\ W[k] = f[W[k - 1]]
      BY <1>1, <1>10
    <3>2. \A x \in R : m \in W[k][x] <=> Stays(g, W[k - 1], m, x)
      BY <1>6, <3>1
    <3>3. \A x \in R : m \in W[k][x] => m \in W[k - 1][x]
      BY <1>12
    <3>4. ASSUME Gone[k - 1] = Gone[k] PROVE k - 1 \in Closed
      <4>1. \A x \in R : m \in W[k - 1][x] <=> m \in W[k][x]
        BY <3>1, <3>4
      <4> QED BY <3>1, <3>2, <4>1
    <3>5. ASSUME k - 1 \in Closed PROVE k \in Closed
      <4>1. \A x \in R : m \in W[k - 1][x] <=> m \in W[k][x]
        BY <3>2, <3>3, <3>5
      <4>2. \A x \in R : Stays(g, W[k - 1], m, x) => Stays(g, W[k], m, x)
        BY <4>1 DEF Stays
      <4> QED BY <3>1, <3>2, <4>2
    <3>6. Gone[k - 1] \subseteq Gone[k]
      BY <3>1, <3>3
    <3> QED BY <3>4, <3>5, <3>6
  <2>3. Gone[N] = R => N \in Closed
    BY <1>1
  <2> HIDE DEF Gone, Closed, R
  <2>4. N \in Closed
    BY <1>1, <2>1, <2>2, <2>3, GrowingCloses DEF N
  <2>5. m \in W[N][n] => Stays(g, W[N], m, n)
    BY <2>4 DEF Closed
  <2>6. Stays(g, W[N], m, n) => m \in W[N][n]
    <3>1. CASE N = 0
      BY <1>4, <1>9, <3>1 DEF Stays
    <3>2. CASE N # 0
      <4>1. N \in 1..N
        BY <1>1, <3>2
      <4>2. W[N - 1] \in X /\ W[N] = f[W[N - 1]] /\ Less(N)
        BY <1>10, <1>12, <4>1
      <4>3. Stays(g, W[N], m, n) => Stays(g, W[N - 1], m, n)
        BY <4>2 DEF Stays, R
      <4> QED BY <1>6, <4>2, <4>3
    <3> QED BY <3>1, <3>2
  <2> QED BY <2>5, <2>6
<1>14. f[W[N]] = W[N]
  <2>1. W[N] \in X /\ f[W[N]] \in X
    BY <1>1, <1>2, <1>11
  <2>2. \A n \in R : f[W[N]][n] = W[N][n]
    <3> TAKE n \in R
    <3>1. \A m \in R : m \in f[W[N]][n] <=> m \in W[N][n]
      BY <1>6, <1>13, <2>1
    <3> QED BY <2>1, <3>1
  <2> QED BY <2>1, <2>2
<1>15. ComputeDominators(g) = W[N]
  <2> HIDE DEF X
  <2> QED BY <1>1, <1>2, <1>3, <1>5, <1>7, <1>8, <1>14, LoopReturns
<1>16. ASSUME NEW A \in X, \A m, n \in R : m \in A[n] => Stays(g, A, m, n)
       PROVE  \A n \in R : A[n] \subseteq W[N][n]
  <2> DEFINE T == {k \in 0..N : \A m, n \in R : m \in A[n] => m \in W[k][n]}
  <2>1. 0 \in T
    <3>1. \A m, n \in R : m \in A[n] => (n = Entry => m = Entry)
      BY <1>16 DEF Stays
    <3> QED BY <1>1, <1>4, <1>9, <3>1
  <2>2. ASSUME NEW k \in 0..N, k \in T, k < N PROVE k + 1 \in T
    <3>1. k + 1 \in 1..N /\ k + 1 \in 0..N /\ (k + 1) - 1 = k
      BY <1>1, <2>2
    <3>2. W[k] \in X /\ W[k + 1] = f[W[k]]
      BY <1>10, <3>1
    <3>3. ASSUME NEW m \in R, NEW n \in R, m \in A[n] PROVE m \in W[k + 1][n]
      <4>1. Stays(g, W[k], m, n)
        BY <1>16, <2>2, <3>3 DEF Stays
      <4> QED BY <1>6, <3>2, <4>1
    <3> QED BY <3>1, <3>3
  <2>3. \A k \in 0..N : k \in T /\ k < N => k + 1 \in T
    BY <2>2
  <2> HIDE DEF T
  <2>4. N \in T
    BY <1>1, <2>1, <2>3, BoundedInduction
  <2> QED BY <2>4, <1>16 DEF T
<1> QED BY <1>1, <1>11, <1>13, <1>15, <1>16

\* dominates says of a reachable node that every walk from the entry to it visits the
\* dominator, no more and no less.
THEOREM DominatesIsExact ==
    ASSUME NEW g, IsGraph(g), NEW d, NEW n
    PROVE  Dominates(g, d, n) <=>
             /\ \E w : IsWalk(g.edges, w, Entry, n)
             /\ \A w : IsWalk(g.edges, w, Entry, n) => d \in Visited(Entry, w)
<1> DEFINE R == Reach(g)
           dom == ComputeDominators(g)
           Met(m, x) == \A w : IsWalk(g.edges, w, Entry, x) => m \in Visited(Entry, w)
<1>1. /\ dom \in [R -> SUBSET R]
      /\ \A m, x \in R : m \in dom[x] <=> Stays(g, dom, m, x)
      /\ \A A \in [R -> SUBSET R] :
            (\A m, x \in R : m \in A[x] => Stays(g, A, m, x)) => \A x \in R : A[x] \subseteq dom[x]
  BY DominatorsAreGreatest
<1>2. Dominates(g, d, n) <=> n \in R /\ d \in dom[n]
  BY DEF Dominates, Reach
<1>3. \A x : x \in R <=> \E w : IsWalk(g.edges, w, Entry, x)
  BY ReachType
<1>4. Entry \in R /\ ClosedUnder(g.edges, R)
  BY ReachType
<1> HIDE DEF R, dom
<1>5. ASSUME n \in R, d \in dom[n] PROVE Met(d, n)
  <2> DEFINE T == {k \in Nat : \A x, w : IsWalk(g.edges, w, Entry, x) /\ Len(w) = k /\ d \in dom[x]
                                            => d \in Visited(Entry, w)}
  <2>0. d \in R
    BY <1>1, <1>5
  <2>1. 0 \in T
    <3> SUFFICES ASSUME NEW x, NEW w, IsWalk(g.edges, w, Entry, x), Len(w) = 0, d \in dom[x]
                 PROVE  d \in Visited(Entry, w)
      OBVIOUS
    <3>1. x = Entry
      BY DEF IsWalk
    <3>2. d = Entry
      BY <1>1, <1>4, <2>0, <3>1 DEF Stays
    <3> QED BY <3>2 DEF Visited
  <2>2. ASSUME NEW k \in Nat, k \in T PROVE k + 1 \in T
    <3> SUFFICES ASSUME NEW x, NEW w, IsWalk(g.edges, w, Entry, x), Len(w) = k + 1, d \in dom[x]
                 PROVE  d \in Visited(Entry, w)
      BY DEF T
    <3>1. w # <<>>
      BY <2>2
    <3>2. PICK v : \E e \in g.edges : /\ IsWalk(g.edges, v, Entry, e.from) /\ e.to = x
                                      /\ w = Append(v, e) /\ Len(w) = Len(v) + 1
      BY <3>1, WalkShortens
    <3>3. PICK e \in g.edges : /\ IsWalk(g.edges, v, Entry, e.from) /\ e.to = x
                               /\ w = Append(v, e) /\ Len(w) = Len(v) + 1
      BY <3>2
    <3>4. Len(v) = k /\ e.from \in R /\ x \in R
      <4>1. Len(v) \in Nat
        BY <3>3 DEF IsWalk
      <4>2. Len(v) = k
        BY <2>2, <3>3, <4>1
      <4>3. e.from \in R
        BY <1>3, <3>3
      <4>4. x \in R
        BY <1>3
      <4> QED BY <4>2, <4>3, <4>4
    <3>5. Visited(Entry, w) = Visited(Entry, v) \cup {x}
      BY <3>3, WalkExtends
    <3>6. Stays(g, dom, d, x)
      BY <1>1, <2>0, <3>4
    <3>7. CASE x = Entry
      BY <3>5, <3>6, <3>7 DEF Stays
    <3>8. CASE d = x
      BY <3>5, <3>8
    <3>9. CASE x # Entry /\ d # x
      <4>1. d \in dom[e.from]
        BY <1>4, <3>3, <3>4, <3>6, <3>9 DEF Stays, R
      <4>2. d \in Visited(Entry, v)
        BY <2>2, <3>3, <3>4, <4>1
      <4> QED BY <3>5, <4>2
    <3> QED BY <3>7, <3>8, <3>9
  <2> HIDE DEF T
  <2>3. Nat \subseteq T
    BY <2>1, <2>2, NaturalInduction
  <2> SUFFICES ASSUME NEW w, IsWalk(g.edges, w, Entry, n) PROVE d \in Visited(Entry, w)
    OBVIOUS
  <2>4. Len(w) \in T
    BY <2>3 DEF IsWalk
  <2> QED BY <1>5, <2>4 DEF T
<1>6. ASSUME n \in R, Met(d, n) PROVE d \in dom[n]
  <2> DEFINE A == [x \in R |-> {m \in R : Met(m, x)}]
  <2>1. ASSUME NEW m \in R, NEW x \in R, Met(m, x) PROVE Stays(g, A, m, x)
    <3>1. CASE x = Entry
      <4>1. IsWalk(g.edges, <<>>, Entry, Entry) /\ Visited(Entry, <<>>) = {Entry}
        BY EmptyWalk
      <4>2. m \in Visited(Entry, <<>>)
        BY <2>1, <3>1, <4>1
      <4> QED BY <3>1, <4>1, <4>2 DEF Stays
    <3>2. CASE x # Entry /\ m # x
      <4>1. ASSUME NEW e \in g.edges, e.to = x, e.from \in R PROVE Met(m, e.from)
        <5> SUFFICES ASSUME NEW w, IsWalk(g.edges, w, Entry, e.from) PROVE m \in Visited(Entry, w)
          OBVIOUS
        <5>1. /\ IsWalk(g.edges, Append(w, e), Entry, x)
              /\ Visited(Entry, Append(w, e)) = Visited(Entry, w) \cup {x}
          BY <4>1, WalkExtends
        <5>2. m \in Visited(Entry, Append(w, e))
          BY <2>1, <5>1
        <5> QED BY <3>2, <5>1, <5>2
      <4>2. \A e \in g.edges : e.to = x /\ e.from \in R => m \in A[e.from]
        <5> HIDE DEF Met
        <5> QED BY <4>1
      <4> HIDE DEF A
      <4> QED BY <3>2, <4>2 DEF Stays, R
    <3>3. CASE x # Entry /\ m = x
      BY <3>3 DEF Stays
    <3> QED BY <3>1, <3>2, <3>3
  <2>2. A \in [R -> SUBSET R] /\ \A m, x \in R : m \in A[x] => Met(m, x)
    OBVIOUS
  <2>3. d \in R
    <3>1. PICK w : IsWalk(g.edges, w, Entry, n)
      BY <1>3, <1>6
    <3>2. d \in Visited(Entry, w)
      BY <1>6, <3>1
    <3>3. Visited(Entry, w) \subseteq R
      BY <1>4, <3>1, WalkStays
    <3> QED BY <3>2, <3>3
  <2>4. d \in A[n]
    BY <1>6, <2>3
  <2> HIDE DEF A, Met
  <2>5. A[n] \subseteq dom[n]
    BY <1>1, <1>6, <2>1, <2>2
  <2> QED BY <2>4, <2>5
<1> QED BY <1>2, <1>3, <1>5, <1>6
-----------------------------------------------------------------------------
(* Coverage and evidence *)

\* The coverage of a sink is authoritative just if it is reached, and no walk from the entry
\* to it visits a node that is only known in part (a loop, a try, a with or a match).
THEOREM CoverageIsExact ==
    ASSUME NEW g, IsGraph(g), NEW sink
    PROVE  CoverageAuthoritative(g, sink) <=>
             /\ \E w : IsWalk(g.edges, w, Entry, sink)
             /\ \A w : IsWalk(g.edges, w, Entry, sink) =>
                         \A n \in Visited(Entry, w) : ~ g.nodes[n].partial
<1> DEFINE R == Reach(g)
           B == NodesReaching(g, sink)
<1>0. IsFiniteSet(g.edges) /\ IsFiniteSet(Reversed(g.edges))
  BY EndsAreFinite DEF IsGraph
<1>1. CoverageAuthoritative(g, sink) <=> sink \in B \cap R /\ \A n \in B \cap R : ~ g.nodes[n].partial
  BY DEF CoverageAuthoritative, Reach
<1>2. Entry \in R /\ ClosedUnder(g.edges, R) /\ \A n : n \in R <=> \E w : IsWalk(g.edges, w, Entry, n)
  BY ReachType
<1>3. \A n : n \in B <=> sink \in Closure(g.edges, {n})
  BY <1>0, ReversedReaches DEF NodesReaching
<1>4. sink \in B
  BY <1>0, ClosureFrom DEF NodesReaching
<1>5. ASSUME NEW e \in g.edges, e.to \in B PROVE e.from \in B
  <2> DEFINE r == [from |-> e.to, to |-> e.from]
  <2>1. r \in Reversed(g.edges) /\ r.from \in B /\ r.to = e.from
    BY <1>5 DEF Reversed
  <2>2. ClosedUnder(Reversed(g.edges), B)
    BY <1>0, ClosureFrom DEF NodesReaching
  <2> HIDE DEF r, B
  <2> QED BY <2>1, <2>2 DEF ClosedUnder
<1> HIDE DEF R, B
<1>6. ASSUME NEW w, IsWalk(g.edges, w, Entry, sink) PROVE Visited(Entry, w) \subseteq B \cap R
  <2>1. Visited(Entry, w) \subseteq R
    BY <1>2, <1>6, WalkStays
  <2>2. Visited(Entry, w) \subseteq B
    BY <1>4, <1>5, <1>6, WalkComesFrom
  <2> QED BY <2>1, <2>2
<1>7. ASSUME NEW n \in B \cap R, sink \in R
      PROVE  \E w : IsWalk(g.edges, w, Entry, sink) /\ n \in Visited(Entry, w)
  <2> DEFINE P == {x \in {n} \cup {e.to : e \in g.edges} :
                     \E w : IsWalk(g.edges, w, Entry, x) /\ n \in Visited(Entry, w)}
  <2>1. n \in P
    <3>1. PICK w : IsWalk(g.edges, w, Entry, n)
      BY <1>2
    <3>2. n \in Visited(Entry, w)
      <4>1. w \in Seq(g.edges) /\ Len(w) \in Nat /\ DOMAIN w = 1..Len(w)
        BY <3>1 DEF IsWalk
      <4>2. CASE w = <<>>
        BY <3>1, <4>2 DEF IsWalk, Visited
      <4>3. CASE w # <<>>
        <5>1. Len(w) \in DOMAIN w /\ w[Len(w)].to = n
          BY <3>1, <4>1, <4>3 DEF IsWalk
        <5> QED BY <5>1 DEF Visited
      <4> QED BY <4>2, <4>3
    <3> QED BY <3>1, <3>2
  <2>2. ASSUME NEW e \in g.edges, e.from \in P PROVE e.to \in P
    <3>1. PICK w : IsWalk(g.edges, w, Entry, e.from) /\ n \in Visited(Entry, w)
      BY <2>2
    <3>2. IsWalk(g.edges, Append(w, e), Entry, e.to) /\ n \in Visited(Entry, Append(w, e))
      BY <3>1, WalkExtends
    <3> QED BY <3>2
  <2>3. ClosedUnder(g.edges, P)
    BY <2>2 DEF ClosedUnder
  <2>4. sink \in Closure(g.edges, {n})
    BY <1>3
  <2> HIDE DEF P
  <2>5. sink \in P
    BY <1>0, <2>1, <2>3, <2>4, ClosureWithin
  <2> QED BY <2>5 DEF P
<1>8. ASSUME CoverageAuthoritative(g, sink), NEW w, IsWalk(g.edges, w, Entry, sink),
             NEW n \in Visited(Entry, w)
      PROVE  ~ g.nodes[n].partial
  BY <1>1, <1>6, <1>8
<1>9. ASSUME NEW v, IsWalk(g.edges, v, Entry, sink),
             \A w : IsWalk(g.edges, w, Entry, sink) =>
                      \A n \in Visited(Entry, w) : ~ g.nodes[n].partial
      PROVE  CoverageAuthoritative(g, sink)
  <2>1. sink \in R
    BY <1>2, <1>9
  <2> QED BY <1>1, <1>4, <1>7, <1>9, <2>1
<1> QED BY <1>1, <1>2, <1>8, <1>9

\* The nodes that cover the line of a call.
NodesOf(g, site) == {n \in DOMAIN g.nodes : site \in g.nodes[n].sites}

LEMMA ResolvedCovers ==
    ASSUME NEW g, IsGraph(g), NEW site, NEW allowOpaque, ResolveNode(g, site, allowOpaque) # NoNode
    PROVE  ResolveNode(g, site, allowOpaque) \in NodesOf(g, site)
<1> DEFINE covering == {n \in DOMAIN g.nodes :
                            site \in g.nodes[n].sites /\ (g.nodes[n].opaque => allowOpaque)}
<1>1. Cardinality(covering) = 1 /\ ResolveNode(g, site, allowOpaque) = CHOOSE n \in covering : TRUE
  BY DEF ResolveNode
<1>2. covering # {}
  <2> HIDE DEF covering
  <2> QED BY <1>1, FS_EmptySet
<1>3. (CHOOSE n \in covering : TRUE) \in covering
  <2> HIDE DEF covering
  <2> QED BY <1>2
<1> QED BY <1>1, <1>3 DEF NodesOf

LEMMA EdgesAreLeft ==
    ASSUME NEW edges, NEW a, NEW b, NEW w, IsWalk(edges, w, a, b), NEW i \in DOMAIN w
    PROVE  w[i] \in edges /\ w[i].from \in Visited(a, w) /\ w[i].to \in Visited(a, w)
<1>1. w \in Seq(edges) /\ Len(w) \in Nat /\ DOMAIN w = 1..Len(w) /\ w # <<>>
  BY DEF IsWalk
<1>2. w[i] \in edges
  BY <1>1
<1>3. CASE i = 1
  BY <1>1, <1>2, <1>3 DEF IsWalk, Visited
<1>4. CASE i # 1
  <2> DEFINE j == i - 1
  <2>1. j \in 1..(Len(w) - 1) /\ j \in 1..Len(w) /\ j + 1 = i
    BY <1>1, <1>4
  <2>2. w[j].to = w[j + 1].from
    BY <2>1 DEF IsWalk
  <2>3. w[j].to = w[i].from
    BY <2>1, <2>2
  <2> HIDE DEF j
  <2> QED BY <1>1, <1>2, <2>1, <2>3 DEF Visited
<1> QED BY <1>3, <1>4

\* Every way to the effect meets one of the guards.
Met(g, guards, effect) ==
    LET sink == ResolveNode(g, effect, FALSE)
    IN  /\ sink \in NodesOf(g, effect)
        /\ \E w : IsWalk(g.edges, w, Entry, sink)
        /\ \A w : IsWalk(g.edges, w, Entry, sink) =>
             /\ \E c \in guards : Visited(Entry, w) \cap NodesOf(g, c) # {}
             /\ \A n \in Visited(Entry, w) : ~ g.nodes[n].partial

\* Dominance evidence of a guard (build_guard_dominance_evidence) says that every walk from
\* the entry to the effect visits a node that covers the guard, and no partial node.
THEOREM DominanceEvidenceIsReal ==
    ASSUME NEW g, IsGraph(g), NEW guard, NEW effect, DominanceEvidence(g, guard, effect).dominates
    PROVE  Met(g, {guard}, effect)
<1> DEFINE sink == ResolveNode(g, effect, FALSE)
           node == ResolveNode(g, guard, FALSE)
<1>1. /\ sink # NoNode /\ CoverageAuthoritative(g, sink)
      /\ node # NoNode /\ Dominates(g, node, sink)
  BY DEF DominanceEvidence
<1>2. sink \in NodesOf(g, effect) /\ node \in NodesOf(g, guard)
  BY <1>1, ResolvedCovers
<1> HIDE DEF sink, node
<1>3. /\ \E w : IsWalk(g.edges, w, Entry, sink)
      /\ \A w : IsWalk(g.edges, w, Entry, sink) => node \in Visited(Entry, w)
  BY <1>1, DominatesIsExact
<1>4. \A w : IsWalk(g.edges, w, Entry, sink) => \A n \in Visited(Entry, w) : ~ g.nodes[n].partial
  BY <1>1, CoverageIsExact
<1>5. \A w : IsWalk(g.edges, w, Entry, sink) => Visited(Entry, w) \cap NodesOf(g, guard) # {}
  BY <1>2, <1>3
<1> QED BY <1>2, <1>3, <1>4, <1>5 DEF Met, sink

\* A cut set that covers an effect (build_authorization_cut_set_evidence) is met by every
\* walk from the entry to the effect, whether its members are statements or branches.
THEOREM CutEvidenceIsReal ==
    ASSUME NEW g, IsGraph(g), NEW candidates, NEW effect,
           CutSetEvidence(g, candidates, effect).covers
    PROVE  Met(g, candidates, effect)
<1> DEFINE sink == ResolveNode(g, effect, FALSE)
           bound == {ResolveNode(g, c, TRUE) : c \in candidates}
           edges == CutEdges(g, bound, sink)
           nodes == CutNodes(g, bound, sink)
<1>1. /\ sink # NoNode /\ NoNode \notin bound
      /\ CoverageAuthoritative(g, sink) /\ Disconnected(g, nodes, edges, sink)
  BY DEF CutSetEvidence
<1>2. sink \in NodesOf(g, effect)
  BY <1>1, ResolvedCovers
<1>3. \A c \in candidates : ResolveNode(g, c, TRUE) \in NodesOf(g, c)
  BY <1>1, ResolvedCovers
<1>4. nodes \subseteq bound /\ \A e \in edges : e.from \in bound
  BY DEF CutNodes, CutEdges, SinkReaching
<1> HIDE DEF sink, edges, nodes
<1>5. ASSUME NEW w, IsWalk(g.edges, w, Entry, sink)
      PROVE  \E c \in candidates : Visited(Entry, w) \cap NodesOf(g, c) # {}
  <2>1. PICK i \in DOMAIN w : w[i] \in edges \/ w[i].to \in nodes
    BY <1>1, <1>5, CutIsExact
  <2>2. w[i].from \in Visited(Entry, w) /\ w[i].to \in Visited(Entry, w)
    BY <1>5, EdgesAreLeft
  <2>3. PICK n \in bound : n \in Visited(Entry, w)
    BY <1>4, <2>1, <2>2
  <2> QED BY <1>3, <2>3
<1>6. /\ \E w : IsWalk(g.edges, w, Entry, sink)
      /\ \A w : IsWalk(g.edges, w, Entry, sink) => \A n \in Visited(Entry, w) : ~ g.nodes[n].partial
  BY <1>1, CoverageIsExact
<1> QED BY <1>2, <1>5, <1>6 DEF Met, sink
-----------------------------------------------------------------------------
(* What a pass stands on *)

\* An effect passes (evaluate_protected_effect_integrity) only under complete coverage, with
\* the resource bound, and with an effective guard: either one without a place in the body,
\* or ones that every walk to the effect meets.
THEOREM PassIsGuarded ==
    ASSUME NEW g, IsGraph(g), NEW effect, NEW guards, NEW candidates, NEW complete \in BOOLEAN,
           \A d \in guards : d.evidence \in {NoDominanceEvidence, DominanceEvidence(g, d.id, effect)},
           \A c \in candidates : \E d \in guards : d.id = c,
           OverallStatus(guards, CutSetEvidence(g, candidates, effect), complete) = "pass"
    PROVE  /\ complete
           /\ \E d \in guards : d.exact \/ d.binding = "pass"
           /\ \/ \E d \in guards : d.effective /\ d.evidence = NoDominanceEvidence
              \/ Met(g, {d.id : d \in {e \in guards : e.effective}}, effect)
<1> DEFINE cut == CutSetEvidence(g, candidates, effect)
           dominating == Dominating(guards, cut)
           alone == {d \in guards : DominanceStatus(d) = "established"}
           effective == {d.id : d \in {e \in guards : e.effective}}
<1>1. /\ complete
      /\ GuardEffectiveness(dominating) = "established"
      /\ ResourceBinding(dominating) = "established"
  BY DEF OverallStatus, GuardEffectiveness, ResourceBinding, GuardPresence
<1>2. dominating \subseteq guards
  BY DEF Dominating, CollectiveCut
<1>3. PICK d \in dominating : d.effective
  BY <1>1 DEF GuardEffectiveness
<1>4. \E e \in dominating : e.exact \/ e.binding = "pass"
  BY <1>1 DEF ResourceBinding
<1>5. CASE alone # {}
  <2>1. DominanceStatus(d) = "established"
    BY <1>3, <1>5 DEF Dominating
  <2>2. CASE d.evidence = NoDominanceEvidence
    BY <1>1, <1>2, <1>3, <1>4, <2>2
  <2>3. CASE d.evidence = DominanceEvidence(g, d.id, effect)
    <3>1. d.evidence.dominates
      <4>1. d.evidence.present = TRUE /\ d.evidence.complete \in BOOLEAN
              /\ d.evidence.bound \in BOOLEAN /\ d.evidence.dominates \in BOOLEAN
        BY <2>3 DEF DominanceEvidence
      <4> QED BY <2>1, <4>1 DEF DominanceStatus
    <3>2. Met(g, {d.id}, effect)
      BY <2>3, <3>1, DominanceEvidenceIsReal
    <3>3. d.id \in effective
      BY <1>2, <1>3
    <3>4. Met(g, effective, effect)
      <4> HIDE DEF effective
      <4> QED BY <3>2, <3>3 DEF Met
    <3> QED BY <1>1, <1>2, <1>4, <3>4
  <2> QED BY <1>2, <2>2, <2>3
<1>6. CASE alone = {}
  <2> DEFINE members == {e \in guards : e.id \in cut.guards}
  <2>1. dominating = CollectiveCut(guards, cut)
    BY <1>6 DEF Dominating
  <2>2. cut.covers /\ \A e \in members : Qualifies(e)
    BY <1>3, <2>1 DEF CollectiveCut
  <2>3. cut.guards = candidates
    BY DEF CutSetEvidence
  <2>4. candidates \subseteq effective
    BY <2>2, <2>3 DEF Qualifies
  <2>5. Met(g, candidates, effect)
    BY <2>2, CutEvidenceIsReal
  <2>6. Met(g, effective, effect)
    <3> HIDE DEF effective
    <3> QED BY <2>4, <2>5 DEF Met
  <2> QED BY <1>1, <1>2, <1>4, <2>6
<1> QED BY <1>5, <1>6
=============================================================================
