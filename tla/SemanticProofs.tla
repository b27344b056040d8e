--------------------------- MODULE SemanticProofs ---------------------------
(***************************************************************************)
(* Proofs about the semantic state and the composition of contracts: a      *)
(* composition that reuses what another revision left is the full one, what *)
(* a job loads is the state of one revision, and a job that is alone writes *)
(* the record atomically.                                                   *)
(***************************************************************************)
EXTENDS SemanticState, GraphProofs

IsCandidates(candidates) == Len(candidates) \in Nat /\ DOMAIN candidates = 1..Len(candidates)

Within(f, g) == DOMAIN f \subseteq DOMAIN g /\ \A n \in DOMAIN f : f[n] = g[n]

\* Contracts by their names.
IsKnown(f) == f = [n \in DOMAIN f |-> f[n]] /\ \A n \in DOMAIN f : f[n].name = n

\* s leads to its last element by adopting candidates one at a time.
IsDerivation(s, length, candidates) ==
    \A i \in 1..length : \E c \in DOMAIN candidates : s[i] = Adopt(s[i - 1], candidates[c])

Derivable(known, candidates, result) ==
    \E length \in Nat : \E s :
        s[0] = known /\ s[length] = result /\ IsDerivation(s, length, candidates)

\* Nothing is left that could be adopted.
IsClosed(known, candidates) ==
    \A c \in DOMAIN candidates :
        Composes(candidates[c], known) => candidates[c].name \in DOMAIN known
-----------------------------------------------------------------------------
LEMMA CandidatesAreASequence ==
    ASSUME NEW head, IsHead(head)
    PROVE  IsCandidates(Candidates(head))
<1> DEFINE all == UNION {head[f].forwarding : f \in DOMAIN head}
<1>1. IsFiniteSet(all)
  <2>1. IsFiniteSet(DOMAIN head)
    BY FS_Interval DEF IsHead
  <2>2. IsFiniteSet({head[f].forwarding : f \in DOMAIN head})
    <3> DEFINE forwarding == [f \in DOMAIN head |-> head[f].forwarding]
    <3>1. {head[f].forwarding : f \in DOMAIN head} = {forwarding[f] : f \in DOMAIN head}
      OBVIOUS
    <3>2. forwarding \in Surjection(DOMAIN head, {forwarding[f] : f \in DOMAIN head})
      BY DEF Surjection
    <3> HIDE DEF forwarding
    <3> QED BY <2>1, <3>1, <3>2, FS_Surjection
  <2> QED BY <2>2, FS_UNION DEF IsHead
<1>2. Cardinality(all) \in Nat
  BY <1>1, FS_CardinalityType
<1> DEFINE n == Cardinality(all)
           at == [i \in 1..n |-> CHOOSE c \in all : Cardinality({d \in all : Precedes(d, c)}) = i - 1]
           Items == {at[i] : i \in 1..n}
<1>3. Candidates(head) = at
  BY DEF Candidates
<1>4. at \in [1..n -> Items]
  OBVIOUS
<1> HIDE DEF n, at, Items
<1>5. at \in Seq(Items)
  <2>1. n \in Nat
    BY <1>2 DEF n
  <2> QED BY <1>4, <2>1
<1>6. Len(at) \in Nat /\ DOMAIN at = 1..Len(at)
  BY <1>5
<1> QED BY <1>3, <1>6 DEF IsCandidates

\* The rounds and what happens in one are recursive functions that exist.
LEMMA RoundUnfolds ==
    ASSUME NEW known, NEW candidates, IsCandidates(candidates)
    PROVE  \E W : /\ W[0] = known
                  /\ \A i \in 1..Len(candidates) : W[i] = Adopt(W[i - 1], candidates[i])
                  /\ Round(known, candidates) = W[Len(candidates)]
<1> DEFINE N == Len(candidates)
           Good(k, W) == W[0] = known /\ \A i \in 1..k : W[i] = Adopt(W[i - 1], candidates[i])
           T == {k \in Nat : \E W : Good(k, W)}
           IsUpTo(W) == W = [i \in 0..N |-> IF i = 0 THEN known
                                            ELSE Adopt(W[i - 1], candidates[i])]
           UpTo == CHOOSE W : IsUpTo(W)
<1>1. N \in Nat
  BY DEF IsCandidates
<1>2. 0 \in T
  <2>1. Good(0, [i \in {0} |-> known])
    OBVIOUS
  <2> QED BY <2>1
<1>3. ASSUME NEW k \in Nat, k \in T PROVE k + 1 \in T
  <2>1. PICK W : Good(k, W)
    BY <1>3
  <2> DEFINE V == [i \in 0..(k + 1) |-> IF i = k + 1 THEN Adopt(W[k], candidates[i]) ELSE W[i]]
  <2>2. ASSUME NEW i \in 1..(k + 1) PROVE V[i] = Adopt(V[i - 1], candidates[i])
    <3>1. i - 1 \in 0..k /\ V[i - 1] = W[i - 1]
      BY <1>3
    <3>2. CASE i = k + 1
      BY <1>3, <3>1, <3>2
    <3>3. CASE i # k + 1
      <4>1. i \in 1..k /\ V[i] = W[i]
        BY <1>3, <3>3
      <4> QED BY <2>1, <3>1, <4>1
    <3> QED BY <3>2, <3>3
  <2>3. V[0] = known
    BY <1>3, <2>1
  <2> HIDE DEF V
  <2>4. Good(k + 1, V)
    BY <2>2, <2>3
  <2> HIDE DEF Good
  <2> QED BY <1>3, <2>4
<1> HIDE DEF T, Good, N
<1>4. N \in T
  BY <1>1, <1>2, <1>3, NaturalInduction
<1>5. PICK W : Good(N, W)
  BY <1>4 DEF T
<1>6. IsUpTo([i \in 0..N |-> W[i]])
  <2> DEFINE V == [i \in 0..N |-> W[i]]
  <2>1. ASSUME NEW i \in 0..N
        PROVE  V[i] = IF i = 0 THEN known ELSE Adopt(V[i - 1], candidates[i])
    <3>1. CASE i = 0
      BY <1>5, <3>1 DEF Good
    <3>2. CASE i # 0
      <4>1. i \in 1..N /\ i - 1 \in 0..N
        BY <1>1, <3>2
      <4>2. V[i] = W[i] /\ V[i - 1] = W[i - 1]
        BY <4>1
      <4> HIDE DEF V
      <4> QED BY <1>5, <3>2, <4>1, <4>2 DEF Good
    <3> QED BY <3>1, <3>2
  <2> QED BY <2>1
<1> HIDE DEF IsUpTo
<1>7. IsUpTo(UpTo)
  BY <1>6
<1>8. Round(known, candidates) = UpTo[N]
  BY DEF Round, IsUpTo, N
<1> HIDE DEF UpTo
<1>9. UpTo[0] = known
  BY <1>1, <1>7 DEF IsUpTo
<1>10. ASSUME NEW i \in 1..N PROVE UpTo[i] = Adopt(UpTo[i - 1], candidates[i])
  <2>1. i \in 0..N /\ i # 0
    BY <1>1
  <2> QED BY <1>7, <2>1 DEF IsUpTo
<1> QED BY <1>8, <1>9, <1>10 DEF N

LEMMA FixedPointUnfolds ==
    ASSUME NEW known, NEW candidates, IsCandidates(candidates)
    PROVE  \E W : /\ W[0] = known
                  /\ \A i \in 1..Len(candidates) : W[i] = Round(W[i - 1], candidates)
                  /\ FixedPoint(known, candidates) = W[Len(candidates)]
<1> DEFINE N == Len(candidates)
           Good(k, W) == W[0] = known /\ \A i \in 1..k : W[i] = Round(W[i - 1], candidates)
           T == {k \in Nat : \E W : Good(k, W)}
           IsAfter(W) == W = [i \in 0..N |-> IF i = 0 THEN known
                                            ELSE Round(W[i - 1], candidates)]
           After == CHOOSE W : IsAfter(W)
<1>1. N \in Nat
  BY DEF IsCandidates
<1>2. 0 \in T
  <2>1. Good(0, [i \in {0} |-> known])
    OBVIOUS
  <2> QED BY <2>1
<1>3. ASSUME NEW k \in Nat, k \in T PROVE k + 1 \in T
  <2>1. PICK W : Good(k, W)
    BY <1>3
  <2> DEFINE V == [i \in 0..(k + 1) |-> IF i = k + 1 THEN Round(W[k], candidates) ELSE W[i]]
  <2>2. ASSUME NEW i \in 1..(k + 1) PROVE V[i] = Round(V[i - 1], candidates)
    <3>1. i - 1 \in 0..k /\ V[i - 1] = W[i - 1]
      BY <1>3
    <3>2. CASE i = k + 1
      BY <1>3, <3>1, <3>2
    <3>3. CASE i # k + 1
      <4>1. i \in 1..k /\ V[i] = W[i]
        BY <1>3, <3>3
      <4> QED BY <2>1, <3>1, <4>1
    <3> QED BY <3>2, <3>3
  <2>3. V[0] = known
    BY <1>3, <2>1
  <2> HIDE DEF V
  <2>4. Good(k + 1, V)
    BY <2>2, <2>3
  <2> HIDE DEF Good
  <2> QED BY <1>3, <2>4
<1> HIDE DEF T, Good, N
<1>4. N \in T
  BY <1>1, <1>2, <1>3, NaturalInduction
<1>5. PICK W : Good(N, W)
  BY <1>4 DEF T
<1>6. IsAfter([i \in 0..N |-> W[i]])
  <2> DEFINE V == [i \in 0..N |-> W[i]]
  <2>1. ASSUME NEW i \in 0..N
        PROVE  V[i] = IF i = 0 THEN known ELSE Round(V[i - 1], candidates)
    <3>1. CASE i = 0
      BY <1>5, <3>1 DEF Good
    <3>2. CASE i # 0
      <4>1. i \in 1..N /\ i - 1 \in 0..N
        BY <1>1, <3>2
      <4>2. V[i] = W[i] /\ V[i - 1] = W[i - 1]
        BY <4>1
      <4> HIDE DEF V
      <4> QED BY <1>5, <3>2, <4>1, <4>2 DEF Good
    <3> QED BY <3>1, <3>2
  <2> QED BY <2>1
<1> HIDE DEF IsAfter
<1>7. IsAfter(After)
  BY <1>6
<1>8. FixedPoint(known, candidates) = After[N]
  BY DEF FixedPoint, IsAfter, N
<1> HIDE DEF After
<1>9. After[0] = known
  BY <1>1, <1>7 DEF IsAfter
<1>10. ASSUME NEW i \in 1..N PROVE After[i] = Round(After[i - 1], candidates)
  <2>1. i \in 0..N /\ i # 0
    BY <1>1
  <2> QED BY <1>7, <2>1 DEF IsAfter
<1> QED BY <1>8, <1>9, <1>10 DEF N

-----------------------------------------------------------------------------
(* Derivations *)

LEMMA WithinIsOrder ==
    ASSUME NEW f, NEW g, NEW h
    PROVE  /\ Within(f, f)
           /\ Within(f, g) /\ Within(g, h) => Within(f, h)
           /\ Within(f, g) /\ Within(g, f) /\ IsKnown(f) /\ IsKnown(g) => f = g
           /\ Within(f, g) /\ DOMAIN f = DOMAIN g /\ IsKnown(f) /\ IsKnown(g) => f = g
<1>1. ASSUME Within(f, g), DOMAIN f = DOMAIN g, IsKnown(f), IsKnown(g) PROVE f = g
  BY <1>1 DEF Within, IsKnown
<1> QED BY <1>1 DEF Within

\* What composes goes on composing when more is known, to the same contract.
LEMMA ComposesOn ==
    ASSUME NEW f, NEW g, Within(f, g), NEW c, Composes(c, f)
    PROVE  Composes(c, g) /\ c.callee \in DOMAIN f /\ f[c.callee] = g[c.callee]
BY DEF Within, Composes

LEMMA AdoptGrows ==
    ASSUME NEW known, IsKnown(known), NEW c
    PROVE  LET next == Adopt(known, c)
           IN  /\ IsKnown(next) /\ Within(known, next)
               /\ DOMAIN next \subseteq DOMAIN known \cup {c.name}
               /\ Composes(c, known) => c.name \in DOMAIN next
               /\ \/ next = known
                  \/ /\ c.name \notin DOMAIN known /\ Composes(c, known)
                     /\ next[c.name] = Composed(c, known[c.callee])
<1> DEFINE next == Adopt(known, c)
<1>1. CASE c.name \notin DOMAIN known /\ Composes(c, known)
  <2>1. next = [n \in DOMAIN known \cup {c.name} |->
                  IF n = c.name THEN Composed(c, known[c.callee]) ELSE known[n]]
    BY <1>1 DEF Adopt
  <2>2. Composed(c, known[c.callee]).name = c.name
    BY DEF Composed
  <2> HIDE DEF next
  <2>3. /\ DOMAIN next = DOMAIN known \cup {c.name}
        /\ next[c.name] = Composed(c, known[c.callee])
        /\ \A n \in DOMAIN known : next[n] = known[n]
    BY <1>1, <2>1
  <2>4. IsKnown(next)
    <3>1. next = [n \in DOMAIN next |-> next[n]]
      BY <2>1
    <3>2. \A n \in DOMAIN next : next[n].name = n
      BY <2>2, <2>3 DEF IsKnown
    <3> QED BY <3>1, <3>2 DEF IsKnown
  <2> QED BY <1>1, <2>3, <2>4 DEF Within, next
<1>2. CASE ~ (c.name \notin DOMAIN known /\ Composes(c, known))
  BY <1>2 DEF Adopt, Within
<1> QED BY <1>1, <1>2

LEMMA DerivableAdopts ==
    ASSUME NEW known, NEW candidates, NEW result, Derivable(known, candidates, result),
           NEW c \in DOMAIN candidates
    PROVE  Derivable(known, candidates, Adopt(result, candidates[c]))
<1>1. PICK length \in Nat : \E s :
        s[0] = known /\ s[length] = result /\ IsDerivation(s, length, candidates)
  BY DEF Derivable
<1>2. PICK s : s[0] = known /\ s[length] = result /\ IsDerivation(s, length, candidates)
  BY <1>1
<1> DEFINE next == Adopt(result, candidates[c])
           V == [i \in 0..(length + 1) |-> IF i = length + 1 THEN next ELSE s[i]]
<1>3. V[0] = known /\ V[length + 1] = next
  BY <1>2
<1>4. ASSUME NEW i \in 1..(length + 1)
      PROVE  \E d \in DOMAIN candidates : V[i] = Adopt(V[i - 1], candidates[d])
  <2>1. i - 1 \in 0..length /\ V[i - 1] = s[i - 1]
    OBVIOUS
  <2>2. CASE i = length + 1
    <3>1. V[i] = next /\ V[i - 1] = result
      BY <1>2, <2>1, <2>2
    <3> HIDE DEF V
    <3> QED BY <3>1
  <2>3. CASE i # length + 1
    <3>1. i \in 1..length /\ V[i] = s[i]
      BY <2>3
    <3> HIDE DEF V
    <3> QED BY <1>2, <2>1, <3>1 DEF IsDerivation
  <2> QED BY <2>2, <2>3
<1> HIDE DEF V, next
<1>5. IsDerivation(V, length + 1, candidates)
  BY <1>4 DEF IsDerivation
<1> QED BY <1>3, <1>5 DEF Derivable, next

LEMMA DerivationGrows ==
    ASSUME NEW candidates, NEW s, NEW length \in Nat, IsDerivation(s, length, candidates),
           IsKnown(s[0])
    PROVE  \A i \in 0..length :
            /\ IsKnown(s[i]) /\ Within(s[0], s[i]) /\ Within(s[i], s[length])
            /\ DOMAIN s[i] \subseteq DOMAIN s[0] \cup Names(candidates)
<1> DEFINE Good(i) == /\ IsKnown(s[i]) /\ DOMAIN s[i] \subseteq DOMAIN s[0] \cup Names(candidates)
                      /\ \A j \in 0..i : Within(s[j], s[i])
           T == {i \in Nat : i <= length => Good(i)}
<1>1. 0 \in T
  <2>1. 0..0 = {0}
    OBVIOUS
  <2> QED BY <2>1, WithinIsOrder
<1>2. ASSUME NEW i \in Nat, i \in T, i + 1 <= length PROVE Good(i + 1)
  <2>1. Good(i) /\ i + 1 \in 1..length /\ (i + 1) - 1 = i
    BY <1>2
  <2>2. PICK c \in DOMAIN candidates : s[i + 1] = Adopt(s[i], candidates[c])
    BY <2>1 DEF IsDerivation
  <2>3. /\ IsKnown(s[i + 1]) /\ Within(s[i], s[i + 1])
        /\ DOMAIN s[i + 1] \subseteq DOMAIN s[i] \cup {candidates[c].name}
    BY <2>1, <2>2, AdoptGrows
  <2>4. candidates[c].name \in Names(candidates)
    BY DEF Names
  <2>5. ASSUME NEW j \in 0..(i + 1) PROVE Within(s[j], s[i + 1])
    <3>1. CASE j = i + 1
      BY <3>1, WithinIsOrder
    <3>2. CASE j # i + 1
      <4>1. j \in 0..i
        BY <1>2, <3>2
      <4> QED BY <2>1, <2>3, <4>1, WithinIsOrder
    <3> QED BY <3>1, <3>2
  <2> QED BY <2>1, <2>3, <2>4, <2>5
<1>3. \A i \in Nat : i \in T => i + 1 \in T
  BY <1>2
<1> HIDE DEF T
<1>4. Nat \subseteq T
  BY <1>1, <1>3, NaturalInduction
<1>5. \A i \in 0..length : Good(i)
  BY <1>4 DEF T
<1> QED BY <1>5

LEMMA RoundGrows ==
    ASSUME NEW known, IsKnown(known), NEW candidates, IsCandidates(candidates)
    PROVE  LET next == Round(known, candidates)
           IN  /\ IsKnown(next) /\ Within(known, next)
               /\ DOMAIN next \subseteq DOMAIN known \cup Names(candidates)
               /\ next = known <=> IsClosed(known, candidates)
               /\ \A first : Derivable(first, candidates, known) =>
                        Derivable(first, candidates, next)
<1> DEFINE N == Len(candidates)
           next == Round(known, candidates)
<1>0. N \in Nat /\ DOMAIN candidates = 1..N
  BY DEF IsCandidates
<1>1. PICK W : /\ W[0] = known
               /\ \A i \in 1..N : W[i] = Adopt(W[i - 1], candidates[i])
               /\ next = W[N]
  BY RoundUnfolds
<1> HIDE DEF N, next
<1>2. IsDerivation(W, N, candidates)
  BY <1>0, <1>1 DEF IsDerivation
<1>3. \A i \in 0..N :
        /\ IsKnown(W[i]) /\ Within(known, W[i]) /\ Within(W[i], next)
        /\ DOMAIN W[i] \subseteq DOMAIN known \cup Names(candidates)
  BY <1>0, <1>1, <1>2, DerivationGrows
<1>4. /\ IsKnown(next) /\ Within(known, next)
      /\ DOMAIN next \subseteq DOMAIN known \cup Names(candidates)
  <2>1. N \in 0..N
    BY <1>0
  <2> QED BY <1>1, <1>3, <2>1
<1>5. ASSUME next = known PROVE IsClosed(known, candidates)
  <2>1. ASSUME NEW c \in 1..N, Composes(candidates[c], known)
        PROVE  candidates[c].name \in DOMAIN known
    <3>1. c \in 0..N /\ c - 1 \in 0..N
      BY <1>0
    <3>2. W[c - 1] = known /\ W[c] = known
      BY <1>3, <1>5, <3>1, WithinIsOrder
    <3>3. known = Adopt(known, candidates[c])
      BY <1>1, <3>2
    <3> QED BY <2>1, <3>3, AdoptGrows
  <2> QED BY <1>0, <2>1 DEF IsClosed
<1>6. ASSUME IsClosed(known, candidates) PROVE next = known
  <2> DEFINE T == {i \in Nat : i <= N => W[i] = known}
  <2>1. 0 \in T
    BY <1>1
  <2>2. ASSUME NEW i \in Nat, i \in T, i + 1 <= N PROVE W[i + 1] = known
    <3>1. i + 1 \in 1..N /\ (i + 1) - 1 = i /\ W[i] = known
      BY <1>0, <2>2
    <3>2. W[i + 1] = Adopt(known, candidates[i + 1])
      BY <1>1, <3>1
    <3> QED BY <1>0, <1>6, <3>1, <3>2 DEF IsClosed, Adopt
  <2>3. \A i \in Nat : i \in T => i + 1 \in T
    BY <2>2
  <2> HIDE DEF T
  <2>4. N \in T
    BY <1>0, <2>1, <2>3, NaturalInduction
  <2> QED BY <1>0, <1>1, <2>4 DEF T
<1>7. ASSUME NEW first, Derivable(first, candidates, known)
      PROVE  Derivable(first, candidates, next)
  <2> DEFINE T == {i \in Nat : i <= N => Derivable(first, candidates, W[i])}
  <2>1. 0 \in T
    BY <1>1, <1>7
  <2>2. ASSUME NEW i \in Nat, i \in T, i + 1 <= N PROVE Derivable(first, candidates, W[i + 1])
    <3>1. i + 1 \in 1..N /\ (i + 1) - 1 = i /\ Derivable(first, candidates, W[i])
      BY <1>0, <2>2
    <3>2. W[i + 1] = Adopt(W[i], candidates[i + 1])
      BY <1>1, <3>1
    <3> QED BY <1>0, <3>1, <3>2, DerivableAdopts
  <2>3. \A i \in Nat : i \in T => i + 1 \in T
    BY <2>2
  <2> HIDE DEF T
  <2>4. N \in T
    BY <1>0, <2>1, <2>3, NaturalInduction
  <2> QED BY <1>0, <1>1, <2>4 DEF T
<1> QED BY <1>4, <1>5, <1>6, <1>7 DEF next

\* As many rounds as there are candidates leave nothing that could be adopted.
THEOREM FixedPointIsClosed ==
    ASSUME NEW known, IsKnown(known), NEW candidates, IsCandidates(candidates)
    PROVE  LET result == FixedPoint(known, candidates)
           IN  /\ IsKnown(result) /\ Within(known, result) /\ IsClosed(result, candidates)
               /\ Derivable(known, candidates, result)
<1> DEFINE N == Len(candidates)
           S == Names(candidates)
           M == Cardinality(S)
           result == FixedPoint(known, candidates)
<1>0. N \in Nat /\ DOMAIN candidates = 1..N
  BY DEF IsCandidates
<1>1. PICK W : /\ W[0] = known
               /\ \A i \in 1..N : W[i] = Round(W[i - 1], candidates)
               /\ result = W[N]
  BY FixedPointUnfolds
<1>2. IsFiniteSet(S) /\ M \in Nat /\ M <= N
  <2> DEFINE name == [i \in 1..N |-> candidates[i].name]
  <2>1. name \in Surjection(1..N, S)
    BY <1>0 DEF Names, Surjection
  <2> HIDE DEF name, S, N
  <2>2. IsFiniteSet(1..N) /\ Cardinality(1..N) = N
    <3>1. N \in Int /\ 1 \in Int
      BY <1>0
    <3> QED BY <1>0, <3>1, FS_Interval
  <2>3. IsFiniteSet(S) /\ Cardinality(S) <= Cardinality(1..N)
    BY <2>1, <2>2, FS_Surjection
  <2> QED BY <2>2, <2>3, FS_CardinalityType
<1> HIDE DEF N, S, M, result
<1> DEFINE Good(i) == /\ IsKnown(W[i]) /\ Within(known, W[i])
                      /\ DOMAIN W[i] \subseteq DOMAIN known \cup S
                      /\ Derivable(known, candidates, W[i])
           T == {i \in Nat : i <= N => Good(i)}
<1>3. 0 \in T
  <2>1. Derivable(known, candidates, known)
    <3>1. IsDerivation([i \in {0} |-> known], 0, candidates)
      BY DEF IsDerivation
    <3> QED BY <3>1 DEF Derivable
  <2> QED BY <1>1, <2>1, WithinIsOrder
<1>4. ASSUME NEW i \in Nat, i \in T, i + 1 <= N PROVE Good(i + 1)
  <2>1. i + 1 \in 1..N /\ (i + 1) - 1 = i /\ Good(i)
    BY <1>0, <1>4
  <2>2. W[i + 1] = Round(W[i], candidates)
    BY <1>1, <2>1
  <2>3. /\ IsKnown(W[i + 1]) /\ Within(W[i], W[i + 1])
        /\ DOMAIN W[i + 1] \subseteq DOMAIN W[i] \cup S
        /\ Derivable(known, candidates, W[i + 1])
    BY <2>1, <2>2, RoundGrows DEF S
  <2> QED BY <2>1, <2>3, WithinIsOrder
<1>5. \A i \in Nat : i \in T => i + 1 \in T
  BY <1>4
<1> HIDE DEF T
<1>6. Nat \subseteq T
  BY <1>3, <1>5, NaturalInduction
<1>7. \A i \in 0..N : Good(i)
  BY <1>6 DEF T
<1> DEFINE Closed == {i \in 0..N : IsClosed(W[i], candidates)}
           Added == [i \in 0..N |-> DOMAIN W[i] \ DOMAIN known]
<1>8. ASSUME NEW i \in 1..N
      PROVE  /\ i \in 0..N /\ i - 1 \in 0..N
             /\ Added[i - 1] \subseteq Added[i]
             /\ Added[i - 1] = Added[i] => i - 1 \in Closed
             /\ i - 1 \in Closed => i \in Closed
  <2>1. i \in 0..N /\ i - 1 \in 0..N
    BY <1>0
  <2>2. Good(i) /\ Good(i - 1) /\ W[i] = Round(W[i - 1], candidates)
    BY <1>1, <1>7, <2>1
  <2>3. Within(W[i - 1], W[i]) /\ (W[i] = W[i - 1] <=> IsClosed(W[i - 1], candidates))
    BY <2>2, RoundGrows
  <2>4. Added[i - 1] = Added[i] => DOMAIN W[i - 1] = DOMAIN W[i]
    BY <2>1, <2>2 DEF Within
  <2>5. Added[i - 1] = Added[i] => W[i - 1] = W[i]
    BY <2>2, <2>3, <2>4, WithinIsOrder
  <2>6. Added[i - 1] \subseteq Added[i]
    BY <2>1, <2>3 DEF Within
  <2> QED BY <2>1, <2>3, <2>5, <2>6
<1>9. ASSUME NEW i \in 0..N, Added[i] = S PROVE i \in Closed
  BY <1>9 DEF IsClosed, S, Names
<1>10. \A i \in 0..N : Added[i] \subseteq S
  BY <1>7
<1> HIDE DEF Closed, Added, Good
<1>11. M \in Closed
  <2>1. \A i \in 0..M : Added[i] \subseteq S
    BY <1>0, <1>2, <1>10
  <2>2. \A i \in 1..M : i \in 1..N
    BY <1>0, <1>2
  <2>3. \A i \in 1..M : /\ Added[i - 1] \subseteq Added[i]
                        /\ Added[i - 1] = Added[i] => i - 1 \in Closed
                        /\ i - 1 \in Closed => i \in Closed
    BY <1>8, <2>2
  <2>4. Added[M] = S => M \in Closed
    BY <1>0, <1>2, <1>9
  <2> QED BY <1>2, <2>1, <2>3, <2>4, GrowingCloses DEF M
<1>12. N \in Closed
  <2> DEFINE U == {k \in Nat : M + k <= N => M + k \in Closed}
  <2>1. 0 \in U
    BY <1>2, <1>11
  <2>2. ASSUME NEW k \in Nat, k \in U, M + (k + 1) <= N PROVE M + (k + 1) \in Closed
    <3>1. M + (k + 1) \in 1..N /\ (M + (k + 1)) - 1 = M + k /\ M + k \in Closed
      BY <1>0, <1>2, <2>2
    <3> QED BY <1>8, <3>1
  <2>3. \A k \in Nat : k \in U => k + 1 \in U
    BY <2>2
  <2> HIDE DEF U
  <2>4. N - M \in U
    BY <1>0, <1>2, <2>1, <2>3, NaturalInduction
  <2>5. M + (N - M) = N
    BY <1>0, <1>2
  <2> QED BY <1>0, <2>4, <2>5 DEF U
<1>13. N \in 0..N
  BY <1>0
<1> QED BY <1>1, <1>7, <1>12, <1>13 DEF Good, Closed, result

\* A contract that was composed is of a candidate, and of the callee's contract.
LEMMA ComposedFrom ==
    ASSUME NEW candidates, NEW s, NEW length \in Nat, IsDerivation(s, length, candidates),
           IsKnown(s[0]), NEW n \in DOMAIN s[length] \ DOMAIN s[0]
    PROVE  \E i \in 1..length : \E c \in DOMAIN candidates :
            /\ candidates[c].name = n /\ n \notin DOMAIN s[i - 1] /\ n \in DOMAIN s[i]
            /\ Composes(candidates[c], s[i - 1])
            /\ s[length][n] = Composed(candidates[c], s[i - 1][candidates[c].callee])
<1> DEFINE T == {i \in 0..length : n \in DOMAIN s[i]}
<1>1. T \in SUBSET Nat /\ T # {}
  OBVIOUS
<1>2. PICK i \in T : \A j \in T : i <= j
  <2> HIDE DEF T
  <2> QED BY <1>1, LeastNatural
<1>3. i \in 1..length /\ i - 1 \in 0..length /\ i - 1 \notin T
  BY <1>2
<1>4. n \notin DOMAIN s[i - 1] /\ n \in DOMAIN s[i]
  BY <1>2, <1>3
<1>5. PICK c \in DOMAIN candidates : s[i] = Adopt(s[i - 1], candidates[c])
  BY <1>3 DEF IsDerivation
<1>6. IsKnown(s[i - 1]) /\ Within(s[i], s[length])
  BY <1>3, DerivationGrows
<1>7. /\ candidates[c].name = n /\ Composes(candidates[c], s[i - 1])
      /\ s[i][n] = Composed(candidates[c], s[i - 1][candidates[c].callee])
  <2> DEFINE known == s[i - 1]
             next == Adopt(known, candidates[c])
  <2>1. IsKnown(known) /\ n \notin DOMAIN known /\ n \in DOMAIN next /\ s[i] = next
    BY <1>4, <1>5, <1>6
  <2> HIDE DEF known
  <2>2. /\ DOMAIN next \subseteq DOMAIN known \cup {candidates[c].name}
        /\ \/ next = known
           \/ /\ Composes(candidates[c], known)
              /\ next[candidates[c].name] = Composed(candidates[c], known[candidates[c].callee])
    BY <2>1, AdoptGrows
  <2> HIDE DEF next
  <2> QED BY <2>1, <2>2 DEF known
<1>8. s[length][n] = s[i][n]
  BY <1>4, <1>6 DEF Within
<1> QED BY <1>3, <1>4, <1>7, <1>8

\* What is derived from a part of a closed result stays within it, if the result has a
\* candidate's own contract under its name.
LEMMA DerivedWithin ==
    ASSUME NEW direct, NEW known, NEW candidates, NEW result, NEW full,
           IsKnown(known), Derivable(known, candidates, result),
           DOMAIN direct \subseteq DOMAIN known, Within(known, full), IsClosed(full, candidates),
           \A c \in DOMAIN candidates :
                Composes(candidates[c], full) /\ candidates[c].name \notin DOMAIN direct =>
                    full[candidates[c].name] = Composed(candidates[c], full[candidates[c].callee])
    PROVE  Within(result, full)
<1>1. PICK length \in Nat : \E s :
        s[0] = known /\ s[length] = result /\ IsDerivation(s, length, candidates)
  BY DEF Derivable
<1>2. PICK s : s[0] = known /\ s[length] = result /\ IsDerivation(s, length, candidates)
  BY <1>1
<1> DEFINE T == {i \in Nat : i <= length => Within(s[i], full)}
<1>3. 0 \in T
  BY <1>2
<1>4. ASSUME NEW i \in Nat, i \in T, i + 1 <= length PROVE Within(s[i + 1], full)
  <2>1. i \in 0..length /\ i + 1 \in 1..length /\ (i + 1) - 1 = i /\ Within(s[i], full)
    BY <1>4
  <2>2. PICK c \in DOMAIN candidates : s[i + 1] = Adopt(s[i], candidates[c])
    BY <1>2, <2>1 DEF IsDerivation
  <2>3. IsKnown(s[i]) /\ Within(known, s[i])
    BY <1>2, <2>1, DerivationGrows
  <2>4. CASE s[i + 1] = s[i]
    BY <2>1, <2>4
  <2>5. CASE s[i + 1] # s[i]
    <3> DEFINE name == candidates[c].name
               contract == Composed(candidates[c], s[i][candidates[c].callee])
    <3>1. /\ name \notin DOMAIN s[i] /\ Composes(candidates[c], s[i])
          /\ Within(s[i], s[i + 1]) /\ DOMAIN s[i + 1] \subseteq DOMAIN s[i] \cup {name}
          /\ s[i + 1][name] = contract
      BY <2>2, <2>3, <2>5, AdoptGrows
    <3>2. name \notin DOMAIN direct
      BY <2>3, <3>1 DEF Within
    <3>3. Composes(candidates[c], full) /\ full[candidates[c].callee] = s[i][candidates[c].callee]
      BY <2>1, <3>1, ComposesOn
    <3>4. name \in DOMAIN full /\ full[name] = contract
      BY <3>2, <3>3 DEF IsClosed
    <3> HIDE DEF name, contract
    <3> QED BY <2>1, <3>1, <3>4 DEF Within
  <2> QED BY <2>4, <2>5
<1>5. \A i \in Nat : i \in T => i + 1 \in T
  BY <1>4
<1> HIDE DEF T
<1>6. length \in T
  BY <1>3, <1>5, NaturalInduction
<1> QED BY <1>2, <1>6 DEF T

\* Where no two candidates have one name, a composed contract is of the one of its name.
LEMMA OwnCandidate ==
    ASSUME NEW direct, IsKnown(direct), NEW candidates, IsCandidates(candidates),
           \A c, d \in DOMAIN candidates : candidates[c].name = candidates[d].name => c = d,
           NEW c \in DOMAIN candidates, Composes(candidates[c], FixedPoint(direct, candidates)),
           candidates[c].name \notin DOMAIN direct
    PROVE  LET full == FixedPoint(direct, candidates)
           IN  full[candidates[c].name] = Composed(candidates[c], full[candidates[c].callee])
<1> DEFINE full == FixedPoint(direct, candidates)
<1>1. IsClosed(full, candidates) /\ Derivable(direct, candidates, full)
  BY FixedPointIsClosed
<1>2. Composes(candidates[c], full)
  OBVIOUS
<1> HIDE DEF full
<1>3. PICK length \in Nat : \E s :
        s[0] = direct /\ s[length] = full /\ IsDerivation(s, length, candidates)
  BY <1>1 DEF Derivable
<1>4. PICK s : s[0] = direct /\ s[length] = full /\ IsDerivation(s, length, candidates)
  BY <1>3
<1>5. candidates[c].name \in DOMAIN full
  BY <1>1, <1>2 DEF IsClosed
<1>6. PICK i \in 1..length, d \in DOMAIN candidates :
        /\ candidates[d].name = candidates[c].name
        /\ Composes(candidates[d], s[i - 1])
        /\ full[candidates[c].name] = Composed(candidates[d], s[i - 1][candidates[d].callee])
  BY <1>4, <1>5, ComposedFrom
<1>7. d = c
  BY <1>6
<1>8. i - 1 \in 0..length
  OBVIOUS
<1>9. Within(s[i - 1], full)
  BY <1>4, <1>8, DerivationGrows
<1>10. s[i - 1][candidates[c].callee] = full[candidates[c].callee]
  BY <1>6, <1>7, <1>9, ComposesOn
<1>11. full[candidates[c].name] = Composed(candidates[c], full[candidates[c].callee])
  BY <1>6, <1>7, <1>10
<1> QED BY <1>11 DEF full

\* Where no two candidates have one name, it does not matter what of the result was known
\* before.
LEMMA FixedPointIsUnique ==
    ASSUME NEW direct, IsKnown(direct), NEW known, IsKnown(known),
           NEW candidates, IsCandidates(candidates),
           \A c, d \in DOMAIN candidates : candidates[c].name = candidates[d].name => c = d,
           Within(direct, known), Within(known, FixedPoint(direct, candidates))
    PROVE  FixedPoint(known, candidates) = FixedPoint(direct, candidates)
<1> DEFINE full == FixedPoint(direct, candidates)
           result == FixedPoint(known, candidates)
<1>1. /\ IsKnown(full) /\ Within(direct, full) /\ IsClosed(full, candidates)
      /\ Derivable(direct, candidates, full)
  BY FixedPointIsClosed
<1>2. /\ IsKnown(result) /\ Within(known, result) /\ IsClosed(result, candidates)
      /\ Derivable(known, candidates, result)
  BY FixedPointIsClosed
<1>0. Within(known, full)
  OBVIOUS
<1> HIDE DEF full, result
<1>3. ASSUME NEW c \in DOMAIN candidates, Composes(candidates[c], full),
             candidates[c].name \notin DOMAIN direct
      PROVE  full[candidates[c].name] = Composed(candidates[c], full[candidates[c].callee])
  BY <1>3, OwnCandidate DEF full
<1>4. Within(result, full)
  <2>1. DOMAIN direct \subseteq DOMAIN known
    BY DEF Within
  <2> QED BY <1>0, <1>1, <1>2, <1>3, <2>1, DerivedWithin
<1>5. ASSUME NEW c \in DOMAIN candidates, Composes(candidates[c], result),
             candidates[c].name \notin DOMAIN direct
      PROVE  result[candidates[c].name] = Composed(candidates[c], result[candidates[c].callee])
  <2>1. /\ Composes(candidates[c], full)
        /\ result[candidates[c].callee] = full[candidates[c].callee]
    BY <1>4, <1>5, ComposesOn
  <2>2. candidates[c].name \in DOMAIN result
    BY <1>2, <1>5 DEF IsClosed
  <2>3. result[candidates[c].name] = full[candidates[c].name]
    BY <1>4, <2>2 DEF Within
  <2> QED BY <1>3, <1>5, <2>1, <2>3
<1>6. Within(full, result)
  <2>1. Within(direct, result)
    BY <1>2, WithinIsOrder
  <2> QED BY <1>1, <1>2, <1>5, <2>1, DerivedWithin
<1>7. full = result
  BY <1>1, <1>2, <1>4, <1>6, WithinIsOrder
<1> QED BY <1>7 DEF full, result
-----------------------------------------------------------------------------
(* Incremental composition *)

LEMMA DirectIsKnown == ASSUME NEW head, IsHead(head) PROVE IsKnown(Direct(head))
<1> DEFINE names(f) == {c.name : c \in head[f].direct}
           Last(n, f) == n \in names(f) /\ \A g \in DOMAIN head : n \in names(g) => g <= f
           last(n) == CHOOSE f \in DOMAIN head : Last(n, f)
           D == UNION {names(f) : f \in DOMAIN head}
           value(n) == CHOOSE c \in head[last(n)].direct : c.name = n
<1>1. Direct(head) = [n \in D |-> value(n)]
  BY DEF Direct
<1>2. ASSUME NEW n \in D PROVE value(n).name = n
  <2>1. PICK N \in Nat : DOMAIN head = 1..N
    BY DEF IsHead
  <2> DEFINE T == {k \in Nat : \E f \in 1..N : n \in names(f) /\ k = N - f}
  <2>2. T # {}
    <3>1. PICK f \in 1..N : n \in names(f)
      BY <2>1
    <3> HIDE DEF names
    <3>2. N - f \in T
      BY <3>1
    <3> QED BY <3>2
  <2> HIDE DEF names
  <2>3. PICK k \in T : \A l \in T : k <= l
    <3>1. T \in SUBSET Nat
      OBVIOUS
    <3> HIDE DEF T
    <3> QED BY <2>2, <3>1, LeastNatural
  <2>4. PICK f \in 1..N : n \in names(f) /\ k = N - f
    OBVIOUS
  <2>5. ASSUME NEW g \in DOMAIN head, n \in names(g) PROVE g <= f
    <3>1. g \in 1..N /\ N - g \in T
      BY <2>1, <2>5
    <3> QED BY <2>3, <2>4, <3>1
  <2>6. f \in DOMAIN head /\ Last(n, f)
    BY <2>1, <2>4, <2>5
  <2> HIDE DEF Last
  <2>7. last(n) \in DOMAIN head /\ Last(n, last(n))
    BY <2>6
  <2> HIDE DEF last
  <2>8. \E c \in head[last(n)].direct : c.name = n
    BY <2>7 DEF Last, names
  <2> QED BY <2>8
<1> HIDE DEF D, value
<1> QED BY <1>1, <1>2 DEF IsKnown

LEMMA NamesAreFinite ==
    ASSUME NEW candidates, IsCandidates(candidates)
    PROVE  IsFiniteSet(Names(candidates))
<1> DEFINE N == Len(candidates)
           name == [i \in 1..N |-> candidates[i].name]
<1>1. N \in Nat /\ DOMAIN candidates = 1..N
  BY DEF IsCandidates
<1>2. name \in Surjection(1..N, Names(candidates))
  BY <1>1 DEF Names, Surjection
<1> HIDE DEF N, name
<1>3. IsFiniteSet(1..N)
  <2>1. N \in Int /\ 1 \in Int
    BY <1>1
  <2> QED BY <2>1, FS_Interval
<1> QED BY <1>2, <1>3, FS_Surjection

LEMMA NamesAreUnique ==
    ASSUME NEW head, IsHead(head), ~ Ambiguous(head)
    PROVE  LET candidates == Candidates(head)
               first == FirstCandidates(head)
           IN  /\ \A c, d \in DOMAIN candidates : candidates[c].name = candidates[d].name => c = d
               /\ \A c \in DOMAIN candidates : first[candidates[c].name] = candidates[c]
<1> DEFINE candidates == Candidates(head)
           N == Len(candidates)
           S == Names(candidates)
           first(n) == CHOOSE i \in DOMAIN candidates :
                            /\ candidates[i].name = n
                            /\ \A j \in DOMAIN candidates : candidates[j].name = n => i <= j
<1>1. N \in Nat /\ DOMAIN candidates = 1..N
  BY CandidatesAreASequence DEF IsCandidates
<1>2. N = Cardinality(S)
  BY DEF Ambiguous
<1>3. FirstCandidates(head) = [n \in S |-> candidates[first(n)]]
  BY DEF FirstCandidates
<1> HIDE DEF candidates, N
<1> DEFINE name == [i \in 1..N |-> candidates[i].name]
<1>4. name \in Surjection(1..N, S)
  BY <1>1 DEF Names, Surjection
<1> HIDE DEF S
<1>5. IsFiniteSet(1..N) /\ Cardinality(1..N) = N
  <2>1. N \in Int /\ 1 \in Int
    BY <1>1
  <2> QED BY <1>1, <2>1, FS_Interval
<1>6. name \in Injection(1..N, S)
  <2> HIDE DEF name
  <2> QED BY <1>2, <1>4, <1>5, FS_SurjSameCardinalityImpliesInj
<1>7. \A c, d \in DOMAIN candidates : candidates[c].name = candidates[d].name => c = d
  <2>1. \A c, d \in 1..N : name[c] = name[d] => c = d
    <3> HIDE DEF name
    <3> QED BY <1>6 DEF Injection, IsInjective
  <2> QED BY <1>1, <2>1
<1>8. ASSUME NEW c \in DOMAIN candidates PROVE FirstCandidates(head)[candidates[c].name] = candidates[c]
  <2>1. \A i \in DOMAIN candidates : candidates[i].name = candidates[c].name <=> i = c
    BY <1>7
  <2>2. c <= c
    BY <1>1
  <2>3. first(candidates[c].name) = c
    BY <2>1, <2>2
  <2>4. candidates[c].name \in S
    BY DEF S, Names
  <2> QED BY <1>3, <2>3, <2>4
<1> QED BY <1>7, <1>8 DEF candidates

\* Who forwards to a name of the closure is in it.
LEMMA DependencyClosureIsClosed ==
    ASSUME NEW seeds, NEW previous, NEW current,
           IsFiniteSet(DOMAIN previous), IsFiniteSet(DOMAIN current)
    PROVE  LET closure == DependencyClosure(seeds, previous, current)
           IN  seeds \subseteq closure /\ Dependents(closure, previous, current) \subseteq closure
<1> DEFINE D == DOMAIN previous \cup DOMAIN current
           N == Cardinality(D)
           IsReached(W) == W = [i \in 0..N |->
                IF i = 0 THEN seeds ELSE W[i - 1] \cup Dependents(W[i - 1], previous, current)]
           R == CHOOSE W : IsReached(W)
           closure == DependencyClosure(seeds, previous, current)
<1>0. IsFiniteSet(D) /\ N \in Nat
  BY FS_Union, FS_CardinalityType
<1>1. closure = R[N]
  BY DEF DependencyClosure
<1>2. \A A : Dependents(A, previous, current) \subseteq D
  BY DEF Dependents
<1> HIDE DEF D, N, closure
<1>3. IsReached(R)
  <2> DEFINE X == SUBSET (seeds \cup D)
             f == [A \in X |-> A \cup Dependents(A, previous, current)]
  <2>1. f \in [X -> X] /\ seeds \in X
    BY <1>2
  <2>2. \A A \in X : f[A] = A \cup Dependents(A, previous, current)
    OBVIOUS
  <2> HIDE DEF X, f
  <2>3. PICK W : W \in Iterations(X, N, seeds, f)
    BY <1>0, <2>1, IterationExists
  <2>4. W \in [0..N -> X] /\ W[0] = seeds /\ \A i \in 1..N : W[i] = f[W[i - 1]]
    BY <2>3 DEF Iterations
  <2>5. ASSUME NEW i \in 1..N PROVE W[i] = W[i - 1] \cup Dependents(W[i - 1], previous, current)
    <3>1. i - 1 \in 0..N /\ W[i] = f[W[i - 1]]
      BY <1>0, <2>4
    <3> QED BY <2>2, <2>4, <3>1
  <2>6. IsReached(W)
    BY <1>0, <2>4, <2>5
  <2> HIDE DEF IsReached
  <2> QED BY <2>6
<1> HIDE DEF R
<1>4. R[0] = seeds
  BY <1>0, <1>3
<1>5. \A i \in 1..N : R[i] = R[i - 1] \cup Dependents(R[i - 1], previous, current)
  <2> TAKE i \in 1..N
  <2>1. i \in 0..N /\ i # 0
    BY <1>0
  <2> QED BY <1>3, <2>1
<1> HIDE DEF IsReached
<1> DEFINE T == {i \in Nat : i <= N => seeds \subseteq R[i] /\ R[i] \subseteq seeds \cup D}
<1>6. 0 \in T
  BY <1>4
<1>7. ASSUME NEW i \in Nat, i \in T, i + 1 <= N
      PROVE seeds \subseteq R[i + 1] /\ R[i + 1] \subseteq seeds \cup D
  <2>1. i + 1 \in 1..N /\ (i + 1) - 1 = i
    BY <1>0, <1>7
  <2>2. R[i + 1] = R[i] \cup Dependents(R[i], previous, current)
    BY <1>5, <2>1
  <2> QED BY <1>0, <1>2, <1>7, <2>2
<1>8. \A i \in Nat : i \in T => i + 1 \in T
  BY <1>7
<1> HIDE DEF T
<1>9. Nat \subseteq T
  BY <1>6, <1>8, NaturalInduction
<1>10. \A i \in 0..N : seeds \subseteq R[i] /\ R[i] \subseteq seeds \cup D
  BY <1>9 DEF T
<1> DEFINE Closed == {i \in 0..N : Dependents(R[i], previous, current) \subseteq R[i]}
           Inside == [i \in 0..N |-> R[i] \cap D]
<1>11. ASSUME NEW i \in 1..N
       PROVE  /\ Inside[i - 1] \subseteq Inside[i]
              /\ Inside[i - 1] = Inside[i] => i - 1 \in Closed
              /\ i - 1 \in Closed => i \in Closed
  <2>1. i \in 0..N /\ i - 1 \in 0..N
    BY <1>0
  <2>2. R[i] = R[i - 1] \cup Dependents(R[i - 1], previous, current)
    BY <1>5
  <2>3. Inside[i] = R[i] \cap D /\ Inside[i - 1] = R[i - 1] \cap D
    BY <2>1
  <2>4. i - 1 \in Closed => R[i] = R[i - 1]
    BY <2>2
  <2>5. Inside[i - 1] = Inside[i] => Dependents(R[i - 1], previous, current) \subseteq R[i - 1]
    BY <1>2, <2>2, <2>3
  <2> QED BY <2>1, <2>2, <2>3, <2>4, <2>5
<1>12. Inside[N] = D => N \in Closed
  BY <1>0, <1>2
<1>13. \A i \in 0..N : Inside[i] \subseteq D
  OBVIOUS
<1> HIDE DEF Closed, Inside
<1>14. N \in Closed
  BY <1>0, <1>11, <1>12, <1>13, GrowingCloses DEF N
<1>15. N \in 0..N
  BY <1>0
<1> QED BY <1>1, <1>10, <1>14, <1>15 DEF Closed, closure

\* A contract whose name depends on nothing that changed is in the full composition of both.
LEMMA UnchangedIsKept ==
    ASSUME NEW old, IsHead(old), FirstIsUsed(old), NEW head, IsHead(head), ~ Ambiguous(head)
    PROVE  LET before == FirstCandidates(old)
               now == FirstCandidates(head)
               seeds == Changed(Direct(head), Direct(old)) \cup Changed(now, before)
           IN  \A n \in DOMAIN FullContracts(old) \ DependencyClosure(seeds, before, now) :
                    /\ n \in DOMAIN FullContracts(head)
                    /\ FullContracts(head)[n] = FullContracts(old)[n]
<1> DEFINE before == FirstCandidates(old)
           now == FirstCandidates(head)
           direct == Direct(head)
           seeds == Changed(direct, Direct(old)) \cup Changed(now, before)
           closure == DependencyClosure(seeds, before, now)
           candidates == Candidates(head)
           earlier == Candidates(old)
           full == FullContracts(head)
           past == FullContracts(old)
<1>1. IsCandidates(candidates) /\ IsCandidates(earlier) /\ IsKnown(direct) /\ IsKnown(Direct(old))
  BY CandidatesAreASequence, DirectIsKnown
<1>2. DOMAIN before = Names(earlier) /\ DOMAIN now = Names(candidates)
  BY DEF FirstCandidates
<1>3. IsFiniteSet(DOMAIN before) /\ IsFiniteSet(DOMAIN now)
  BY <1>1, <1>2, NamesAreFinite
<1>4. seeds \subseteq closure /\ Dependents(closure, before, now) \subseteq closure
  BY <1>3, DependencyClosureIsClosed
<1>5. /\ \A c, d \in DOMAIN candidates : candidates[c].name = candidates[d].name => c = d
      /\ \A c \in DOMAIN candidates : now[candidates[c].name] = candidates[c]
  BY NamesAreUnique
<1>6. full = FixedPoint(direct, candidates) /\ past = FixedPoint(Direct(old), earlier)
  BY DEF FullContracts
<1>7. /\ IsKnown(full) /\ Within(direct, full) /\ IsClosed(full, candidates)
      /\ IsKnown(past) /\ Within(Direct(old), past) /\ Derivable(Direct(old), earlier, past)
  BY <1>1, <1>6, FixedPointIsClosed
<1>8. ASSUME NEW c \in DOMAIN candidates, Composes(candidates[c], full),
             candidates[c].name \notin DOMAIN direct
      PROVE  full[candidates[c].name] = Composed(candidates[c], full[candidates[c].callee])
  BY <1>1, <1>5, <1>6, <1>8, OwnCandidate
<1>9. \A n \in DOMAIN past : past[n].from # <<>> =>
            past[n] = Composed(before[n], past[n].from[1])
                /\ past[n].from[1].name = before[n].callee
  BY DEF FirstIsUsed
<1>10. ASSUME NEW n \in Changed(direct, Direct(old)) PROVE n \in closure
  BY <1>4
<1>11. ASSUME NEW n \in Changed(now, before) PROVE n \in closure
  BY <1>4
<1> HIDE DEF before, now, direct, seeds, closure, candidates, earlier, full, past
<1>12. PICK length \in Nat : \E s :
        s[0] = Direct(old) /\ s[length] = past /\ IsDerivation(s, length, earlier)
  BY <1>7 DEF Derivable
<1>13. PICK s : s[0] = Direct(old) /\ s[length] = past /\ IsDerivation(s, length, earlier)
  BY <1>12
<1> DEFINE Kept(i) == \A n \in DOMAIN s[i] \ closure : n \in DOMAIN full /\ full[n] = past[n]
           T == {i \in Nat : i <= length => Kept(i)}
<1>14. ASSUME NEW n \in DOMAIN Direct(old) \ closure
       PROVE  n \in DOMAIN full /\ full[n] = past[n]
  <2>1. n \in DOMAIN direct /\ direct[n] = Direct(old)[n]
    BY <1>10 DEF Changed
  <2> QED BY <1>7, <2>1 DEF Within
<1>15. 0 \in T
  BY <1>13, <1>14
<1>16. ASSUME NEW i \in Nat, i \in T, i + 1 <= length, NEW n \in DOMAIN s[i + 1] \ closure,
              n \notin DOMAIN s[i]
       PROVE  n \in DOMAIN full /\ full[n] = past[n]
  <2>1. /\ i \in 0..length /\ i + 1 \in 0..length
        /\ i + 1 \in 1..length /\ (i + 1) - 1 = i /\ Kept(i)
    BY <1>16
  <2>2. PICK c \in DOMAIN earlier : s[i + 1] = Adopt(s[i], earlier[c])
    BY <1>13, <2>1 DEF IsDerivation
  <2>3. /\ IsKnown(s[i]) /\ Within(Direct(old), s[i]) /\ Within(s[i], past)
        /\ Within(s[i + 1], past)
    BY <1>1, <1>13, <2>1, DerivationGrows
  <2> DEFINE known == s[i]
             next == Adopt(known, earlier[c])
             callee == earlier[c].callee
  <2>4. IsKnown(known) /\ n \in DOMAIN next /\ n \notin DOMAIN known /\ s[i + 1] = next
    BY <1>16, <2>2, <2>3
  <2> HIDE DEF known
  <2>5. /\ DOMAIN next \subseteq DOMAIN known \cup {earlier[c].name}
        /\ \/ next = known
           \/ /\ Composes(earlier[c], known)
              /\ next[earlier[c].name] = Composed(earlier[c], known[callee])
    BY <2>4, AdoptGrows
  <2> HIDE DEF next
  <2>6. /\ n = earlier[c].name /\ Composes(earlier[c], known)
        /\ next[n] = Composed(earlier[c], known[callee])
    BY <2>4, <2>5
  <2>7. past[n] = Composed(earlier[c], known[callee]) /\ n \in DOMAIN past
    BY <2>3, <2>4, <2>6 DEF Within
  <2>8. callee \in DOMAIN known /\ Substituted(earlier[c], known[callee]) # Unknown
    BY <2>6 DEF Composes
  <2>9. /\ past[n].from # <<>> /\ past[n].from[1] = known[callee]
        /\ past[n].term = Substituted(earlier[c], known[callee])
    BY <2>7 DEF Composed
  <2>10. known[callee].name = callee
    BY <2>4, <2>8 DEF IsKnown
  <2>11. past[n] = Composed(before[n], known[callee]) /\ before[n].callee = callee
    BY <1>9, <2>7, <2>9, <2>10
  <2>12. n \in DOMAIN now /\ now[n] = before[n]
    <3>1. n \in DOMAIN before
      BY <1>2, <2>6 DEF Names
    <3> QED BY <1>11, <1>16, <3>1 DEF Changed
  <2>13. n \notin DOMAIN direct
    <3>1. n \notin DOMAIN Direct(old)
      BY <2>3, <2>4 DEF Within, known
    <3> QED BY <1>10, <1>16, <3>1 DEF Changed
  <2>14. callee \notin closure
    <3>1. n \in DOMAIN before
      BY <1>2, <2>6 DEF Names
    <3>2. callee \in closure => n \in Dependents(closure, before, now)
      BY <2>11, <3>1 DEF Dependents
    <3> QED BY <1>4, <1>16, <3>2
  <2>15. callee \in DOMAIN full /\ full[callee] = known[callee]
    <3>1. callee \in DOMAIN full /\ full[callee] = past[callee]
      BY <2>1, <2>8, <2>14 DEF known
    <3> QED BY <2>3, <2>8, <3>1 DEF Within, known
  <2>16. PICK d \in DOMAIN candidates : n = candidates[d].name
    BY <1>2, <2>12 DEF Names
  <2>17. candidates[d] = before[n]
    BY <1>5, <2>12, <2>16
  <2>18. Substituted(before[n], known[callee]) # Unknown
    <3>1. past[n].term = Substituted(before[n], known[callee])
      BY <2>11 DEF Composed
    <3> QED BY <2>8, <2>9, <3>1
  <2>19. Composes(candidates[d], full)
    BY <2>11, <2>15, <2>17, <2>18 DEF Composes
  <2>20. n \in DOMAIN full
    BY <1>7, <2>16, <2>19 DEF IsClosed
  <2>21. full[n] = Composed(before[n], known[callee])
    BY <1>8, <2>11, <2>13, <2>15, <2>16, <2>17, <2>19
  <2> QED BY <2>11, <2>20, <2>21
<1>17. ASSUME NEW i \in Nat, i \in T, i + 1 <= length PROVE Kept(i + 1)
  <2>1. Kept(i)
    BY <1>17
  <2> QED BY <1>16, <1>17, <2>1
<1>18. \A i \in Nat : i \in T => i + 1 \in T
  BY <1>17
<1> HIDE DEF T
<1>19. length \in T
  BY <1>15, <1>18, NaturalInduction
<1>20. Kept(length)
  BY <1>19 DEF T
<1>21. \A n \in DOMAIN past \ closure : n \in DOMAIN full /\ full[n] = past[n]
  BY <1>13, <1>20
<1> QED BY <1>21 DEF before, now, direct, seeds, closure, full, past

\* The composition from what another head left is the full one.
THEOREM IncrementalIsFull ==
    ASSUME NEW old, IsHead(old), FirstIsUsed(old), NEW head, IsHead(head),
           FreshState(old) # NoState
    PROVE  Contracts(head, FreshState(old)) = FullContracts(head)
<1>1. CASE Ambiguous(head)
  BY <1>1 DEF Contracts
<1>2. CASE ~ Ambiguous(head)
  <2> DEFINE previous == FreshState(old).composition
             direct == Direct(head)
             candidates == Candidates(head)
             past == FullContracts(old)
             reused == Reused(head, previous)
             known == [n \in reused \cup DOMAIN direct |->
                            IF n \in reused THEN past[n] ELSE direct[n]]
  <2>1. previous = [direct |-> Direct(old), candidates |-> FirstCandidates(old), contracts |-> past]
    BY DEF FreshState, Compile, Composition, Contracts
  <2>2. Contracts(head, FreshState(old)) = FixedPoint(known, candidates)
    BY <1>2, <2>1 DEF Contracts
  <2>3. ASSUME NEW n \in reused
        PROVE  /\ n \in DOMAIN past /\ n \notin DOMAIN direct
               /\ n \in DOMAIN FullContracts(head) /\ FullContracts(head)[n] = past[n]
    <3> DEFINE before == FirstCandidates(old)
               now == FirstCandidates(head)
               seeds == Changed(Direct(head), Direct(old)) \cup Changed(now, before)
    <3>1. /\ n \in DOMAIN past /\ n \notin DOMAIN direct
          /\ n \notin DependencyClosure(seeds, before, now)
      BY <2>1 DEF Reused
    <3> QED BY <1>2, <3>1, UnchangedIsKept
  <2>4. IsKnown(direct) /\ IsCandidates(candidates)
    BY CandidatesAreASequence, DirectIsKnown
  <2>5. Within(direct, FullContracts(head))
    BY <2>4, FixedPointIsClosed DEF FullContracts
  <2>6. IsKnown(past)
    BY CandidatesAreASequence, DirectIsKnown, FixedPointIsClosed DEF FullContracts
  <2>7. \A c, d \in DOMAIN candidates : candidates[c].name = candidates[d].name => c = d
    BY <1>2, NamesAreUnique
  <2>8. FullContracts(head) = FixedPoint(direct, candidates)
    BY DEF FullContracts
  <2> HIDE DEF direct, past, reused, candidates
  <2>9. IsKnown(known)
    BY <2>3, <2>4, <2>6 DEF IsKnown
  <2>10. Within(direct, known)
    BY <2>3 DEF Within
  <2>11. Within(known, FullContracts(head))
    BY <2>3, <2>5 DEF Within
  <2> HIDE DEF known
  <2>12. FixedPoint(known, candidates) = FixedPoint(direct, candidates)
    BY <2>4, <2>7, <2>8, <2>9, <2>10, <2>11, FixedPointIsUnique
  <2> QED BY <2>2, <2>8, <2>12
<1> QED BY <1>1, <1>2

\* Compiling from the state another head left is compiling from nothing.
LEMMA CompileIsFaithful ==
    ASSUME NEW old, IsHead(old), FirstIsUsed(old), NEW head, IsHead(head),
           FreshState(old) # NoState
    PROVE  Compile(head, FreshState(old)) = FreshState(head)
<1> DEFINE full == FullContracts(head)
           past == FullContracts(old)
           previous == FreshState(old)
<1>1. Contracts(head, previous) = full /\ Contracts(head, NoState) = full
      /\ Contracts(old, NoState) = past
  BY IncrementalIsFull DEF Contracts
<1>2. Fragments(head, full, NoState) = [f \in RouteFiles(head) |-> Fragment(head[f], full)]
  BY DEF Fragments
<1>3. previous.fragments = [f \in RouteFiles(old) |-> Fragment(old[f], past)]
  BY <1>1 DEF FreshState, Compile, Fragments
<1> HIDE DEF full, past, previous
<1>4. ASSUME NEW f \in RouteFiles(old), NEW g \in DOMAIN head,
             Fragment(old[f], past).source = head[g],
             DependenciesMatch(Fragment(old[f], past), full)
      PROVE  Fragment(old[f], past) = Fragment(head[g], full)
  <2>1. old[f] = head[g]
    BY <1>4 DEF Fragment
  <2> DEFINE C == head[g].consumes
  <2>2. \A n \in C : Version(past, n) = Version(full, n)
    BY <1>4, <2>1 DEF Fragment, DependenciesMatch
  <2>3. \A n \in C : /\ n \in DOMAIN past <=> n \in DOMAIN full
                     /\ n \in DOMAIN past => past[n] = full[n]
    BY <2>2 DEF Version
  <2>4. C \cap DOMAIN past = C \cap DOMAIN full
    BY <2>3
  <2>5. [n \in C |-> Version(past, n)] = [n \in C |-> Version(full, n)]
    BY <2>2
  <2>6. [n \in C \cap DOMAIN past |-> past[n].term] = [n \in C \cap DOMAIN full |-> full[n].term]
    BY <2>3, <2>4
  <2> QED BY <2>1, <2>5, <2>6 DEF Fragment
<1>5. Fragments(head, full, previous) = [f \in RouteFiles(head) |-> Fragment(head[f], full)]
  <2>1. ASSUME NEW f \in RouteFiles(head)
        PROVE  Fragments(head, full, previous)[f] = Fragment(head[f], full)
    <3>1. CASE /\ previous # NoState /\ f \in DOMAIN previous.fragments
               /\ previous.fragments[f].source = head[f]
               /\ DependenciesMatch(previous.fragments[f], full)
      <4>1. f \in RouteFiles(old) /\ previous.fragments[f] = Fragment(old[f], past)
        BY <1>3, <3>1
      <4>2. f \in DOMAIN head
        BY DEF RouteFiles
      <4>3. previous.fragments[f] = Fragment(head[f], full)
        BY <1>4, <3>1, <4>1, <4>2
      <4> QED BY <3>1, <4>3 DEF Fragments
    <3>2. CASE ~ (/\ previous # NoState /\ f \in DOMAIN previous.fragments
                  /\ previous.fragments[f].source = head[f]
                  /\ DependenciesMatch(previous.fragments[f], full))
      BY <3>2 DEF Fragments
    <3> QED BY <3>1, <3>2
  <2> QED BY <2>1 DEF Fragments
<1>6. Compile(head, previous) = [composition |-> Composition(head, full),
                                 fragments |-> Fragments(head, full, previous)]
  BY <1>1 DEF Compile
<1>7. FreshState(head) = [composition |-> Composition(head, full),
                          fragments |-> Fragments(head, full, NoState)]
  BY <1>1 DEF FreshState, Compile
<1> QED BY <1>2, <1>5, <1>6, <1>7 DEF previous
-----------------------------------------------------------------------------
(* Semantic state *)

\* Of every revision, the composed contracts are of the first candidates of their names.
UsesFirst == \A s \in DOMAIN Settings : \A head \in Settings[s].heads : FirstIsUsed(head)

\* Compiling from the state any other head of the setting left is compiling from nothing.
Faithful ==
    \A s \in DOMAIN Settings : \A g, h \in Settings[s].heads :
        Compile(h, FreshState(g)) = FreshState(h)

Heads == Settings[setting].heads
States == {FreshState(head) : head \in Heads}
Parts == {state.composition : state \in States} \cup {Blank}
Rests == States \cup {Blank}

Writing == {"opened", "started", "written"}

OpenJobs == [stage : {"open"}, head : Heads, handle : Inode \cup {NoInode}, part : Parts]
CompiledJobs ==
    [stage : {"compiled"} \cup Writing, head : Heads, handle : Inode \cup {NoInode},
     loaded : States \cup {NoState}, state : States]

FilesOK ==
    /\ setting \in DOMAIN Settings
    /\ directory \in [record : Inode \cup {NoInode}, temp : Inode \cup {NoInode}]
    /\ directory.record = directory.temp => directory.record = NoInode
    /\ inode \in [Inode -> [part : Parts, rest : Rests]]

JobOK(w) ==
    /\ job[w] \in {Idle} \cup OpenJobs \cup CompiledJobs
    /\ job[w] \in CompiledJobs => job[w].state = FreshState(job[w].head)
    /\ job[w].stage \in Writing => job[w].handle \in Inode

JobsOK == job \in [Worker -> {Idle} \cup OpenJobs \cup CompiledJobs] /\ \A w \in Worker : JobOK(w)

\* One job at a time writes to what has the temporary name, and the record is entire.
LoneOK ==
    Settings[setting].workers = 1 =>
        /\ \A v, w \in Active : v = w
        /\ RecordIsWhole
        /\ \A w \in Worker : job[w].stage \in Writing =>
            /\ job[w].handle = directory.temp
            /\ job[w].stage \in {"started", "written"} =>
                    inode[job[w].handle].part = job[w].state.composition
            /\ job[w].stage = "written" => inode[job[w].handle].rest = job[w].state

SInv == FilesOK /\ JobsOK /\ LoneOK
-----------------------------------------------------------------------------
\* What is read from parts that were written is a state that was written, or none.
LEMMA LoadedIsAState ==
    ASSUME setting \in DOMAIN Settings, NEW part \in Parts, NEW rest \in Rests
    PROVE  Loaded(part, rest) \in States \cup {NoState}
<1>1. CASE Readable(part, rest)
  <2>1. PICK head \in Heads : rest = FreshState(head)
    BY <1>1 DEF Readable, Rests, States
  <2>2. rest = [composition |-> rest.composition, fragments |-> rest.fragments]
    BY <2>1 DEF FreshState, Compile
  <2>3. Loaded(part, rest) = rest
    BY <1>1, <2>2 DEF Loaded, Readable
  <2> QED BY <2>1, <2>3 DEF States
<1>2. CASE ~ Readable(part, rest)
  BY <1>2 DEF Loaded
<1> QED BY <1>1, <1>2

LEMMA FirstUseIsFaithful == UsesFirst => Faithful
BY SemanticAssumption, CompileIsFaithful DEF UsesFirst, Faithful

LEMMA CompileIsFresh ==
    ASSUME Faithful, setting \in DOMAIN Settings, NEW head \in Heads,
           NEW loaded \in States \cup {NoState}
    PROVE  Compile(head, loaded) = FreshState(head)
BY DEF Faithful, Heads, States, FreshState

LEMMA InitSInv == Init => SInv
<1> SUFFICES ASSUME Init PROVE SInv
  OBVIOUS
<1>1. inode \in [Inode -> [part : Parts, rest : Rests]]
  BY DEF Init, Empty, Parts, Rests
<1>2. job \in [Worker -> {Idle} \cup OpenJobs \cup CompiledJobs]
  BY DEF Init
<1>3. \A w \in Worker : job[w] = Idle /\ job[w].stage = "idle"
  BY DEF Init, Idle
<1>4. FilesOK
  BY <1>1 DEF Init, FilesOK
<1>5. ASSUME NEW w \in Worker PROVE JobOK(w)
  BY <1>3 DEF JobOK, CompiledJobs, Writing
<1>6. LoneOK
  BY <1>3 DEF LoneOK, RecordIsWhole, Active, Writing, Init
<1> QED BY <1>2, <1>4, <1>5, <1>6 DEF SInv, JobsOK
-----------------------------------------------------------------------------
LEMMA SameSetting ==
    ASSUME UNCHANGED setting
    PROVE  /\ Heads' = Heads /\ States' = States /\ Parts' = Parts /\ Rests' = Rests
           /\ OpenJobs' = OpenJobs /\ CompiledJobs' = CompiledJobs
BY DEF Heads, States, Parts, Rests, OpenJobs, CompiledJobs

\* A stage tells which fields a job has.
LEMMA StageTells ==
    ASSUME NEW w \in Worker, JobOK(w)
    PROVE  /\ job[w] = Idle <=> job[w].stage = "idle"
           /\ job[w].stage = "open" => job[w] \in OpenJobs
           /\ job[w].stage \in {"compiled"} \cup Writing => job[w] \in CompiledJobs
           /\ job[w].stage \in {"idle", "open", "compiled"} \cup Writing
BY DEF JobOK, Idle, OpenJobs, CompiledJobs, Writing

\* A file with a name survives, whoever has it open.
LEMMA ReclaimKeeps ==
    ASSUME inode \in [Inode -> [part : Parts, rest : Rests]], Reclaim, UNCHANGED setting
    PROVE  /\ inode' \in [Inode -> [part : Parts', rest : Rests']]
           /\ directory'.record \in Inode => inode'[directory'.record] = inode[directory'.record]
<1>1. Empty \in [part : Parts, rest : Rests]
  BY DEF Empty, Parts, Rests
<1>2. inode' \in [Inode -> [part : Parts, rest : Rests]]
  BY <1>1 DEF Reclaim
<1>3. directory'.record \in InUse'
  BY DEF InUse
<1> QED BY <1>2, <1>3, SameSetting DEF Reclaim

\* A step of one job that sets it to a job of the right kind.
LEMMA JobStep ==
    ASSUME JobsOK, UNCHANGED setting, NEW w \in Worker, NEW new,
           job' = [job EXCEPT ![w] = new],
           new \in {Idle} \cup OpenJobs \cup CompiledJobs,
           new \in CompiledJobs => new.state = FreshState(new.head),
           new.stage \in Writing => new.handle \in Inode
    PROVE  /\ JobsOK'
           /\ \A v \in Worker : job'[v] = IF v = w THEN new ELSE job[v]
<1>1. \A v \in Worker : job'[v] = IF v = w THEN new ELSE job[v]
  BY DEF JobsOK
<1>2. job' \in [Worker -> {Idle} \cup OpenJobs \cup CompiledJobs]
  BY DEF JobsOK
<1>3. Idle' = Idle /\ Writing' = Writing
  BY DEF Idle, Writing
<1>4. ASSUME NEW v \in Worker PROVE JobOK(v)'
  BY <1>1, <1>3, SameSetting DEF JobOK, JobsOK
<1> QED BY <1>1, <1>2, <1>3, <1>4, SameSetting DEF JobsOK

\* A job that is alone stays alone, and no other writes.
LEMMA LoneStep ==
    ASSUME JobsOK, LoneOK, Settings[setting].workers = 1, NEW w \in Active, NEW new,
           \A v \in Worker : job'[v] = IF v = w THEN new ELSE job[v]
    PROVE  /\ \A u, v \in Active' : u = v
           /\ \A v \in Worker : job'[v].stage \in Writing => v = w
<1>1. \A u, v \in Active : u = v
  BY DEF LoneOK
<1>2. ASSUME NEW v \in Worker, v # w PROVE job[v] = Idle /\ job'[v] = Idle
  BY <1>1, <1>2 DEF Active
<1>3. "idle" \notin Writing
  BY DEF Writing
<1> QED BY <1>2, <1>3 DEF Active, Idle

LEMMA OpenSInv == ASSUME SInv, NEW w \in Worker, Open(w) PROVE SInv'
<1>1. PICK head \in Heads :
        job' = [job EXCEPT ![w] =
                  [stage |-> "open", head |-> head, handle |-> directory.record,
                   part |-> IF directory.record = NoInode THEN Blank
                            ELSE inode[directory.record].part]]
  BY DEF Open, Heads
<1> DEFINE new == [stage |-> "open", head |-> head, handle |-> directory.record,
                   part |-> IF directory.record = NoInode THEN Blank
                            ELSE inode[directory.record].part]
<1>2. UNCHANGED <<setting, inode, directory>> /\ Cardinality(Active) < Settings[setting].workers
  BY DEF Open
<1>3. FilesOK'
  BY <1>2, SameSetting DEF SInv, FilesOK
<1>4. new \in OpenJobs /\ new.stage = "open" /\ job' = [job EXCEPT ![w] = new]
  BY <1>1 DEF SInv, FilesOK, OpenJobs, Parts
<1> HIDE DEF new
<1>5. new \notin CompiledJobs /\ "open" \notin Writing
  BY <1>4 DEF CompiledJobs, Writing
<1>6. JobsOK' /\ \A v \in Worker : job'[v] = IF v = w THEN new ELSE job[v]
  BY <1>2, <1>4, <1>5, JobStep DEF SInv
<1>7. LoneOK'
  <2> SUFFICES ASSUME Settings[setting].workers = 1 PROVE LoneOK'
    BY <1>2 DEF LoneOK
  <2>1. Active = {}
    <3>1. IsFiniteSet(Active)
      BY SemanticAssumption, FS_Subset DEF Active
    <3>2. Cardinality(Active) = 0
      BY <1>2, <3>1, FS_CardinalityType
    <3> QED BY <3>1, <3>2, FS_EmptySet
  <2>2. \A v \in Worker : v # w => job'[v] = Idle
    BY <1>6, <2>1 DEF Active
  <2>3. \A v \in Worker : job'[v].stage \notin Writing
    BY <1>4, <1>5, <1>6, <2>2 DEF Idle, Writing
  <2>4. \A u, v \in Active' : u = v
    BY <2>2 DEF Active, Idle
  <2>5. RecordIsWhole'
    BY <1>2 DEF SInv, LoneOK, RecordIsWhole, Whole
  <2> QED BY <2>3, <2>4, <2>5 DEF LoneOK, Writing
<1> QED BY <1>3, <1>6, <1>7 DEF SInv

LEMMA CompileHeadSInv == ASSUME Faithful, SInv, NEW w \in Worker, CompileHead(w) PROVE SInv'
<1> DEFINE rest == IF job[w].handle = NoInode THEN Blank ELSE inode[job[w].handle].rest
           loaded == Loaded(job[w].part, rest)
           new == [stage |-> "compiled", head |-> job[w].head, handle |-> NoInode,
                   loaded |-> loaded, state |-> Compile(job[w].head, loaded)]
<1>1. job[w].stage = "open" /\ job' = [job EXCEPT ![w] = new]
      /\ UNCHANGED <<setting, directory>> /\ Reclaim
  BY DEF CompileHead
<1>2. job[w] \in OpenJobs /\ job[w] # Idle
  BY <1>1, StageTells DEF SInv, JobsOK, Idle
<1>3. job[w].head \in Heads /\ job[w].part \in Parts /\ job[w].handle \in Inode \cup {NoInode}
  BY <1>2 DEF OpenJobs
<1>4. rest \in Rests
  BY <1>3 DEF SInv, FilesOK, Rests
<1> HIDE DEF rest
<1>5. loaded \in States \cup {NoState}
  BY <1>3, <1>4, LoadedIsAState DEF SInv, FilesOK
<1> HIDE DEF loaded
<1>6. Compile(job[w].head, loaded) = FreshState(job[w].head) /\ FreshState(job[w].head) \in States
  BY <1>3, <1>5, CompileIsFresh DEF SInv, FilesOK, States
<1>7. new \in CompiledJobs /\ new.stage = "compiled" /\ new.state = FreshState(new.head)
  BY <1>3, <1>5, <1>6 DEF CompiledJobs
<1> HIDE DEF new
<1>8. "compiled" \notin Writing
  BY DEF Writing
<1>9. JobsOK' /\ \A v \in Worker : job'[v] = IF v = w THEN new ELSE job[v]
  BY <1>1, <1>7, <1>8, JobStep DEF SInv
<1>10. /\ inode' \in [Inode -> [part : Parts', rest : Rests']]
       /\ directory'.record \in Inode => inode'[directory'.record] = inode[directory'.record]
  BY <1>1, ReclaimKeeps DEF SInv, FilesOK
<1>11. FilesOK'
  BY <1>1, <1>10 DEF SInv, FilesOK
<1>12. LoneOK'
  <2> SUFFICES ASSUME Settings[setting].workers = 1 PROVE LoneOK'
    BY <1>1 DEF LoneOK
  <2>1. /\ \A u, v \in Active' : u = v
        /\ \A v \in Worker : job'[v].stage \in Writing => v = w
    BY <1>2, <1>9, LoneStep DEF SInv, Active
  <2>2. \A v \in Worker : job'[v].stage \notin Writing
    BY <1>7, <1>8, <1>9, <2>1
  <2>3. RecordIsWhole'
    BY <1>1, <1>10 DEF SInv, FilesOK, LoneOK, RecordIsWhole, Whole
  <2> QED BY <2>1, <2>2, <2>3 DEF LoneOK, Writing
<1> QED BY <1>9, <1>11, <1>12 DEF SInv

\* A step that only moves a job on within its writing.
LEMMA WritingStep ==
    ASSUME JobsOK, UNCHANGED setting, NEW w \in Worker, job[w] \in CompiledJobs,
           NEW new, job' = [job EXCEPT ![w] = new],
           new.stage \in Writing, new.handle \in Inode,
           new = [job[w] EXCEPT !.stage = new.stage, !.handle = new.handle]
    PROVE  /\ JobsOK'
           /\ \A v \in Worker : v # w => job'[v] = job[v]
           /\ job'[w] = new /\ new.state = job[w].state
<1>1. new \in CompiledJobs /\ new.state = job[w].state /\ new.head = job[w].head
  BY DEF CompiledJobs
<1>2. new.state = FreshState(new.head)
  BY <1>1 DEF JobsOK, JobOK
<1>3. JobsOK' /\ \A v \in Worker : job'[v] = IF v = w THEN new ELSE job[v]
  BY <1>1, <1>2, JobStep
<1> QED BY <1>1, <1>3

\* What a lone writer has left, when nobody else writes.
LEMMA LoneWriter ==
    ASSUME JobsOK, LoneOK, Settings[setting].workers = 1, UNCHANGED setting,
           NEW w \in Active,
           \A v \in Worker : v # w => job'[v] = job[v], RecordIsWhole',
           job'[w].handle = directory'.temp,
           job'[w].stage \in {"started", "written"} =>
                inode'[job'[w].handle].part = job'[w].state.composition,
           job'[w].stage = "written" => inode'[job'[w].handle].rest = job'[w].state
    PROVE  LoneOK'
<1>1. \A v \in Worker : job'[v] = IF v = w THEN job'[w] ELSE job[v]
  OBVIOUS
<1>2. /\ \A u, v \in Active' : u = v
      /\ \A v \in Worker : job'[v].stage \in Writing => v = w
  BY <1>1, LoneStep
<1>3. \A v \in Worker : job'[v].stage \in Writing =>
            /\ job'[v].handle = directory'.temp
            /\ job'[v].stage \in {"started", "written"} =>
                    inode'[job'[v].handle].part = job'[v].state.composition
            /\ job'[v].stage = "written" => inode'[job'[v].handle].rest = job'[v].state
  BY <1>2
<1> QED BY <1>2, <1>3 DEF LoneOK, Writing

LEMMA OpenTempSInv == ASSUME SInv, NEW w \in Worker, OpenTemp(w) PROVE SInv'
<1>1. job[w].stage = "compiled" /\ job[w] \in CompiledJobs /\ w \in Active
  BY StageTells DEF OpenTemp, SInv, JobsOK, Active
<1>2. PICK i \in Inode :
        /\ inode' = [inode EXCEPT ![i] = Empty]
        /\ job' = [job EXCEPT ![w].stage = "opened", ![w].handle = i]
        /\ directory'.record = directory.record /\ directory'.temp = i
        /\ directory' \in [record : Inode \cup {NoInode}, temp : Inode \cup {NoInode}]
        /\ i # directory.record
  <2>1. CASE Target # NoInode
    BY <2>1, SemanticAssumption DEF OpenTemp, SInv, FilesOK, Target
  <2>2. CASE Target = NoInode
    <3>1. PICK i \in Unused :
            /\ inode' = [inode EXCEPT ![i] = Empty]
            /\ job' = [job EXCEPT ![w].stage = "opened", ![w].handle = i]
            /\ directory' = [directory EXCEPT !.temp = i]
      BY <2>2 DEF OpenTemp
    <3>2. i \in Inode /\ i # directory.record
      BY DEF Unused, InUse
    <3> QED BY <3>1, <3>2 DEF SInv, FilesOK
  <2> QED BY <2>1, <2>2
<1>3. UNCHANGED setting
  BY DEF OpenTemp
<1>4. Empty \in [part : Parts, rest : Rests]
  BY DEF Empty, Parts, Rests
<1>5. inode' \in [Inode -> [part : Parts', rest : Rests']]
  BY <1>2, <1>3, <1>4, SameSetting DEF SInv, FilesOK
<1>6. FilesOK'
  BY <1>2, <1>3, <1>5 DEF SInv, FilesOK
<1> DEFINE new == [job[w] EXCEPT !.stage = "opened", !.handle = i]
<1>7. /\ job' = [job EXCEPT ![w] = new]
      /\ new.stage = "opened" /\ new.handle = i
      /\ new = [job[w] EXCEPT !.stage = new.stage, !.handle = new.handle]
  BY <1>1, <1>2 DEF SInv, JobsOK, CompiledJobs
<1> HIDE DEF new
<1>8. /\ JobsOK'
      /\ \A v \in Worker : v # w => job'[v] = job[v]
      /\ job'[w].stage = "opened" /\ job'[w].handle = i /\ job'[w].state = job[w].state
  <2>1. new.stage \in Writing /\ new.handle \in Inode
    BY <1>1, <1>2, <1>7 DEF Writing
  <2>2. JobsOK' /\ (\A v \in Worker : v # w => job'[v] = job[v]) /\ job'[w] = new
        /\ new.state = job[w].state
    BY <1>1, <1>3, <1>7, <2>1, WritingStep DEF SInv
  <2> QED BY <1>7, <2>2
<1>9. LoneOK'
  <2> SUFFICES ASSUME Settings[setting].workers = 1 PROVE LoneOK'
    BY <1>3 DEF LoneOK
  <2>1. RecordIsWhole'
    BY <1>2 DEF SInv, FilesOK, LoneOK, RecordIsWhole, Whole
  <2> QED BY <1>1, <1>2, <1>3, <1>8, <2>1, LoneWriter DEF SInv
<1> QED BY <1>6, <1>8, <1>9 DEF SInv

LEMMA WritePartSInv == ASSUME SInv, NEW w \in Worker, WritePart(w) PROVE SInv'
<1> DEFINE i == job[w].handle
           composition == job[w].state.composition
<1>1. /\ job[w].stage = "opened" /\ job[w] \in CompiledJobs /\ w \in Active
      /\ i \in Inode
  BY StageTells DEF WritePart, SInv, JobsOK, JobOK, Active, Writing
<1>2. /\ inode' = [inode EXCEPT ![i].part = composition]
      /\ job' = [job EXCEPT ![w].stage = "started"]
      /\ UNCHANGED <<setting, directory>>
  BY DEF WritePart
<1>3. composition \in Parts
  BY <1>1 DEF CompiledJobs, Parts
<1>4. inode[i] \in [part : Parts, rest : Rests] /\ inode \in [Inode -> [part : Parts, rest : Rests]]
  BY <1>1 DEF SInv, FilesOK
<1> HIDE DEF composition
<1>5. inode' \in [Inode -> [part : Parts', rest : Rests']]
  BY <1>1, <1>2, <1>3, <1>4, SameSetting
<1>6. FilesOK'
  BY <1>2, <1>5 DEF SInv, FilesOK
<1> DEFINE new == [job[w] EXCEPT !.stage = "started", !.handle = i]
<1>7. /\ job' = [job EXCEPT ![w] = new]
      /\ new.stage = "started" /\ new.handle = i
      /\ new = [job[w] EXCEPT !.stage = new.stage, !.handle = new.handle]
  BY <1>1, <1>2 DEF SInv, JobsOK, CompiledJobs
<1> HIDE DEF new
<1>8. /\ JobsOK'
      /\ \A v \in Worker : v # w => job'[v] = job[v]
      /\ job'[w].stage = "started" /\ job'[w].handle = i /\ job'[w].state = job[w].state
  <2>1. new.stage \in Writing /\ new.handle \in Inode
    BY <1>1, <1>2, <1>7 DEF Writing
  <2>2. JobsOK' /\ (\A v \in Worker : v # w => job'[v] = job[v]) /\ job'[w] = new
        /\ new.state = job[w].state
    BY <1>1, <1>2, <1>7, <2>1, WritingStep DEF SInv
  <2> QED BY <1>7, <2>2
<1>9. LoneOK'
  <2> SUFFICES ASSUME Settings[setting].workers = 1 PROVE LoneOK'
    BY <1>2 DEF LoneOK
  <2>1. i = directory.temp
    BY <1>1 DEF SInv, LoneOK, Writing
  <2>2. i # directory.record
    BY <1>1, <2>1, SemanticAssumption DEF SInv, FilesOK
  <2>3. RecordIsWhole'
    BY <1>2, <2>2 DEF SInv, FilesOK, LoneOK, RecordIsWhole, Whole
  <2>4. inode'[i].part = composition
    BY <1>1, <1>2, <1>4
  <2> QED BY <1>1, <1>2, <1>8, <2>1, <2>3, <2>4, LoneWriter DEF SInv, composition
<1> QED BY <1>6, <1>8, <1>9 DEF SInv

LEMMA WriteRestSInv == ASSUME SInv, NEW w \in Worker, WriteRest(w) PROVE SInv'
<1> DEFINE i == job[w].handle
           state == job[w].state
<1>1. /\ job[w].stage = "started" /\ job[w] \in CompiledJobs /\ w \in Active
      /\ i \in Inode
  BY StageTells DEF WriteRest, SInv, JobsOK, JobOK, Active, Writing
<1>2. /\ inode' = [inode EXCEPT ![i].rest = state]
      /\ job' = [job EXCEPT ![w].stage = "written"]
      /\ UNCHANGED <<setting, directory>>
  BY DEF WriteRest
<1>3. state \in Rests
  BY <1>1 DEF CompiledJobs, Rests
<1>4. inode[i] \in [part : Parts, rest : Rests] /\ inode \in [Inode -> [part : Parts, rest : Rests]]
  BY <1>1 DEF SInv, FilesOK
<1> HIDE DEF state
<1>5. inode' \in [Inode -> [part : Parts', rest : Rests']]
  BY <1>1, <1>2, <1>3, <1>4, SameSetting
<1>6. FilesOK'
  BY <1>2, <1>5 DEF SInv, FilesOK
<1> DEFINE new == [job[w] EXCEPT !.stage = "written", !.handle = i]
<1>7. /\ job' = [job EXCEPT ![w] = new]
      /\ new.stage = "written" /\ new.handle = i
      /\ new = [job[w] EXCEPT !.stage = new.stage, !.handle = new.handle]
  BY <1>1, <1>2 DEF SInv, JobsOK, CompiledJobs
<1> HIDE DEF new
<1>8. /\ JobsOK'
      /\ \A v \in Worker : v # w => job'[v] = job[v]
      /\ job'[w].stage = "written" /\ job'[w].handle = i /\ job'[w].state = job[w].state
  <2>1. new.stage \in Writing /\ new.handle \in Inode
    BY <1>1, <1>2, <1>7 DEF Writing
  <2>2. JobsOK' /\ (\A v \in Worker : v # w => job'[v] = job[v]) /\ job'[w] = new
        /\ new.state = job[w].state
    BY <1>1, <1>2, <1>7, <2>1, WritingStep DEF SInv
  <2> QED BY <1>7, <2>2
<1>9. LoneOK'
  <2> SUFFICES ASSUME Settings[setting].workers = 1 PROVE LoneOK'
    BY <1>2 DEF LoneOK
  <2>1. i = directory.temp /\ inode[i].part = job[w].state.composition
    BY <1>1 DEF SInv, LoneOK, Writing
  <2>2. i # directory.record
    BY <1>1, <2>1, SemanticAssumption DEF SInv, FilesOK
  <2>3. RecordIsWhole'
    BY <1>2, <2>2 DEF SInv, FilesOK, LoneOK, RecordIsWhole, Whole
  <2>4. inode'[i].rest = state /\ inode'[i].part = inode[i].part
    BY <1>1, <1>2, <1>4
  <2> QED BY <1>1, <1>2, <1>8, <2>1, <2>3, <2>4, LoneWriter DEF SInv, state
<1> QED BY <1>6, <1>8, <1>9 DEF SInv

LEMMA ReplaceSInv == ASSUME SInv, NEW w \in Worker, Replace(w) PROVE SInv'
<1>1. /\ job[w].stage = "written" /\ job[w] \in CompiledJobs /\ w \in Active
      /\ job[w].handle \in Inode
  BY StageTells DEF Replace, SInv, JobsOK, JobOK, Active, Writing
<1>2. /\ directory' = IF directory.temp = NoInode THEN directory
                      ELSE [record |-> directory.temp, temp |-> NoInode]
      /\ job' = [job EXCEPT ![w] = Idle] /\ UNCHANGED setting /\ Reclaim
  BY DEF Replace
<1>3. Idle.stage \notin Writing /\ Idle \notin CompiledJobs
  BY DEF Idle, Writing, CompiledJobs
<1>4. JobsOK' /\ \A v \in Worker : job'[v] = IF v = w THEN Idle ELSE job[v]
  BY <1>2, <1>3, JobStep DEF SInv
<1>5. /\ inode' \in [Inode -> [part : Parts', rest : Rests']]
      /\ directory'.record \in Inode => inode'[directory'.record] = inode[directory'.record]
  BY <1>2, ReclaimKeeps DEF SInv, FilesOK
<1>6. FilesOK'
  BY <1>2, <1>5 DEF SInv, FilesOK
<1>7. LoneOK'
  <2> SUFFICES ASSUME Settings[setting].workers = 1 PROVE LoneOK'
    BY <1>2 DEF LoneOK
  <2>1. /\ \A u, v \in Active' : u = v
        /\ \A v \in Worker : job'[v].stage \in Writing => v = w
    BY <1>1, <1>4, LoneStep DEF SInv
  <2>2. \A v \in Worker : job'[v].stage \notin Writing
    BY <1>3, <1>4, <2>1
  <2>3. /\ directory.temp = job[w].handle
        /\ inode[directory.temp].part = job[w].state.composition
        /\ inode[directory.temp].rest = job[w].state
    BY <1>1 DEF SInv, LoneOK, Writing
  <2>4. job[w].state # Blank /\ job[w].state.composition # Blank
    BY <1>1, SemanticAssumption DEF CompiledJobs, States, Heads, SInv, FilesOK
  <2>5. directory'.record = directory.temp /\ directory.temp \in Inode
    BY <1>1, <1>2, <2>3, SemanticAssumption
  <2>6. RecordIsWhole'
    BY <1>5, <2>3, <2>4, <2>5 DEF RecordIsWhole, Whole, Readable
  <2> QED BY <2>1, <2>2, <2>6 DEF LoneOK, Writing
<1> QED BY <1>4, <1>6, <1>7 DEF SInv

LEMMA CrashSInv == ASSUME SInv, NEW w \in Worker, Crash(w) PROVE SInv'
<1>1. /\ w \in Active /\ job' = [job EXCEPT ![w] = Idle]
      /\ UNCHANGED <<setting, directory>> /\ Reclaim
  BY DEF Crash, Active
<1>2. Idle.stage \notin Writing /\ Idle \notin CompiledJobs
  BY DEF Idle, Writing, CompiledJobs
<1>3. JobsOK' /\ \A v \in Worker : job'[v] = IF v = w THEN Idle ELSE job[v]
  BY <1>1, <1>2, JobStep DEF SInv
<1>4. /\ inode' \in [Inode -> [part : Parts', rest : Rests']]
      /\ directory'.record \in Inode => inode'[directory'.record] = inode[directory'.record]
  BY <1>1, ReclaimKeeps DEF SInv, FilesOK
<1>5. FilesOK'
  BY <1>1, <1>4 DEF SInv, FilesOK
<1>6. LoneOK'
  <2> SUFFICES ASSUME Settings[setting].workers = 1 PROVE LoneOK'
    BY <1>1 DEF LoneOK
  <2>1. /\ \A u, v \in Active' : u = v
        /\ \A v \in Worker : job'[v].stage \in Writing => v = w
    BY <1>1, <1>3, LoneStep DEF SInv
  <2>2. \A v \in Worker : job'[v].stage \notin Writing
    BY <1>2, <1>3, <2>1
  <2>3. RecordIsWhole'
    BY <1>1, <1>4 DEF SInv, FilesOK, LoneOK, RecordIsWhole, Whole
  <2> QED BY <2>1, <2>2, <2>3 DEF LoneOK, Writing
<1> QED BY <1>3, <1>5, <1>6 DEF SInv

LEMMA NextSInv == Faithful /\ SInv /\ [Next]_vars => SInv'
<1> SUFFICES ASSUME Faithful, SInv, [Next]_vars PROVE SInv'
  OBVIOUS
<1>1. CASE UNCHANGED vars
  BY <1>1, SameSetting DEF vars, SInv, FilesOK, JobsOK, JobOK, LoneOK, RecordIsWhole, Whole, Active
<1>2. ASSUME NEW w \in Worker,
             \/ Open(w) \/ CompileHead(w)
             \/ OpenTemp(w) \/ WritePart(w) \/ WriteRest(w) \/ Replace(w)
             \/ Crash(w)
      PROVE  SInv'
  BY <1>2, OpenSInv, CompileHeadSInv, OpenTempSInv, WritePartSInv, WriteRestSInv, ReplaceSInv,
     CrashSInv
<1> QED BY <1>1, <1>2 DEF Next

LEMMA SemanticInvariance == ASSUME Faithful PROVE Spec => []SInv
<1>1. SInv /\ [Next]_vars => SInv'
  BY NextSInv
<1> QED BY <1>1, InitSInv, PTL DEF Spec
-----------------------------------------------------------------------------
(* What is shown *)

LEMMA FreshContracts ==
    ASSUME NEW head
    PROVE  /\ FreshState(head).composition.contracts = FullContracts(head)
           /\ \A f \in RouteFiles(head) :
                FreshState(head).fragments[f] = Fragment(head[f], FullContracts(head))
BY DEF FreshState, Compile, Contracts, Composition, Fragments

\* A job that compiled has the state a compilation from nothing would leave.
LEMMA CompiledIsFresh ==
    ASSUME SInv, NEW w \in Compiled
    PROVE  job[w] \in CompiledJobs /\ job[w].state = FreshState(job[w].head)
BY StageTells DEF SInv, JobsOK, JobOK, Compiled, Active, Writing, Idle

\* Whatever an earlier revision, another branch or another job left in the file, the
\* contracts a job composes from it (compose_function_contracts_incremental) are those of a
\* full composition of its own head.
THEOREM ContractsCorrect == ASSUME UsesFirst PROVE Spec => []ContractsAreFull
<1>1. SInv => ContractsAreFull
  BY CompiledIsFresh, FreshContracts DEF ContractsAreFull
<1> QED BY <1>1, FirstUseIsFaithful, SemanticInvariance, PTL

\* A fragment that is reused (fragment_dependencies_match) is what binding the file again
\* would give.
THEOREM FragmentsCorrect == ASSUME UsesFirst PROVE Spec => []FragmentsAreFresh
<1>1. ASSUME SInv, NEW w \in Compiled, NEW f \in RouteFiles(job[w].head)
      PROVE  job[w].state.fragments[f] = Fragment(job[w].head[f], FullContracts(job[w].head))
  <2> DEFINE head == job[w].head
  <2>1. job[w].state = FreshState(head)
    BY <1>1, CompiledIsFresh
  <2>2. f \in RouteFiles(head)
    BY <1>1
  <2> HIDE DEF head
  <2>3. job[w].state.fragments[f] = Fragment(head[f], FullContracts(head))
    BY <2>1, <2>2, FreshContracts
  <2> QED BY <2>3 DEF head
<1>2. SInv => FragmentsAreFresh
  BY <1>1 DEF FragmentsAreFresh
<1> QED BY <1>2, FirstUseIsFaithful, SemanticInvariance, PTL

\* A record two jobs write at a time, or that is renamed under its writer, is read as the
\* state of one revision or not at all (PersistentFastApiIncrementalStateCache.get).
THEOREM LoadedStateCorrect == ASSUME UsesFirst PROVE Spec => []StateIsOfOneHead
<1>1. ASSUME SInv, NEW w \in Compiled PROVE job[w].loaded \in States \cup {NoState}
  BY <1>1, CompiledIsFresh DEF CompiledJobs
<1>2. SInv => FreshStates[setting] = States
  BY DEF SInv, FilesOK, FreshStates, States, Heads
<1>3. SInv => StateIsOfOneHead
  BY <1>1, <1>2 DEF StateIsOfOneHead
<1> QED BY <1>3, FirstUseIsFaithful, SemanticInvariance, PTL

\* While one job runs at a time the record is entire, wherever a job dies in put.
THEOREM LoneWritesCorrect == ASSUME UsesFirst PROVE Spec => []LoneWritesAreAtomic
<1>1. SInv => LoneWritesAreAtomic
  BY DEF SInv, LoneOK, LoneWritesAreAtomic
<1> QED BY <1>1, FirstUseIsFaithful, SemanticInvariance, PTL
-----------------------------------------------------------------------------
(* Types, whichever candidates are used *)

IsOpen(j) ==
    \E P : j \in [stage : {"open"}, head : Heads, handle : Inode \cup {NoInode}, part : P]

IsCompiled(j) ==
    /\ \E L, D : j \in [stage : {"compiled"} \cup Writing, head : Heads,
                        handle : Inode \cup {NoInode}, loaded : L, state : D]
    /\ j.stage \in Writing => j.handle \in Inode

Typed(j) == j = Idle \/ IsOpen(j) \/ IsCompiled(j)

TInv ==
    /\ setting \in DOMAIN Settings
    /\ directory \in [record : Inode \cup {NoInode}, temp : Inode \cup {NoInode}]
    /\ directory.record = directory.temp => directory.record = NoInode
    /\ job = [w \in Worker |-> job[w]] /\ \A w \in Worker : Typed(job[w])

LEMMA TypedStep ==
    ASSUME TInv, UNCHANGED setting, NEW w \in Worker, NEW new, Typed(new),
           job' = [job EXCEPT ![w] = new],
           directory' \in [record : Inode \cup {NoInode}, temp : Inode \cup {NoInode}],
           directory'.record = directory'.temp => directory'.record = NoInode
    PROVE  TInv'
<1>1. Idle' = Idle /\ Writing' = Writing /\ Heads' = Heads
  BY DEF Idle, Writing, Heads
<1>2. \A v \in Worker : job'[v] = IF v = w THEN new ELSE job[v]
  BY DEF TInv
<1>3. \A v \in Worker : Typed(job[v])'
  BY <1>1, <1>2 DEF TInv, Typed, IsOpen, IsCompiled
<1>4. job' = [v \in Worker |-> job'[v]]
  BY DEF TInv
<1> QED BY <1>3, <1>4 DEF TInv

LEMMA NextTInv == TInv /\ [Next]_vars => TInv'
<1> SUFFICES ASSUME TInv, [Next]_vars PROVE TInv'
  OBVIOUS
<1>1. CASE UNCHANGED vars
  BY <1>1 DEF vars, TInv, Typed, IsOpen, IsCompiled, Heads
<1>2. Typed(Idle)
  BY DEF Typed
<1>3. ASSUME NEW w \in Worker, Open(w) PROVE TInv'
  <2>1. PICK head \in Heads :
          job' = [job EXCEPT ![w] =
                    [stage |-> "open", head |-> head, handle |-> directory.record,
                     part |-> IF directory.record = NoInode THEN Blank
                              ELSE inode[directory.record].part]]
    BY <1>3 DEF Open, Heads
  <2> DEFINE part == IF directory.record = NoInode THEN Blank ELSE inode[directory.record].part
             new == [stage |-> "open", head |-> head, handle |-> directory.record, part |-> part]
  <2>2. new \in [stage : {"open"}, head : Heads, handle : Inode \cup {NoInode}, part : {part}]
    BY DEF TInv
  <2>3. job' = [job EXCEPT ![w] = new]
    BY <2>1
  <2> HIDE DEF part, new
  <2>4. Typed(new)
    BY <2>2 DEF Typed, IsOpen
  <2> QED BY <1>3, <2>3, <2>4, TypedStep DEF Open, TInv
<1>4. ASSUME NEW w \in Worker, CompileHead(w) PROVE TInv'
  <2> DEFINE rest == IF job[w].handle = NoInode THEN Blank ELSE inode[job[w].handle].rest
             loaded == Loaded(job[w].part, rest)
             new == [stage |-> "compiled", head |-> job[w].head, handle |-> NoInode,
                     loaded |-> loaded, state |-> Compile(job[w].head, loaded)]
  <2>1. /\ job[w] # Idle /\ job' = [job EXCEPT ![w] = new] /\ UNCHANGED <<setting, directory>>
    BY <1>4 DEF CompileHead
  <2>2. job[w].head \in Heads
    BY <2>1 DEF TInv, Typed, IsOpen, IsCompiled
  <2> HIDE DEF loaded
  <2>3. /\ new \in [stage : {"compiled"} \cup Writing, head : Heads, handle : Inode \cup {NoInode},
                    loaded : {loaded}, state : {new.state}]
        /\ new.stage \notin Writing
    BY <2>2 DEF Writing
  <2> HIDE DEF new
  <2>4. Typed(new)
    BY <2>3 DEF Typed, IsCompiled
  <2> QED BY <2>1, <2>4, TypedStep DEF TInv
<1>5. ASSUME NEW w \in Worker, NEW stage \in Writing, NEW i \in Inode,
             job[w] # Idle, job[w].stage # "open",
             job' = [job EXCEPT ![w] = [job[w] EXCEPT !.stage = stage, !.handle = i]],
             UNCHANGED setting,
             directory' \in [record : Inode \cup {NoInode}, temp : Inode \cup {NoInode}],
             directory'.record = directory'.temp => directory'.record = NoInode
      PROVE  TInv'
  <2> DEFINE new == [job[w] EXCEPT !.stage = stage, !.handle = i]
  <2>1. Typed(new)
    <3>1. IsCompiled(job[w])
      BY <1>5 DEF TInv, Typed, IsOpen
    <3>2. PICK L, D : job[w] \in [stage : {"compiled"} \cup Writing, head : Heads,
                                  handle : Inode \cup {NoInode}, loaded : L, state : D]
      BY <3>1 DEF IsCompiled
    <3>3. /\ new \in [stage : {"compiled"} \cup Writing, head : Heads,
                      handle : Inode \cup {NoInode}, loaded : L, state : D]
          /\ new.handle \in Inode
      BY <3>2
    <3> HIDE DEF new
    <3> QED BY <3>3 DEF Typed, IsCompiled
  <2>2. job' = [job EXCEPT ![w] = new]
    BY <1>5
  <2> HIDE DEF new
  <2> QED BY <1>5, <2>1, <2>2, TypedStep
<1>6. ASSUME NEW w \in Worker, OpenTemp(w) PROVE TInv'
  <2>1. job[w] # Idle /\ job[w].stage # "open" /\ UNCHANGED setting
    BY <1>6 DEF OpenTemp
  <2>2. PICK i \in Inode :
          /\ job' = [job EXCEPT ![w].stage = "opened", ![w].handle = i]
          /\ directory' = [directory EXCEPT !.temp = i] /\ i # directory.record
    <3>1. CASE Target # NoInode
      <4>1. Target \in Inode /\ Target # directory.record
            /\ directory = [directory EXCEPT !.temp = Target]
        BY <3>1 DEF TInv, Target
      <4> QED BY <1>6, <3>1, <4>1 DEF OpenTemp
    <3>2. CASE Target = NoInode
      <4>1. PICK i \in Unused :
              /\ job' = [job EXCEPT ![w].stage = "opened", ![w].handle = i]
              /\ directory' = [directory EXCEPT !.temp = i]
        BY <1>6, <3>2 DEF OpenTemp
      <4>2. i \in Inode /\ i # directory.record
        BY DEF Unused, InUse
      <4> QED BY <4>1, <4>2
    <3> QED BY <3>1, <3>2
  <2>3. job' = [job EXCEPT ![w] = [job[w] EXCEPT !.stage = "opened", !.handle = i]]
    BY <2>2 DEF TInv
  <2>4. /\ directory' \in [record : Inode \cup {NoInode}, temp : Inode \cup {NoInode}]
        /\ directory'.record = directory'.temp => directory'.record = NoInode
    BY <2>2 DEF TInv
  <2>5. "opened" \in Writing
    BY DEF Writing
  <2> QED BY <1>5, <2>1, <2>3, <2>4, <2>5
<1>7. ASSUME NEW w \in Worker, WritePart(w) \/ WriteRest(w) PROVE TInv'
  <2>0. PICK stage : \/ WritePart(w) /\ stage = "started"
                     \/ WriteRest(w) /\ stage = "written"
    BY <1>7
  <2>1. /\ job[w].stage \in {"opened", "started"} /\ job[w] # Idle
        /\ UNCHANGED <<setting, directory>> /\ job' = [job EXCEPT ![w].stage = stage]
    BY <2>0 DEF WritePart, WriteRest
  <2>2. stage \in Writing /\ job[w].stage \in Writing /\ job[w].stage # "open"
    BY <2>0, <2>1 DEF Writing
  <2> DEFINE i == job[w].handle
  <2>3. i \in Inode /\ job[w] = [job[w] EXCEPT !.handle = i]
    BY <2>1, <2>2 DEF TInv, Typed, IsOpen, IsCompiled, Idle, Writing
  <2>4. job' = [job EXCEPT ![w] = [job[w] EXCEPT !.stage = stage, !.handle = i]]
    <3>1. job[w] \in {job[w]} /\ job = [v \in Worker |-> job[v]]
      BY DEF TInv
    <3> QED BY <2>1, <2>3, <3>1
  <2>5. /\ directory' \in [record : Inode \cup {NoInode}, temp : Inode \cup {NoInode}]
        /\ directory'.record = directory'.temp => directory'.record = NoInode
    BY <2>1 DEF TInv
  <2>6. i \in Inode /\ job[w] # Idle /\ job[w].stage # "open" /\ UNCHANGED setting
    BY <2>1, <2>2, <2>3
  <2> HIDE DEF i
  <2> QED BY <1>5, <2>2, <2>4, <2>5, <2>6
<1>8. ASSUME NEW w \in Worker, Replace(w) \/ Crash(w) PROVE TInv'
  <2>1. /\ job' = [job EXCEPT ![w] = Idle] /\ UNCHANGED setting
        /\ \/ UNCHANGED directory
           \/ directory.temp # NoInode
              /\ directory' = [record |-> directory.temp, temp |-> NoInode]
    BY <1>8 DEF Replace, Crash
  <2>2. /\ directory' \in [record : Inode \cup {NoInode}, temp : Inode \cup {NoInode}]
        /\ directory'.record = directory'.temp => directory'.record = NoInode
    BY <2>1 DEF TInv
  <2> QED BY <1>2, <2>1, <2>2, TypedStep
<1> QED BY <1>1, <1>3, <1>4, <1>6, <1>7, <1>8 DEF Next

\* Names refer to different files, and a job that is writing has a file open.
THEOREM SemanticTypeCorrect == Spec => []TypeOK
<1>1. Init => TInv
  BY DEF Init, TInv, Typed
<1>2. TInv => TypeOK
  <2> SUFFICES ASSUME TInv PROVE TypeOK
    OBVIOUS
  <2>1. ASSUME NEW w \in Active
        PROVE  /\ job[w].stage \in {"open", "compiled", "opened", "started", "written"}
               /\ job[w].head \in Settings[setting].heads
               /\ job[w].stage \in {"opened", "started", "written"} => job[w].handle \in Inode
    BY <2>1 DEF TInv, Typed, IsOpen, IsCompiled, Active, Heads, Writing
  <2> QED BY <2>1 DEF TInv, TypeOK
<1> QED BY <1>1, <1>2, NextTInv, PTL DEF Spec
=============================================================================
