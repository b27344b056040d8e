---------------------------- MODULE HandlerProofs ----------------------------
(***************************************************************************)
(* What the analysis says of a handler is true of every execution of it.    *)
(* A proof in four parts: the recursive functions of ControlFlow satisfy    *)
(* their equations; the graph that is built is a graph; a statement that    *)
(* the graph links is executed no other way than the graph allows; and the  *)
(* invariants of the interpreter that follow.                               *)
(***************************************************************************)
EXTENDS Handler, GraphProofs

-----------------------------------------------------------------------------
(* The recursive functions *)

\* One step of each of them.
NextBlocks(inner) == {b \in Seq(Statements(inner)) : b # <<>> => Tail(b) \in inner}

NextSpan(k, within) ==
    [b \in Blocks[k] |->
        IF b = <<>> THEN {} ELSE SpanOf(within, Head(b)) \cup within[Tail(b)]]

NextLinks(k, link) ==
    [block \in Blocks[k] |-> [at \in Builders |->
        IF block = <<>> \/ at.last = NoNode THEN at
        ELSE link[Tail(block)][LinkStatement(link, at, Head(block))]]]

\* The equation of Blocks: a function that satisfies it exists, so CHOOSE finds one.
LEMMA BlocksEquation ==
    /\ Blocks[0] = {<<>>}
    /\ \A k \in Nat : k # 0 => Blocks[k] = NextBlocks(Blocks[k - 1])
<1> DEFINE Step(k, v) == IF k = 0 THEN {<<>>} ELSE NextBlocks(v)
           Is(f) == f = [k \in Nat |-> Step(k, f[k - 1])]
           UpTo(n, f) == \A k \in 0..n : f[k] = Step(k, f[k - 1])
           T == {n \in Nat : \E f : UpTo(n, f)}
           U == {n \in Nat : \A f, h : UpTo(n, f) /\ UpTo(n, h) => f[n] = h[n]}
           Some(n) == CHOOSE f : UpTo(n, f)
           F == [n \in Nat |-> Some(n)[n]]
<1>0. \A v, w : Step(0, v) = Step(0, w)
  OBVIOUS
<1>a. \A v : \A k \in Nat : Step(k, v) = IF k = 0 THEN {<<>>} ELSE NextBlocks(v)
  OBVIOUS
<1>b. Blocks = CHOOSE f : Is(f)
  BY DEF Blocks, NextBlocks
<1> HIDE DEF Step
<1>1. 0 \in T
  <2>1. UpTo(0, [k \in Nat |-> Step(0, 0)])
    BY <1>0
  <2> QED BY <2>1
<1>2. ASSUME NEW n \in Nat, n \in T PROVE n + 1 \in T
  <2>1. PICK f : UpTo(n, f)
    BY <1>2
  <2> DEFINE h == [k \in Nat |-> IF k = n + 1 THEN Step(k, f[n]) ELSE f[k]]
  <2>2. ASSUME NEW k \in 0..(n + 1) PROVE h[k] = Step(k, h[k - 1])
    <3>1. CASE k = n + 1
      BY <1>2, <3>1
    <3>2. CASE k # n + 1 /\ k # 0
      BY <1>2, <2>1, <3>2
    <3>3. CASE k = 0
      <4>1. h[k] = f[0] /\ f[0] = Step(0, f[0 - 1])
        BY <1>2, <2>1, <3>3
      <4> HIDE DEF h
      <4> QED BY <1>0, <3>3, <4>1
    <3> HIDE DEF h
    <3> QED BY <1>2, <3>1, <3>2, <3>3
  <2> HIDE DEF h
  <2>3. UpTo(n + 1, h)
    BY <2>2
  <2> QED BY <1>2, <2>3
<1>3. 0 \in U
  BY <1>0
<1>4. ASSUME NEW n \in Nat, n \in U PROVE n + 1 \in U
  <2> SUFFICES ASSUME NEW f, NEW h, UpTo(n + 1, f), UpTo(n + 1, h) PROVE f[n + 1] = h[n + 1]
    BY <1>4
  <2>1. UpTo(n, f) /\ UpTo(n, h)
    BY <1>4
  <2>2. f[n] = h[n]
    BY <1>4, <2>1
  <2>3. n + 1 \in 0..(n + 1) /\ (n + 1) - 1 = n
    BY <1>4
  <2> QED BY <2>2, <2>3
<1>5. Nat \subseteq T
  <2> HIDE DEF T
  <2> QED BY <1>1, <1>2, NaturalInduction
<1>6. Nat \subseteq U
  <2> HIDE DEF U
  <2> QED BY <1>3, <1>4, NaturalInduction
<1>7. \A n \in Nat : UpTo(n, Some(n))
  <2> HIDE DEF UpTo
  <2> QED BY <1>5
<1> HIDE DEF Some
<1>8. ASSUME NEW n \in Nat PROVE F[n] = Step(n, F[n - 1])
  <2>1. Some(n)[n] = Step(n, Some(n)[n - 1])
    BY <1>7
  <2>2. CASE n = 0
    BY <1>0, <2>1, <2>2
  <2>3. CASE n # 0
    <3>1. n - 1 \in Nat /\ n - 1 \in U
      BY <1>6, <2>3
    <3>2. UpTo(n - 1, Some(n)) /\ UpTo(n - 1, Some(n - 1))
      BY <1>7, <3>1
    <3>3. Some(n)[n - 1] = Some(n - 1)[n - 1]
      BY <3>1, <3>2
    <3> QED BY <2>1, <3>1, <3>3
  <2> QED BY <2>2, <2>3
<1>9. Is(F)
  BY <1>8
<1> HIDE DEF F
<1>10. Is(Blocks)
  <2> HIDE DEF Is
  <2> QED BY <1>b, <1>9
<1> QED BY <1>0, <1>a, <1>10

\* The same, of the lines of a block.
LEMMA SpanEquation ==
    \A k \in Nat : SpanWithin[k] = NextSpan(k, SpanWithin[k - 1])
<1> DEFINE Step(k, v) == NextSpan(k, v)
           Is(f) == f = [k \in Nat |-> Step(k, f[k - 1])]
           UpTo(n, f) == \A k \in 0..n : f[k] = Step(k, f[k - 1])
           T == {n \in Nat : \E f : UpTo(n, f)}
           U == {n \in Nat : \A f, h : UpTo(n, f) /\ UpTo(n, h) => f[n] = h[n]}
           Some(n) == CHOOSE f : UpTo(n, f)
           F == [n \in Nat |-> Some(n)[n]]
<1>0. \A v, w : Step(0, v) = Step(0, w)
  BY BlocksEquation DEF NextSpan
<1>a. \A v : \A k \in Nat : Step(k, v) = NextSpan(k, v)
  OBVIOUS
<1>b. SpanWithin = CHOOSE f : Is(f)
  BY DEF SpanWithin, NextSpan
<1> HIDE DEF Step
<1>1. 0 \in T
  <2>1. UpTo(0, [k \in Nat |-> Step(0, 0)])
    BY <1>0
  <2> QED BY <2>1
<1>2. ASSUME NEW n \in Nat, n \in T PROVE n + 1 \in T
  <2>1. PICK f : UpTo(n, f)
    BY <1>2
  <2> DEFINE h == [k \in Nat |-> IF k = n + 1 THEN Step(k, f[n]) ELSE f[k]]
  <2>2. ASSUME NEW k \in 0..(n + 1) PROVE h[k] = Step(k, h[k - 1])
    <3>1. CASE k = n + 1
      BY <1>2, <3>1
    <3>2. CASE k # n + 1 /\ k # 0
      BY <1>2, <2>1, <3>2
    <3>3. CASE k = 0
      <4>1. h[k] = f[0] /\ f[0] = Step(0, f[0 - 1])
        BY <1>2, <2>1, <3>3
      <4> HIDE DEF h
      <4> QED BY <1>0, <3>3, <4>1
    <3> HIDE DEF h
    <3> QED BY <1>2, <3>1, <3>2, <3>3
  <2> HIDE DEF h
  <2>3. UpTo(n + 1, h)
    BY <2>2
  <2> QED BY <1>2, <2>3
<1>3. 0 \in U
  BY <1>0
<1>4. ASSUME NEW n \in Nat, n \in U PROVE n + 1 \in U
  <2> SUFFICES ASSUME NEW f, NEW h, UpTo(n + 1, f), UpTo(n + 1, h) PROVE f[n + 1] = h[n + 1]
    BY <1>4
  <2>1. UpTo(n, f) /\ UpTo(n, h)
    BY <1>4
  <2>2. f[n] = h[n]
    BY <1>4, <2>1
  <2>3. n + 1 \in 0..(n + 1) /\ (n + 1) - 1 = n
    BY <1>4
  <2> QED BY <2>2, <2>3
<1>5. Nat \subseteq T
  <2> HIDE DEF T
  <2> QED BY <1>1, <1>2, NaturalInduction
<1>6. Nat \subseteq U
  <2> HIDE DEF U
  <2> QED BY <1>3, <1>4, NaturalInduction
<1>7. \A n \in Nat : UpTo(n, Some(n))
  <2> HIDE DEF UpTo
  <2> QED BY <1>5
<1> HIDE DEF Some
<1>8. ASSUME NEW n \in Nat PROVE F[n] = Step(n, F[n - 1])
  <2>1. Some(n)[n] = Step(n, Some(n)[n - 1])
    BY <1>7
  <2>2. CASE n = 0
    BY <1>0, <2>1, <2>2
  <2>3. CASE n # 0
    <3>1. n - 1 \in Nat /\ n - 1 \in U
      BY <1>6, <2>3
    <3>2. UpTo(n - 1, Some(n)) /\ UpTo(n - 1, Some(n - 1))
      BY <1>7, <3>1
    <3>3. Some(n)[n - 1] = Some(n - 1)[n - 1]
      BY <3>1, <3>2
    <3> QED BY <2>1, <3>1, <3>3
  <2> QED BY <2>2, <2>3
<1>9. Is(F)
  BY <1>8
<1> HIDE DEF F
<1>10. Is(SpanWithin)
  <2> HIDE DEF Is
  <2> QED BY <1>b, <1>9
<1> QED BY <1>0, <1>a, <1>10

\* The same, of the builder.
LEMMA LinksEquation ==
    \A k \in Nat : LinkBlocks[k] = NextLinks(k, LinkBlocks[k - 1])
<1> DEFINE Step(k, v) == NextLinks(k, v)
           Is(f) == f = [k \in Nat |-> Step(k, f[k - 1])]
           UpTo(n, f) == \A k \in 0..n : f[k] = Step(k, f[k - 1])
           T == {n \in Nat : \E f : UpTo(n, f)}
           U == {n \in Nat : \A f, h : UpTo(n, f) /\ UpTo(n, h) => f[n] = h[n]}
           Some(n) == CHOOSE f : UpTo(n, f)
           F == [n \in Nat |-> Some(n)[n]]
<1>0. \A v, w : Step(0, v) = Step(0, w)
  BY BlocksEquation DEF NextLinks
<1>a. \A v : \A k \in Nat : Step(k, v) = NextLinks(k, v)
  OBVIOUS
<1>b. LinkBlocks = CHOOSE f : Is(f)
  BY DEF LinkBlocks, NextLinks
<1> HIDE DEF Step
<1>1. 0 \in T
  <2>1. UpTo(0, [k \in Nat |-> Step(0, 0)])
    BY <1>0
  <2> QED BY <2>1
<1>2. ASSUME NEW n \in Nat, n \in T PROVE n + 1 \in T
  <2>1. PICK f : UpTo(n, f)
    BY <1>2
  <2> DEFINE h == [k \in Nat |-> IF k = n + 1 THEN Step(k, f[n]) ELSE f[k]]
  <2>2. ASSUME NEW k \in 0..(n + 1) PROVE h[k] = Step(k, h[k - 1])
    <3>1. CASE k = n + 1
      BY <1>2, <3>1
    <3>2. CASE k # n + 1 /\ k # 0
      BY <1>2, <2>1, <3>2
    <3>3. CASE k = 0
      <4>1. h[k] = f[0] /\ f[0] = Step(0, f[0 - 1])
        BY <1>2, <2>1, <3>3
      <4> HIDE DEF h
      <4> QED BY <1>0, <3>3, <4>1
    <3> HIDE DEF h
    <3> QED BY <1>2, <3>1, <3>2, <3>3
  <2> HIDE DEF h
  <2>3. UpTo(n + 1, h)
    BY <2>2
  <2> QED BY <1>2, <2>3
<1>3. 0 \in U
  BY <1>0
<1>4. ASSUME NEW n \in Nat, n \in U PROVE n + 1 \in U
  <2> SUFFICES ASSUME NEW f, NEW h, UpTo(n + 1, f), UpTo(n + 1, h) PROVE f[n + 1] = h[n + 1]
    BY <1>4
  <2>1. UpTo(n, f) /\ UpTo(n, h)
    BY <1>4
  <2>2. f[n] = h[n]
    BY <1>4, <2>1
  <2>3. n + 1 \in 0..(n + 1) /\ (n + 1) - 1 = n
    BY <1>4
  <2> QED BY <2>2, <2>3
<1>5. Nat \subseteq T
  <2> HIDE DEF T
  <2> QED BY <1>1, <1>2, NaturalInduction
<1>6. Nat \subseteq U
  <2> HIDE DEF U
  <2> QED BY <1>3, <1>4, NaturalInduction
<1>7. \A n \in Nat : UpTo(n, Some(n))
  <2> HIDE DEF UpTo
  <2> QED BY <1>5
<1> HIDE DEF Some
<1>8. ASSUME NEW n \in Nat PROVE F[n] = Step(n, F[n - 1])
  <2>1. Some(n)[n] = Step(n, Some(n)[n - 1])
    BY <1>7
  <2>2. CASE n = 0
    BY <1>0, <2>1, <2>2
  <2>3. CASE n # 0
    <3>1. n - 1 \in Nat /\ n - 1 \in U
      BY <1>6, <2>3
    <3>2. UpTo(n - 1, Some(n)) /\ UpTo(n - 1, Some(n - 1))
      BY <1>7, <3>1
    <3>3. Some(n)[n - 1] = Some(n - 1)[n - 1]
      BY <3>1, <3>2
    <3> QED BY <2>1, <3>1, <3>3
  <2> QED BY <2>2, <2>3
<1>9. Is(F)
  BY <1>8
<1> HIDE DEF F
<1>10. Is(LinkBlocks)
  <2> HIDE DEF Is
  <2> QED BY <1>b, <1>9
<1> QED BY <1>0, <1>a, <1>10
-----------------------------------------------------------------------------
(* The statements of a handler *)

Stmts == Statements(Blocks[Size])

LEMMA StatementsGrow ==
    ASSUME NEW inner, NEW outer, inner \subseteq outer
    PROVE  Statements(inner) \subseteq Statements(outer)
BY DEF Statements

\* The kinds of statements, and what they hold.
LEMMA StatementKinds ==
    ASSUME NEW inner, NEW s \in Statements(inner)
    PROVE  \/ s.kind \in {"call", "lazy"} /\ s.site \in Site
           \/ s.kind \in {"return", "skip"} /\ s.line \in Site \cup {NoLine}
           \/ s.kind = "block" /\ s.body \in inner
           \/ /\ s.kind = "if" /\ s.op \in {"plain", "and", "or", "opaque", "owner"}
              /\ s.split \in BOOLEAN
              /\ s.atoms \in Seq(SUBSET Site) /\ s.atoms # <<>>
              /\ s.body \in inner /\ s.orelse \in inner
BY DEF Statements

LEMMA BlockParts ==
    ASSUME NEW k \in Nat, NEW b \in Blocks[k]
    PROVE  /\ \E inner : b \in Seq(Statements(inner))
           /\ b # <<>> => /\ k # 0 /\ k - 1 \in Nat
                          /\ Head(b) \in Statements(Blocks[k - 1]) /\ Tail(b) \in Blocks[k - 1]
                          /\ b \in Seq(Statements(Blocks[k - 1]))
<1>1. CASE b = <<>>
  BY <1>1
<1>2. CASE b # <<>>
  <2>1. k # 0
    BY <1>2, BlocksEquation
  <2>2. b \in Seq(Statements(Blocks[k - 1])) /\ Tail(b) \in Blocks[k - 1]
    BY <1>2, <2>1, BlocksEquation DEF NextBlocks
  <2>3. Head(b) \in Statements(Blocks[k - 1])
    <3> DEFINE S == Statements(Blocks[k - 1])
    <3> HIDE DEF S
    <3>1. b \in Seq(S)
      BY <2>2 DEF S
    <3>2. Head(b) \in S
      BY <1>2, <3>1
    <3> QED BY <3>2 DEF S
  <2> QED BY <2>1, <2>2, <2>3
<1> QED BY <1>1, <1>2

\* What spans a statement asks for the bodies it holds only.
LEMMA SpanAgrees ==
    ASSUME NEW inner, NEW s \in Statements(inner), NEW f, NEW h, \A b \in inner : f[b] = h[b]
    PROVE  SpanOf(f, s) = SpanOf(h, s)
BY StatementKinds DEF SpanOf

\* A larger bound adds blocks and changes nothing for those there were.
LEMMA BlocksGrow ==
    \A n \in Nat : \A k \in Nat : \A b \in Blocks[k] :
        b \in Blocks[k + n] /\ SpanWithin[k + n][b] = SpanWithin[k][b]
<1> DEFINE Same(k, m) == \A b \in Blocks[k] : b \in Blocks[m] /\ SpanWithin[m][b] = SpanWithin[k][b]
           T == {k \in Nat : Same(k, k + 1)}
           U == {n \in Nat : \A k \in Nat : Same(k, k + n)}
<1>1. ASSUME NEW k \in Nat, \A j \in Nat : j + 1 = k => Same(j, k) PROVE Same(k, k + 1)
  <2> SUFFICES ASSUME NEW b \in Blocks[k]
               PROVE  b \in Blocks[k + 1] /\ SpanWithin[k + 1][b] = SpanWithin[k][b]
    OBVIOUS
  <2>0. k + 1 \in Nat /\ k + 1 # 0 /\ (k + 1) - 1 = k
    OBVIOUS
  <2>a. /\ Blocks[k + 1] = NextBlocks(Blocks[k])
        /\ SpanWithin[k + 1] = NextSpan(k + 1, SpanWithin[k])
        /\ SpanWithin[k] = NextSpan(k, SpanWithin[k - 1])
    BY <2>0, BlocksEquation, SpanEquation
  <2>1. CASE b = <<>>
    <3>1. b \in Blocks[k + 1]
      BY <2>a, <2>1 DEF NextBlocks
    <3> QED BY <2>a, <2>1, <3>1 DEF NextSpan
  <2>2. CASE b # <<>>
    <3> DEFINE j == k - 1
    <3>1. /\ j \in Nat /\ j + 1 = k
          /\ Head(b) \in Statements(Blocks[j]) /\ Tail(b) \in Blocks[j]
          /\ b \in Seq(Statements(Blocks[j]))
      BY <2>2, BlockParts
    <3> HIDE DEF j
    <3>2. Same(j, k)
      BY <1>1, <3>1
    <3>3. Statements(Blocks[j]) \subseteq Statements(Blocks[k])
      BY <3>2, StatementsGrow
    <3>4. b \in Seq(Statements(Blocks[k]))
      BY <3>1, <3>3, SeqMonotonic
    <3>5. b \in Blocks[k + 1]
      BY <2>a, <3>1, <3>2, <3>4 DEF NextBlocks
    <3>6. SpanOf(SpanWithin[k], Head(b)) = SpanOf(SpanWithin[j], Head(b))
      BY <3>1, <3>2, SpanAgrees
    <3>7. SpanWithin[k + 1][b] = SpanOf(SpanWithin[k], Head(b)) \cup SpanWithin[k][Tail(b)]
      BY <2>a, <2>2, <3>5 DEF NextSpan
    <3>8. SpanWithin[k][b] = SpanOf(SpanWithin[j], Head(b)) \cup SpanWithin[j][Tail(b)]
      BY <2>a, <2>2 DEF NextSpan, j
    <3> QED BY <3>1, <3>2, <3>5, <3>6, <3>7, <3>8
  <2> QED BY <2>1, <2>2
<1> HIDE DEF Same
<1>2. 0 \in T
  BY <1>1
<1>3. \A k \in Nat : k \in T => k + 1 \in T
  BY <1>1
<1>4. Nat \subseteq T
  <2> HIDE DEF T
  <2> QED BY <1>2, <1>3, NaturalInduction
<1>5. 0 \in U
  BY DEF Same
<1>6. ASSUME NEW n \in Nat, n \in U PROVE n + 1 \in U
  <2>1. ASSUME NEW k \in Nat PROVE Same(k, k + (n + 1))
    <3>1. Same(k, k + n) /\ Same(k + n, (k + n) + 1)
      BY <1>4, <1>6
    <3> QED BY <3>1, <1>6 DEF Same
  <2> QED BY <2>1
<1>7. Nat \subseteq U
  <2> HIDE DEF U
  <2> QED BY <1>5, <1>6, NaturalInduction
<1> QED BY <1>7 DEF Same

\* What a statement of a handler has on which line.
SpanIs(s) == SpanOf(SpanWithin[Size], s)

LEMMA WithinSize ==
    ASSUME NEW k \in 0..Size
    PROVE  /\ Blocks[k] \subseteq Blocks[Size]
           /\ Statements(Blocks[k]) \subseteq Stmts
           /\ \A b \in Blocks[k] : SpanWithin[k][b] = SpanIn(b)
           /\ \A s \in Statements(Blocks[k]) : SpanOf(SpanWithin[k], s) = SpanIs(s)
<1>1. Size - k \in Nat /\ k \in Nat /\ k + (Size - k) = Size
  BY SourceAssumption
<1>2. \A b \in Blocks[k] : b \in Blocks[Size] /\ SpanWithin[Size][b] = SpanWithin[k][b]
  BY <1>1, BlocksGrow
<1>3. \A s \in Statements(Blocks[k]) : SpanOf(SpanWithin[k], s) = SpanOf(SpanWithin[Size], s)
  BY <1>2, SpanAgrees
<1> QED BY <1>2, <1>3, StatementsGrow DEF Stmts, SpanIn, SpanIs

LEMMA SpanByKind ==
    ASSUME NEW s
    PROVE  /\ s.kind \in {"call", "lazy"} => SpanIs(s) = On({s.site}, s.kind)
           /\ s.kind = "block" => SpanIs(s) = SpanIn(s.body)
           /\ s.kind = "if" => SpanIs(s) = On(TestSites(s), IF IsOpaque(s) THEN "opaque" ELSE "call")
                                             \cup SpanIn(s.body) \cup SpanIn(s.orelse)
           /\ s.kind \in {"return", "skip"} => SpanIs(s) = On({s.line} \cap Site, "none")
BY DEF SpanIs, SpanOf, SpanIn

LEMMA SpanOfBlock ==
    ASSUME NEW k \in 0..Size, NEW b \in Blocks[k]
    PROVE  /\ b = <<>> => SpanIn(b) = {}
           /\ b # <<>> => SpanIn(b) = SpanIs(Head(b)) \cup SpanIn(Tail(b))
<1>0. k \in Nat
  OBVIOUS
<1>1. SpanIn(b) = SpanWithin[k][b] /\ SpanWithin[k] = NextSpan(k, SpanWithin[k - 1])
  BY <1>0, WithinSize, SpanEquation
<1>2. ASSUME b # <<>> PROVE SpanIn(b) = SpanIs(Head(b)) \cup SpanIn(Tail(b))
  <2>1. k - 1 \in 0..Size /\ Head(b) \in Statements(Blocks[k - 1]) /\ Tail(b) \in Blocks[k - 1]
    BY <1>0, <1>2, BlockParts, SourceAssumption
  <2>2. SpanOf(SpanWithin[k - 1], Head(b)) = SpanIs(Head(b))
    BY <2>1, WithinSize
  <2>3. SpanWithin[k - 1][Tail(b)] = SpanIn(Tail(b))
    BY <2>1, WithinSize
  <2> QED BY <1>1, <1>2, <2>2, <2>3 DEF NextSpan
<1> QED BY <1>1, <1>2 DEF NextSpan

LEMMA CallsOnLines ==
    /\ CallsOn({}) = {}
    /\ \A A, B : CallsOn(A \cup B) = CallsOn(A) \cup CallsOn(B)
    /\ \A A : \A how \in {"call", "lazy", "opaque"} : CallsOn(On(A, how)) = A
    /\ \A A : CallsOn(On(A, "none")) = {}
<1>1. ASSUME NEW A, NEW how \in {"call", "lazy", "opaque"} PROVE CallsOn(On(A, how)) = A
  <2>1. \A l \in On(A, how) : l.how # "none" /\ l.line \in A
    BY DEF On
  <2>2. ASSUME NEW a \in A PROVE a \in CallsOn(On(A, how))
    <3>1. [line |-> a, how |-> how] \in On(A, how) /\ how # "none"
      BY DEF On
    <3> QED BY <3>1 DEF CallsOn
  <2> QED BY <2>1, <2>2 DEF CallsOn
<1>2. ASSUME NEW A PROVE CallsOn(On(A, "none")) = {}
  <2>1. \A l \in On(A, "none") : l.how = "none"
    BY DEF On
  <2> QED BY <2>1 DEF CallsOn
<1>3. CallsOn({}) = {} /\ \A A, B : CallsOn(A \cup B) = CallsOn(A) \cup CallsOn(B)
  BY DEF CallsOn
<1> QED BY <1>1, <1>2, <1>3

LEMMA SitesByKind ==
    ASSUME NEW s
    PROVE  /\ s.kind \in {"call", "lazy"} => SitesOf(s) = {s.site}
           /\ s.kind = "block" => SitesOf(s) = SitesIn(s.body)
           /\ s.kind = "if" => SitesOf(s) = TestSites(s) \cup SitesIn(s.body) \cup SitesIn(s.orelse)
           /\ s.kind \in {"return", "skip"} => SitesOf(s) = {}
<1>1. SitesOf(s) = CallsOn(SpanIs(s))
  BY DEF SitesOf, SpanIs
<1>2. CASE s.kind \in {"call", "lazy"}
  <2>1. SpanIs(s) = On({s.site}, s.kind)
    BY <1>2, SpanByKind
  <2>2. s.kind \in {"call", "lazy", "opaque"}
    BY <1>2
  <2>3. CallsOn(On({s.site}, s.kind)) = {s.site}
    BY <2>2, CallsOnLines
  <2> QED BY <1>1, <1>2, <2>1, <2>3
<1>3. CASE s.kind = "block"
  BY <1>1, <1>3, SpanByKind DEF SitesIn
<1>4. CASE s.kind = "if"
  <2> DEFINE how == IF IsOpaque(s) THEN "opaque" ELSE "call"
  <2>1. how \in {"call", "lazy", "opaque"}
    OBVIOUS
  <2>2. SpanIs(s) = (On(TestSites(s), how) \cup SpanIn(s.body)) \cup SpanIn(s.orelse)
    BY <1>4, SpanByKind
  <2> HIDE DEF how
  <2>3. CallsOn(On(TestSites(s), how)) = TestSites(s)
    BY <2>1, CallsOnLines
  <2> DEFINE test == On(TestSites(s), how)
             body == SpanIn(s.body)
             orelse == SpanIn(s.orelse)
  <2>4. SitesIn(s.body) = CallsOn(body) /\ SitesIn(s.orelse) = CallsOn(orelse)
    BY DEF SitesIn
  <2> HIDE DEF test, body, orelse
  <2>5. CallsOn((test \cup body) \cup orelse) = (CallsOn(test) \cup CallsOn(body)) \cup CallsOn(orelse)
    <3>1. CallsOn(test \cup body) = CallsOn(test) \cup CallsOn(body)
      BY CallsOnLines
    <3>2. \A A : CallsOn(A \cup orelse) = CallsOn(A) \cup CallsOn(orelse)
      BY CallsOnLines
    <3> DEFINE both == test \cup body
    <3> HIDE DEF both
    <3>3. CallsOn(both \cup orelse) = CallsOn(both) \cup CallsOn(orelse)
      BY <3>2
    <3> QED BY <3>1, <3>3 DEF both
  <2>6. SitesOf(s) = (TestSites(s) \cup CallsOn(body)) \cup CallsOn(orelse)
    BY <1>1, <2>2, <2>3, <2>5 DEF test, body, orelse
  <2> QED BY <1>4, <2>4, <2>6
<1>5. CASE s.kind \in {"return", "skip"}
  <2>1. SpanIs(s) = On({s.line} \cap Site, "none")
    BY <1>5, SpanByKind
  <2>2. CallsOn(On({s.line} \cap Site, "none")) = {}
    BY CallsOnLines
  <2> QED BY <1>1, <1>5, <2>1, <2>2
<1> QED BY <1>2, <1>3, <1>4, <1>5

LEMMA SitesOfBlock ==
    ASSUME NEW k \in 0..Size, NEW b \in Blocks[k]
    PROVE  /\ b = <<>> => SitesIn(b) = {}
           /\ b # <<>> => SitesIn(b) = SitesOf(Head(b)) \cup SitesIn(Tail(b))
<1> DEFINE first == SpanIs(Head(b))
           others == SpanIn(Tail(b))
<1>1. CASE b = <<>>
  <2>1. SpanIn(b) = {}
    BY <1>1, SpanOfBlock
  <2> QED BY <1>1, <2>1, CallsOnLines DEF SitesIn
<1>2. CASE b # <<>>
  <2>1. SpanIn(b) = first \cup others
    BY <1>2, SpanOfBlock
  <2>2. SitesOf(Head(b)) = CallsOn(first) /\ SitesIn(Tail(b)) = CallsOn(others)
    BY DEF SitesIn, SitesOf, SpanIs
  <2> HIDE DEF first, others
  <2>3. CallsOn(first \cup others) = CallsOn(first) \cup CallsOn(others)
    BY CallsOnLines
  <2> QED BY <1>2, <2>1, <2>2, <2>3 DEF SitesIn
<1> QED BY <1>1, <1>2

\* A block is a sequence of statements, and spans the lines of each of them.
LEMMA BlockStatements ==
    ASSUME NEW b \in Blocks[Size]
    PROVE  /\ b \in Seq(Stmts)
           /\ \A i \in DOMAIN b : SitesOf(b[i]) \subseteq SitesIn(b)
<1> DEFINE Good(c) == c \in Seq(Stmts) /\ \A i \in 1..Len(c) : SitesOf(c[i]) \subseteq SitesIn(c)
           T == {k \in Nat : k <= Size => \A c \in Blocks[k] : Good(c)}
<1> HIDE DEF Good
<1>0. Good(<<>>)
  BY DEF Good
<1>1. 0 \in T
  BY <1>0, BlocksEquation
<1>2. ASSUME NEW k \in Nat, k \in T, k + 1 <= Size PROVE \A c \in Blocks[k + 1] : Good(c)
  <2> SUFFICES ASSUME NEW c \in Blocks[k + 1] PROVE Good(c)
    OBVIOUS
  <2>0. k + 1 \in Nat /\ k + 1 \in 0..Size /\ k \in 0..Size /\ (k + 1) - 1 = k
    BY <1>2, SourceAssumption
  <2>1. CASE c = <<>>
    BY <1>0, <2>1
  <2>2. CASE c # <<>>
    <3>1. /\ c \in Seq(Statements(Blocks[k])) /\ Tail(c) \in Blocks[k]
      BY <2>0, <2>2, BlockParts
    <3>2. c \in Seq(Stmts)
      BY <2>0, <3>1, WithinSize, SeqMonotonic
    <3>3. Good(Tail(c))
      BY <1>2, <2>0, <3>1
    <3>4. SitesIn(c) = SitesOf(Head(c)) \cup SitesIn(Tail(c))
      BY <2>0, <2>2, SitesOfBlock
    <3>5. ASSUME NEW i \in 1..Len(c) PROVE SitesOf(c[i]) \subseteq SitesIn(c)
      <4>1. CASE i = 1
        <5>1. c[i] = Head(c)
          BY <4>1
        <5> QED BY <3>4, <5>1
      <4>2. CASE i # 1
        <5>1. i - 1 \in 1..Len(Tail(c)) /\ c[i] = Tail(c)[i - 1]
          <6> DEFINE S == Stmts
          <6> HIDE DEF S
          <6>1. c \in Seq(S)
            BY <3>2 DEF S
          <6>2. Len(c) \in Nat /\ Len(Tail(c)) = Len(c) - 1
                  /\ \A j \in 1..Len(Tail(c)) : Tail(c)[j] = c[j + 1]
            BY <2>2, <6>1, HeadTailProperties
          <6>3. i - 1 \in 1..Len(Tail(c)) /\ (i - 1) + 1 = i
            BY <4>2, <6>2
          <6> QED BY <6>2, <6>3
        <5> QED BY <3>3, <3>4, <5>1 DEF Good
      <4> QED BY <4>1, <4>2
    <3> QED BY <3>2, <3>5 DEF Good
  <2> QED BY <2>1, <2>2
<1>3. \A k \in Nat : k \in T => k + 1 \in T
  BY <1>2
<1> HIDE DEF T
<1>4. Size \in T
  BY <1>1, <1>3, NaturalInduction, SourceAssumption
<1>5. Good(b)
  BY <1>4, SourceAssumption DEF T
<1>6. DOMAIN b = 1..Len(b)
  <2> HIDE DEF Stmts
  <2> QED BY <1>5 DEF Good
<1> QED BY <1>5, <1>6 DEF Good

\* Lines are lines of the source file.
LEMMA SitesType ==
    /\ \A b \in Blocks[Size] : SitesIn(b) \subseteq Site
    /\ \A s \in Stmts : SitesOf(s) \subseteq Site /\ SitesOf(s) \subseteq LinesOf(s)
                         /\ LinesOf(s) \subseteq Site
    /\ \A s \in Stmts : s.kind = "if" => TestSites(s) \subseteq Site
<1> DEFINE Good(span) == \A l \in span : l.line \in Site
           T == {k \in Nat : k <= Size => \A c \in Blocks[k] : Good(SpanIn(c))}
<1>1. \A s \in Stmts : s.kind = "if" => TestSites(s) \subseteq Site
  <2> SUFFICES ASSUME NEW s \in Stmts, s.kind = "if", NEW i \in DOMAIN s.atoms
               PROVE  s.atoms[i] \subseteq Site
    BY DEF TestSites
  <2>1. s.atoms \in Seq(SUBSET Site)
    BY StatementKinds DEF Stmts
  <2> QED BY <2>1
<1>a. \A A, how : A \subseteq Site => Good(On(A, how))
  BY DEF On
<1>b. Good({}) /\ (\A A, B : Good(A) /\ Good(B) => Good(A \cup B))
  OBVIOUS
<1> HIDE DEF Good
<1>2. ASSUME NEW inner, NEW s \in Statements(inner), s \in Stmts, \A c \in inner : Good(SpanIn(c))
      PROVE  Good(SpanIs(s))
  <2>1. CASE s.kind \in {"call", "lazy"} /\ s.site \in Site
    <3>1. SpanIs(s) = On({s.site}, s.kind)
      BY <2>1, SpanByKind
    <3>2. Good(On({s.site}, s.kind))
      BY <1>a, <2>1
    <3> QED BY <3>1, <3>2
  <2>2. CASE s.kind \in {"return", "skip"}
    <3>1. SpanIs(s) = On({s.line} \cap Site, "none")
      BY <2>2, SpanByKind
    <3>2. Good(On({s.line} \cap Site, "none"))
      BY <1>a
    <3> QED BY <3>1, <3>2
  <2>3. CASE s.kind = "block" /\ s.body \in inner
    BY <1>2, <2>3, SpanByKind
  <2>4. CASE s.kind = "if" /\ s.body \in inner /\ s.orelse \in inner
    <3> DEFINE how == IF IsOpaque(s) THEN "opaque" ELSE "call"
    <3>1. SpanIs(s) = On(TestSites(s), how) \cup SpanIn(s.body) \cup SpanIn(s.orelse)
      BY <2>4, SpanByKind
    <3> HIDE DEF how
    <3>2. Good(On(TestSites(s), how)) /\ Good(SpanIn(s.body)) /\ Good(SpanIn(s.orelse))
      BY <1>1, <1>2, <1>a, <2>4
    <3> QED BY <1>b, <3>1, <3>2
  <2> QED BY <2>1, <2>2, <2>3, <2>4, StatementKinds
<1>3. 0 \in T
  BY <1>b, BlocksEquation, SpanOfBlock, SourceAssumption
<1>4. ASSUME NEW k \in Nat, k \in T, k + 1 <= Size PROVE \A c \in Blocks[k + 1] : Good(SpanIn(c))
  <2> SUFFICES ASSUME NEW c \in Blocks[k + 1] PROVE Good(SpanIn(c))
    OBVIOUS
  <2>0. k + 1 \in Nat /\ k + 1 \in 0..Size /\ k \in 0..Size /\ (k + 1) - 1 = k
    BY <1>4, SourceAssumption
  <2>1. CASE c = <<>>
    BY <1>b, <2>0, <2>1, SpanOfBlock
  <2>2. CASE c # <<>>
    <3>1. Head(c) \in Statements(Blocks[k]) /\ Tail(c) \in Blocks[k]
      BY <2>0, <2>2, BlockParts
    <3>2. Head(c) \in Stmts
      BY <2>0, <3>1, WithinSize
    <3>3. \A d \in Blocks[k] : Good(SpanIn(d))
      BY <1>4, <2>0
    <3> QED BY <1>2, <1>b, <2>0, <2>2, <3>1, <3>2, <3>3, SpanOfBlock
  <2> QED BY <2>1, <2>2
<1>5. \A k \in Nat : k \in T => k + 1 \in T
  BY <1>4
<1> HIDE DEF T
<1>6. Size \in T
  BY <1>3, <1>5, NaturalInduction, SourceAssumption
<1>7. \A c \in Blocks[Size] : Good(SpanIn(c))
  BY <1>6, SourceAssumption DEF T
<1>8. \A s \in Stmts : Good(SpanIs(s))
  BY <1>2, <1>7 DEF Stmts
<1>9. \A span : Good(span) => {l.line : l \in span} \subseteq Site /\ CallsOn(span) \subseteq Site
  BY DEF Good, CallsOn
<1>10. \A span : CallsOn(span) \subseteq {l.line : l \in span}
  BY DEF CallsOn
<1> QED BY <1>1, <1>7, <1>8, <1>9, <1>10 DEF SitesIn, SitesOf, LinesOf, SpanIs
-----------------------------------------------------------------------------
(* Executions: what is left to do, one step after another *)

Executed == Stmts \cup [kind : {"call"}, site : Site]
Todo == Seq(Executed)

\* What only calls on some lines are left of.
TodoOn(A) == {t \in Todo : \A i \in 1..Len(t) : SitesOf(t[i]) \subseteq A}

\* The ways on from a statement, other than a call made and the end of the request.
Replaces(q, s) ==
    \/ s.kind \in {"lazy", "skip"} /\ q = <<>>
    \/ /\ s.kind = "if"
       /\ \E o \in Outcomes(s) : \E calls \in Calls(o.calls) :
             q = calls \o (IF o.truth THEN s.body ELSE s.orelse)
    \/ /\ s.kind = "block"
       /\ \E n \in 0..Len(s.body) : \/ q = SubSeq(s.body, 1, n) \o <<s>>
                                    \/ q = SubSeq(s.body, 1, n)

Silent(t, u) ==
    t # <<>> /\ (u = <<>> \/ \E q : Replaces(q, Head(t)) /\ u = q \o Tail(t))

LEMMA ExecutedKinds ==
    ASSUME NEW s \in Executed
    PROVE  \/ s.kind \in {"call", "lazy"} /\ s.site \in Site
           \/ s.kind \in {"return", "skip"}
           \/ s.kind = "block" /\ s \in Stmts /\ s.body \in Blocks[Size]
           \/ /\ s.kind = "if" /\ s \in Stmts /\ s.op \in {"plain", "and", "or", "opaque", "owner"}
              /\ s.atoms \in Seq(SUBSET Site) /\ s.atoms # <<>>
              /\ s.body \in Blocks[Size] /\ s.orelse \in Blocks[Size]
<1>1. CASE s \in Stmts
  BY <1>1, StatementKinds DEF Stmts
<1>2. CASE s \in [kind : {"call"}, site : Site]
  BY <1>2
<1> QED BY <1>1, <1>2 DEF Executed

LEMMA SequencesOfTodo ==
    ASSUME NEW A
    PROVE  /\ <<>> \in TodoOn(A)
           /\ \A t \in TodoOn(A) : t \in Todo /\ t \in Seq(Executed) /\ Len(t) \in Nat
           /\ \A t \in TodoOn(A) : t # <<>> =>
                /\ Head(t) \in Executed /\ SitesOf(Head(t)) \subseteq A
                /\ Tail(t) \in TodoOn(A) /\ t = <<Head(t)>> \o Tail(t)
           /\ \A t, u \in TodoOn(A) : t \o u \in TodoOn(A)
<1> DEFINE E == Executed
           S(e) == SitesOf(e)
<1> HIDE DEF E, S
<1>0. TodoOn(A) = {t \in Seq(E) : \A i \in 1..Len(t) : S(t[i]) \subseteq A}
  BY DEF TodoOn, Todo, E, S
<1>1. <<>> \in TodoOn(A)
  BY <1>0
<1>2. ASSUME NEW t \in TodoOn(A), t # <<>>
      PROVE  /\ Head(t) \in E /\ S(Head(t)) \subseteq A
             /\ Tail(t) \in TodoOn(A) /\ t = <<Head(t)>> \o Tail(t)
  <2>1. t \in Seq(E) /\ Len(t) \in Nat /\ Len(t) # 0
    BY <1>0, <1>2
  <2>2. /\ Tail(t) \in Seq(E) /\ Len(Tail(t)) = Len(t) - 1
        /\ \A i \in 1..Len(Tail(t)) : Tail(t)[i] = t[i + 1]
    BY <1>2, <2>1, HeadTailProperties
  <2>3. Head(t) = t[1] /\ t[1] \in E
    BY <1>2, <2>1
  <2>4. S(Head(t)) \subseteq A
    BY <1>0, <2>1, <2>3
  <2>5. \A i \in 1..Len(Tail(t)) : S(Tail(t)[i]) \subseteq A
    BY <1>0, <2>1, <2>2
  <2>6. t = <<Head(t)>> \o Tail(t)
    BY <1>2, <2>1
  <2> QED BY <1>0, <2>2, <2>3, <2>4, <2>5, <2>6
<1>3. ASSUME NEW t \in TodoOn(A), NEW u \in TodoOn(A) PROVE t \o u \in TodoOn(A)
  <2>1. t \in Seq(E) /\ u \in Seq(E) /\ Len(t) \in Nat /\ Len(u) \in Nat
    BY <1>0
  <2>2. /\ t \o u \in Seq(E) /\ Len(t \o u) = Len(t) + Len(u)
        /\ \A i \in 1..(Len(t) + Len(u)) :
              (t \o u)[i] = IF i <= Len(t) THEN t[i] ELSE u[i - Len(t)]
    BY <2>1, ConcatProperties
  <2>3. ASSUME NEW i \in 1..Len(t \o u) PROVE S((t \o u)[i]) \subseteq A
    <3>1. CASE i <= Len(t)
      BY <1>0, <2>1, <2>2, <3>1
    <3>2. CASE ~ i <= Len(t)
      <4>1. i - Len(t) \in 1..Len(u) /\ (t \o u)[i] = u[i - Len(t)]
        BY <2>1, <2>2, <3>2
      <4> QED BY <1>0, <4>1
    <3> QED BY <3>1, <3>2
  <2> QED BY <1>0, <2>2, <2>3
<1>4. \A t \in TodoOn(A) : t \in Seq(E) /\ Len(t) \in Nat
  BY <1>0
<1> QED BY <1>1, <1>2, <1>3, <1>4 DEF E, S, Todo

LEMMA SingleTodo ==
    ASSUME NEW A, NEW s \in Executed, SitesOf(s) \subseteq A
    PROVE  <<s>> \in TodoOn(A) /\ Head(<<s>>) = s /\ Tail(<<s>>) = <<>>
BY DEF TodoOn, Todo

LEMMA TodoGrows ==
    ASSUME NEW A, NEW B, A \subseteq B
    PROVE  TodoOn(A) \subseteq TodoOn(B)
BY DEF TodoOn

\* A block, or the beginning of one, makes the calls of the block.
LEMMA BlockTodo ==
    ASSUME NEW b \in Blocks[Size]
    PROVE  /\ b \in TodoOn(SitesIn(b))
           /\ Len(b) \in Nat
           /\ \A n \in 0..Len(b) : SubSeq(b, 1, n) \in TodoOn(SitesIn(b))
<1> DEFINE E == Executed
<1>1. Stmts \subseteq E
  BY DEF Executed
<1>2. b \in Seq(E) /\ \A i \in DOMAIN b : SitesOf(b[i]) \subseteq SitesIn(b)
  BY <1>1, BlockStatements, SeqMonotonic
<1> HIDE DEF E
<1>3. Len(b) \in Nat /\ DOMAIN b = 1..Len(b)
  BY <1>2
<1>4. ASSUME NEW n \in 0..Len(b) PROVE SubSeq(b, 1, n) \in TodoOn(SitesIn(b))
  <2>1. \A i \in 1..n : b[i] \in E /\ SitesOf(b[i]) \subseteq SitesIn(b)
    BY <1>2, <1>3
  <2>2. /\ SubSeq(b, 1, n) \in Seq(E)
        /\ Len(SubSeq(b, 1, n)) = IF 1 <= n THEN n - 1 + 1 ELSE 0
        /\ \A i \in 1..(n - 1 + 1) : SubSeq(b, 1, n)[i] = b[1 + i - 1]
    BY <1>3, <2>1, SubSeqProperties
  <2>3. ASSUME NEW i \in 1..Len(SubSeq(b, 1, n)) PROVE SitesOf(SubSeq(b, 1, n)[i]) \subseteq SitesIn(b)
    <3>1. i \in 1..n /\ i \in 1..(n - 1 + 1) /\ 1 + i - 1 = i
      BY <1>3, <2>2
    <3> QED BY <2>1, <2>2, <3>1
  <2> QED BY <2>2, <2>3 DEF TodoOn, Todo, E
<1>5. b \in TodoOn(SitesIn(b))
  BY <1>2, <1>3 DEF TodoOn, Todo, E
<1> QED BY <1>3, <1>4, <1>5

\* The calls of a test, all of them on their lines, in order.
LEMMA CallsInOrder ==
    ASSUME NEW sites, sites \subseteq Site, NEW q \in Calls(sites)
    PROVE  /\ q \in TodoOn(sites)
           /\ \A i \in 1..Len(q) : q[i] \in [kind : {"call"}, site : sites]
           /\ \A c \in sites : \E i \in 1..Len(q) : q[i].site = c
           /\ \A i, j \in 1..Len(q) : i < j => q[i].site < q[j].site
<1>1. IsFiniteSet(sites) /\ Cardinality(sites) \in Nat
  <2>1. IsFiniteSet(Site)
    BY FS_Interval, SourceAssumption DEF Site
  <2> QED BY <2>1, FS_Subset, FS_CardinalityType
<1> DEFINE N == Cardinality(sites)
           C == [kind : {"call"}, site : sites]
<1>2. /\ q \in [1..N -> C]
      /\ {q[i].site : i \in DOMAIN q} = sites
      /\ \A i, j \in DOMAIN q : i < j => q[i].site < q[j].site
  BY DEF Calls
<1> HIDE DEF N
<1>3. N \in Nat
  BY <1>1 DEF N
<1>4. q \in Seq(C) /\ Len(q) = N /\ DOMAIN q = 1..Len(q)
  <2> HIDE DEF C
  <2> QED BY <1>2, <1>3
<1>5. C \subseteq Executed
  BY DEF Executed
<1>6. q \in Todo
  BY <1>4, <1>5, SeqMonotonic DEF Todo
<1>7. \A i \in 1..Len(q) : SitesOf(q[i]) \subseteq sites
  BY <1>2, <1>4, SitesByKind
<1>8. \A i \in 1..Len(q) : q[i] \in C
  BY <1>2, <1>4
<1> QED BY <1>2, <1>4, <1>6, <1>7, <1>8 DEF TodoOn

\* What a test may come to.
UpTo(s, i) == UNION {s.atoms[j] : j \in 1..i}

LEMMA OutcomesByOp ==
    ASSUME NEW s, NEW o \in Outcomes(s)
    PROVE  /\ s.op = "or" => \/ o.truth = TRUE /\ \E i \in 1..Len(s.atoms) : o.calls = UpTo(s, i)
                             \/ o.truth = FALSE /\ o.calls = UpTo(s, Len(s.atoms))
           /\ s.op = "and" => \/ o.truth = FALSE /\ \E i \in 1..Len(s.atoms) : o.calls = UpTo(s, i)
                              \/ o.truth = TRUE /\ o.calls = UpTo(s, Len(s.atoms))
           /\ s.op = "opaque" => o.calls \subseteq TestSites(s) /\ o.truth \in BOOLEAN
           /\ s.op \in {"plain", "owner"} => o.calls = TestSites(s) /\ o.truth \in BOOLEAN
<1> DEFINE Results(stops, goes) == {[calls |-> UpTo(s, i), truth |-> stops] : i \in 1..Len(s.atoms)}
                                     \cup {[calls |-> UpTo(s, Len(s.atoms)), truth |-> goes]}
<1>0. Len(s.atoms) = Len(s.atoms) /\ (~ TRUE) = FALSE /\ (~ FALSE) = TRUE
  OBVIOUS
<1>1. ASSUME s.op = "or" PROVE o \in Results(TRUE, FALSE)
  <2>1. (s.op = "or") = TRUE /\ s.op \in {"and", "or"}
    BY <1>1
  <2>2. Outcomes(s) = Results(s.op = "or", ~ (s.op = "or"))
    BY <2>1, Zenon DEF Outcomes, UpTo
  <2> QED BY <1>0, <2>1, <2>2, Zenon
<1>2. ASSUME s.op = "and" PROVE o \in Results(FALSE, TRUE)
  <2>1. (s.op = "or") = FALSE /\ s.op \in {"and", "or"}
    BY <1>2
  <2>2. Outcomes(s) = Results(s.op = "or", ~ (s.op = "or"))
    BY <2>1, Zenon DEF Outcomes, UpTo
  <2> QED BY <1>0, <2>1, <2>2, Zenon
<1>3. ASSUME NEW stops, NEW goes, o \in Results(stops, goes)
      PROVE  \/ o.truth = stops /\ \E i \in 1..Len(s.atoms) : o.calls = UpTo(s, i)
             \/ o.truth = goes /\ o.calls = UpTo(s, Len(s.atoms))
  <2>1. CASE o \in {[calls |-> UpTo(s, i), truth |-> stops] : i \in 1..Len(s.atoms)}
    <3>1. PICK i \in 1..Len(s.atoms) : o = [calls |-> UpTo(s, i), truth |-> stops]
      BY <2>1
    <3>2. o.truth = stops /\ o.calls = UpTo(s, i)
      BY <3>1
    <3> QED BY <3>2
  <2>2. CASE o = [calls |-> UpTo(s, Len(s.atoms)), truth |-> goes]
    BY <2>2, Zenon
  <2> QED BY <1>3, <2>1, <2>2, Zenon
<1>4. ASSUME s.op = "opaque" PROVE o.calls \subseteq TestSites(s) /\ o.truth \in BOOLEAN
  <2> DEFINE S == TestSites(s)
  <2>1. o \in [calls : SUBSET S, truth : BOOLEAN]
    BY <1>4, Zenon DEF Outcomes
  <2> HIDE DEF S
  <2>2. o.calls \in SUBSET S /\ o.truth \in BOOLEAN
    BY <2>1
  <2> QED BY <2>2 DEF S
<1>5. ASSUME s.op \in {"plain", "owner"} PROVE o.calls = TestSites(s) /\ o.truth \in BOOLEAN
  <2> DEFINE S == TestSites(s)
  <2>1. o \in [calls : {S}, truth : BOOLEAN]
    BY <1>5 DEF Outcomes
  <2> HIDE DEF S
  <2>2. o.calls \in {S} /\ o.truth \in BOOLEAN
    BY <2>1
  <2> QED BY <2>2 DEF S
<1> HIDE DEF Results
<1> QED BY <1>1, <1>2, <1>3, <1>4, <1>5, Zenon

LEMMA OutcomeCalls ==
    ASSUME NEW s \in Stmts, s.kind = "if", NEW o \in Outcomes(s)
    PROVE  o.calls \subseteq TestSites(s) /\ o.calls \subseteq Site /\ o.truth \in BOOLEAN
<1>1. s.atoms \in Seq(SUBSET Site) /\ s.op \in {"plain", "and", "or", "opaque", "owner"}
  BY StatementKinds DEF Stmts
<1>2. Len(s.atoms) \in Nat /\ DOMAIN s.atoms = 1..Len(s.atoms)
  BY <1>1
<1>3. \A i \in 1..Len(s.atoms) : UpTo(s, i) \subseteq TestSites(s)
  BY <1>2 DEF UpTo, TestSites
<1>4. UpTo(s, Len(s.atoms)) \subseteq TestSites(s)
  BY <1>2 DEF UpTo, TestSites
<1>5. CASE s.op \in {"and", "or"}
  <2>1. o.calls \subseteq TestSites(s) /\ o.truth \in BOOLEAN
    BY <1>3, <1>4, <1>5, OutcomesByOp
  <2> QED BY <2>1, SitesType
<1>6. CASE s.op = "opaque"
  BY <1>6, OutcomesByOp, SitesType
<1>7. CASE s.op \in {"plain", "owner"}
  BY <1>7, OutcomesByOp, SitesType
<1> QED BY <1>1, <1>5, <1>6, <1>7

\* The ways on from a statement make calls of the statement only.
LEMMA ReplacesTodo ==
    ASSUME NEW A, NEW s \in Executed, SitesOf(s) \subseteq A, NEW q, Replaces(q, s)
    PROVE  q \in TodoOn(A)
<1>0. s.kind \in {"lazy", "skip", "if", "block"} /\ <<>> \in TodoOn(A)
  BY SequencesOfTodo DEF Replaces
<1>1. CASE s.kind \in {"lazy", "skip"}
  BY <1>0, <1>1 DEF Replaces
<1>2. CASE s.kind = "if"
  <2>1. /\ s \in Stmts /\ s.body \in Blocks[Size] /\ s.orelse \in Blocks[Size]
    BY <1>2, ExecutedKinds
  <2>2. PICK o \in Outcomes(s) : \E calls \in Calls(o.calls) :
                                    q = calls \o (IF o.truth THEN s.body ELSE s.orelse)
    BY <1>2 DEF Replaces
  <2>3. PICK calls \in Calls(o.calls) : q = calls \o (IF o.truth THEN s.body ELSE s.orelse)
    BY <2>2
  <2>4. SitesOf(s) = TestSites(s) \cup SitesIn(s.body) \cup SitesIn(s.orelse)
    BY <1>2, SitesByKind
  <2>5. calls \in TodoOn(o.calls) /\ o.calls \subseteq A
    BY <1>2, <2>1, <2>4, OutcomeCalls, CallsInOrder
  <2>6. s.body \in TodoOn(SitesIn(s.body)) /\ s.orelse \in TodoOn(SitesIn(s.orelse))
    BY <2>1, BlockTodo
  <2>7. calls \in TodoOn(A) /\ s.body \in TodoOn(A) /\ s.orelse \in TodoOn(A)
    BY <2>4, <2>5, <2>6, TodoGrows
  <2> QED BY <2>3, <2>7, SequencesOfTodo
<1>3. CASE s.kind = "block"
  <2>1. s.body \in Blocks[Size] /\ SitesOf(s) = SitesIn(s.body)
    BY <1>3, ExecutedKinds, SitesByKind
  <2>2. PICK n \in 0..Len(s.body) : \/ q = SubSeq(s.body, 1, n) \o <<s>>
                                    \/ q = SubSeq(s.body, 1, n)
    BY <1>3 DEF Replaces
  <2>3. SubSeq(s.body, 1, n) \in TodoOn(A)
    BY <2>1, BlockTodo, TodoGrows
  <2>4. <<s>> \in TodoOn(A)
    BY SingleTodo
  <2> DEFINE part == SubSeq(s.body, 1, n)
  <2>5. part \o <<s>> \in TodoOn(A)
    <3> HIDE DEF part
    <3> QED BY <2>3, <2>4, SequencesOfTodo DEF part
  <2> QED BY <2>2, <2>3, <2>5
<1> QED BY <1>0, <1>1, <1>2, <1>3

LEMMA SilentTodo ==
    ASSUME NEW A, NEW t \in TodoOn(A), NEW u, Silent(t, u)
    PROVE  u \in TodoOn(A)
<1>1. CASE u = <<>>
  BY <1>1, SequencesOfTodo
<1>2. CASE u # <<>>
  <2>1. PICK q : Replaces(q, Head(t)) /\ u = q \o Tail(t)
    BY <1>2 DEF Silent
  <2>2. t # <<>> /\ Head(t) \in Executed /\ SitesOf(Head(t)) \subseteq A /\ Tail(t) \in TodoOn(A)
    BY SequencesOfTodo DEF Silent
  <2>3. q \in TodoOn(A)
    BY <2>1, <2>2, ReplacesTodo
  <2> QED BY <2>1, <2>2, <2>3, SequencesOfTodo
<1> QED BY <1>1, <1>2

\* A step of the interpreter makes the next call or is silent.
LEMMA ExecuteSteps ==
    ASSUME todo \in Todo, Execute
    PROVE  /\ todo # <<>> /\ UNCHANGED <<handler, report, serving>>
           /\ \/ Head(todo).kind \in {"call", "lazy"} /\ Perform(Head(todo).site)
              \/ Silent(todo, todo') /\ UNCHANGED <<ran, performed>>
<1>1. todo # <<>> /\ UNCHANGED <<handler, report, serving>>
  BY DEF Execute
<1>2. /\ Head(todo) \in Executed /\ Tail(todo) \in Todo /\ todo = <<Head(todo)>> \o Tail(todo)
      /\ <<Head(todo)>> \in Todo
  <2> DEFINE E == Executed
  <2> HIDE DEF E
  <2>1. todo \in Seq(E)
    BY DEF Todo, E
  <2> QED BY <1>1, <2>1 DEF Todo, E
<1>3. CASE Call
  BY <1>1, <1>3 DEF Call
<1>4. CASE Skip
  <2>1. Replaces(<<>>, Head(todo)) /\ todo' = Tail(todo) /\ UNCHANGED <<ran, performed>>
    BY <1>4 DEF Skip, Replaces
  <2>2. Tail(todo) = <<>> \o Tail(todo)
    BY <1>2, ConcatEmptySeq DEF Todo
  <2> QED BY <1>1, <2>1, <2>2 DEF Silent
<1>5. CASE Leave
  BY <1>1, <1>5 DEF Leave, Silent
<1>6. CASE Test
  <2>1. Head(todo).kind = "if" /\ UNCHANGED <<ran, performed>>
    BY <1>6 DEF Test
  <2>2. PICK o \in Outcomes(Head(todo)) : \E calls \in Calls(o.calls) :
           todo' = calls \o (IF o.truth THEN Head(todo).body ELSE Head(todo).orelse) \o Tail(todo)
    BY <1>6 DEF Test
  <2>3. PICK calls \in Calls(o.calls) :
           todo' = calls \o (IF o.truth THEN Head(todo).body ELSE Head(todo).orelse) \o Tail(todo)
    BY <2>2
  <2>4. Replaces(calls \o (IF o.truth THEN Head(todo).body ELSE Head(todo).orelse), Head(todo))
    BY <2>1 DEF Replaces
  <2> QED BY <1>1, <2>1, <2>3, <2>4 DEF Silent
<1>7. CASE Compound
  <2> DEFINE s == Head(todo)
             part(n) == SubSeq(s.body, 1, n)
  <2>1. s.kind = "block" /\ UNCHANGED <<ran, performed>>
    BY <1>7 DEF Compound
  <2>2. PICK n \in 0..Len(s.body) : todo' = part(n) \o todo \/ todo' = part(n) \o Tail(todo)
    BY <1>7 DEF Compound
  <2>3. part(n) \in Todo
    BY <1>2, <2>1, ExecutedKinds, BlockTodo DEF TodoOn
  <2>4. Replaces(part(n) \o <<s>>, s) /\ Replaces(part(n), s)
    BY <2>1 DEF Replaces
  <2> HIDE DEF s, part
  <2>5. part(n) \o todo = (part(n) \o <<s>>) \o Tail(todo)
    BY <1>2, <2>3, ConcatAssociative DEF Todo, s
  <2> QED BY <1>1, <2>1, <2>2, <2>4, <2>5 DEF Silent, s
<1> QED BY <1>1, <1>3, <1>4, <1>5, <1>6, <1>7 DEF Execute
-----------------------------------------------------------------------------
(* The builder builds graphs *)

NodeRecords == [kind : {"exit", "entry", "statement", "branch", "return"},
                sites : SUBSET Site, partial : BOOLEAN, opaque : BOOLEAN]
Labels == {"none", "true", "false"}
EdgeRecords == [from : Nat, to : Nat, label : Labels]

GoodGraphs == {g \in Graphs : IsGraph(g)}
GoodBuilders == {at \in Builders : at.graph \in GoodGraphs /\ at.last \in 0..Len(at.graph.nodes)}

\* What was built is not changed any more.
Grows(a, b) ==
    /\ Len(a.nodes) <= Len(b.nodes)
    /\ \A n \in 1..Len(a.nodes) : b.nodes[n] = a.nodes[n]
    /\ a.edges \subseteq b.edges

LEMMA GraphIs ==
    ASSUME NEW g \in GoodGraphs
    PROVE  /\ g.nodes \in Seq(NodeRecords) /\ Len(g.nodes) \in Nat /\ Len(g.nodes) >= 2
           /\ DOMAIN g.nodes = 1..Len(g.nodes)
           /\ \A n \in 1..Len(g.nodes) : g.nodes[n] \in NodeRecords
           /\ g.edges \subseteq EdgeRecords /\ IsFiniteSet(g.edges)
           /\ \A e \in g.edges : e.from \in 1..Len(g.nodes) /\ e.to \in 1..Len(g.nodes)
           /\ IsGraph(g)
<1>1. g.nodes \in Seq(NodeRecords) /\ g.edges \subseteq EdgeRecords /\ IsGraph(g)
  BY DEF GoodGraphs, Graphs, NodeRecords, EdgeRecords, Labels
<1>2. /\ Len(g.nodes) \in Nat /\ DOMAIN g.nodes = 1..Len(g.nodes) /\ 2 \in DOMAIN g.nodes
      /\ IsFiniteSet(g.edges) /\ \A e \in g.edges : {e.from, e.to} \subseteq DOMAIN g.nodes
  BY <1>1 DEF IsGraph, Entry
<1>3. \A n \in 1..Len(g.nodes) : g.nodes[n] \in NodeRecords
  BY <1>1, ElementOfSeq
<1> QED BY <1>1, <1>2, <1>3

LEMMA MakeGraph ==
    ASSUME NEW nodes \in Seq(NodeRecords), Len(nodes) >= 2,
           NEW edges \in SUBSET EdgeRecords, IsFiniteSet(edges),
           \A e \in edges : e.from \in 1..Len(nodes) /\ e.to \in 1..Len(nodes)
    PROVE  [nodes |-> nodes, edges |-> edges] \in GoodGraphs
<1> DEFINE g == [nodes |-> nodes, edges |-> edges]
<1>1. g \in Graphs
  BY DEF Graphs, NodeRecords, EdgeRecords, Labels
<1>2. Len(nodes) \in Nat /\ DOMAIN nodes = 1..Len(nodes)
  <2> HIDE DEF NodeRecords
  <2> QED BY LenProperties
<1>3. IsGraph(g)
  BY <1>2 DEF IsGraph, Entry
<1> QED BY <1>1, <1>3 DEF GoodGraphs

LEMMA BuilderIs ==
    ASSUME NEW g \in GoodGraphs, NEW last \in 0..Len(g.nodes), NEW label \in Labels
    PROVE  /\ At(g, last, label) \in GoodBuilders
           /\ At(g, last, label).graph = g
           /\ At(g, last, label).last = last
           /\ At(g, last, label).label = label
<1>1. last \in Nat /\ g \in Graphs
  BY GraphIs DEF GoodGraphs
<1> QED BY <1>1 DEF At, GoodBuilders, Builders, Labels

LEMMA BuilderParts ==
    ASSUME NEW at \in GoodBuilders
    PROVE  /\ at \in Builders /\ at.graph \in GoodGraphs /\ at.last \in 0..Len(at.graph.nodes)
           /\ at.label \in Labels /\ at = At(at.graph, at.last, at.label)
BY DEF GoodBuilders, Builders, Labels, At

LEMMA GrowsOn ==
    ASSUME NEW a \in GoodGraphs, NEW b \in GoodGraphs, NEW c \in GoodGraphs
    PROVE  /\ Grows(a, a)
           /\ Grows(a, b) /\ Grows(b, c) => Grows(a, c)
<1>1. Len(a.nodes) \in Nat /\ Len(b.nodes) \in Nat /\ Len(c.nodes) \in Nat
  BY GraphIs
<1> QED BY <1>1 DEF Grows

LEMMA NodeIs ==
    ASSUME NEW kind \in {"exit", "entry", "statement", "branch", "return"}, NEW sites \in SUBSET Site,
           NEW b \in BOOLEAN
    PROVE  /\ Node(kind, sites) \in NodeRecords
           /\ Node(kind, sites).kind = kind /\ Node(kind, sites).sites = sites
           /\ Node(kind, sites).partial = FALSE /\ Node(kind, sites).opaque = FALSE
           /\ [Node(kind, sites) EXCEPT !.opaque = b] \in NodeRecords
           /\ [Node(kind, sites) EXCEPT !.opaque = b].sites = sites
           /\ [Node(kind, sites) EXCEPT !.opaque = b].opaque = b
           /\ [Node(kind, sites) EXCEPT !.partial = b] \in NodeRecords
           /\ [Node(kind, sites) EXCEPT !.partial = b].sites = sites
           /\ [Node(kind, sites) EXCEPT !.partial = b].partial = b
BY DEF Node, NodeRecords

LEMMA AddAfterGood ==
    ASSUME NEW g \in GoodGraphs, NEW node \in NodeRecords, NEW arms, IsFiniteSet(arms),
           \A a \in arms : a.last \in 1..Len(g.nodes) /\ a.label \in Labels,
           NEW r, r = AddAfter(arms, g, node)
    PROVE  /\ r \in GoodBuilders /\ r.last = Len(g.nodes) + 1 /\ r.label = "none"
           /\ Grows(g, r.graph) /\ Len(r.graph.nodes) = Len(g.nodes) + 1
           /\ r.graph.nodes[Len(g.nodes) + 1] = node
           /\ \A a \in arms : Edge(a.last, Len(g.nodes) + 1, a.label) \in r.graph.edges
<1> DEFINE new == Len(g.nodes) + 1
           added == {Edge(a.last, new, a.label) : a \in arms}
           nodes == Append(g.nodes, node)
           edges == g.edges \cup added
<1>1. /\ g.nodes \in Seq(NodeRecords) /\ Len(g.nodes) \in Nat /\ Len(g.nodes) >= 2
      /\ g.edges \subseteq EdgeRecords /\ IsFiniteSet(g.edges)
      /\ \A e \in g.edges : e.from \in 1..Len(g.nodes) /\ e.to \in 1..Len(g.nodes)
  BY GraphIs
<1>2. r = At([nodes |-> nodes, edges |-> edges], new, "none")
  BY DEF AddAfter
<1>3. /\ nodes \in Seq(NodeRecords) /\ Len(nodes) = new
      /\ \A i \in 1..Len(g.nodes) : nodes[i] = g.nodes[i]
      /\ nodes[new] = node
  BY <1>1, AppendProperties
<1>4. \A e \in added : e \in EdgeRecords /\ e.from \in 1..new /\ e.to \in 1..new
  BY <1>1 DEF Edge, EdgeRecords
<1>5. IsFiniteSet(added)
  <2> DEFINE f == [a \in arms |-> Edge(a.last, new, a.label)]
  <2>1. f \in Surjection(arms, added)
    BY DEF Surjection
  <2> HIDE DEF f, added
  <2> QED BY <2>1, FS_Surjection
<1>6. \A a \in arms : Edge(a.last, new, a.label) \in edges
  OBVIOUS
<1> HIDE DEF nodes, added, new
<1>7. IsFiniteSet(edges)
  BY <1>1, <1>5, FS_Union
<1>8. new \in Nat /\ new >= 2 /\ Len(g.nodes) <= new /\ new \in 0..new
  BY <1>1 DEF new
<1>9. edges \in SUBSET EdgeRecords /\ \A e \in edges : e.from \in 1..new /\ e.to \in 1..new
  BY <1>1, <1>4, <1>8
<1>10. g.edges \subseteq edges
  OBVIOUS
<1> HIDE DEF edges
<1> DEFINE h == [nodes |-> nodes, edges |-> edges]
<1>11. h \in GoodGraphs /\ h.nodes = nodes /\ h.edges = edges
  BY <1>3, <1>7, <1>8, <1>9, MakeGraph
<1> HIDE DEF h
<1>12. r \in GoodBuilders /\ r.graph = h /\ r.last = new /\ r.label = "none"
  BY <1>2, <1>3, <1>8, <1>11, BuilderIs DEF h, Labels
<1>13. Grows(g, h)
  BY <1>1, <1>3, <1>8, <1>10, <1>11 DEF Grows
<1> QED BY <1>3, <1>6, <1>11, <1>12, <1>13 DEF new

LEMMA AddGood ==
    ASSUME NEW at \in GoodBuilders, at.last # NoNode, NEW node \in NodeRecords, NEW r, r = Add(at, node)
    PROVE  /\ r \in GoodBuilders /\ r.last = Len(at.graph.nodes) + 1 /\ r.label = "none"
           /\ Grows(at.graph, r.graph) /\ Len(r.graph.nodes) = Len(at.graph.nodes) + 1
           /\ r.graph.nodes[Len(at.graph.nodes) + 1] = node
           /\ Edge(at.last, Len(at.graph.nodes) + 1, at.label) \in r.graph.edges
<1>1. at.graph \in GoodGraphs /\ at.last \in 1..Len(at.graph.nodes) /\ at.label \in Labels
  BY BuilderParts, GraphIs DEF NoNode
<1>2. IsFiniteSet({at})
  BY FS_Singleton
<1>3. r = AddAfter({at}, at.graph, node)
  BY DEF Add
<1> QED BY <1>1, <1>2, <1>3, AddAfterGood

LEMMA FinishGood ==
    ASSUME NEW at \in GoodBuilders, at.last # NoNode, NEW r, r = Finish(at)
    PROVE  r \in GoodBuilders /\ r.last = NoNode /\ Grows(at.graph, r.graph)
<1> DEFINE g == at.graph
           edges == g.edges \cup {Edge(at.last, Exit, "none")}
           h == [nodes |-> g.nodes, edges |-> edges]
<1>1. /\ g \in GoodGraphs /\ at.last \in 1..Len(g.nodes)
      /\ g.nodes \in Seq(NodeRecords) /\ Len(g.nodes) \in Nat /\ Len(g.nodes) >= 2
      /\ g.edges \subseteq EdgeRecords /\ IsFiniteSet(g.edges)
      /\ \A e \in g.edges : e.from \in 1..Len(g.nodes) /\ e.to \in 1..Len(g.nodes)
  BY BuilderParts, GraphIs DEF NoNode
<1>2. g = [nodes |-> g.nodes, edges |-> g.edges]
  BY <1>1 DEF GoodGraphs, Graphs
<1>3. [g EXCEPT !.edges = @ \cup {Edge(at.last, Exit, "none")}] = h
  BY <1>2
<1>4. IsFiniteSet(edges)
  BY <1>1, FS_AddElement
<1>5. \A e \in edges : e \in EdgeRecords /\ e.from \in 1..Len(g.nodes) /\ e.to \in 1..Len(g.nodes)
  BY <1>1 DEF Edge, EdgeRecords, Labels, Exit
<1>6. edges \in SUBSET EdgeRecords
  BY <1>5
<1>7. r = At(h, NoNode, "none")
  BY <1>3 DEF Finish
<1> HIDE DEF edges
<1>8. h \in GoodGraphs /\ h.nodes = g.nodes /\ h.edges = edges
  BY <1>1, <1>4, <1>5, <1>6, MakeGraph
<1>9. Grows(g, h)
  BY <1>1, <1>8 DEF Grows, edges
<1>10. NoNode \in 0..Len(h.nodes) /\ "none" \in Labels
  BY <1>1, <1>8 DEF NoNode, Labels
<1> HIDE DEF h, g
<1>11. r \in GoodBuilders /\ r.last = NoNode /\ r.graph = h
  BY <1>7, <1>8, <1>10, BuilderIs
<1> QED BY <1>9, <1>11 DEF g

Joint == Node("statement", {})

LEMMA JoinGood ==
    ASSUME NEW g \in GoodGraphs, NEW ends, IsFiniteSet(ends),
           \A a \in ends : a.last \in 0..Len(g.nodes) /\ a.label \in Labels,
           NEW r, r = Join(g, ends)
    PROVE  /\ r \in GoodBuilders /\ Grows(g, r.graph)
           /\ r.last # NoNode => r.graph.nodes[r.last] = Joint
           /\ \A a \in ends : a.last # NoNode =>
                r.last # NoNode /\ Edge(a.last, r.last, a.label) \in r.graph.edges
<1> DEFINE arms == {a \in ends : a.last # NoNode}
<1>0. Len(g.nodes) \in Nat
  BY GraphIs
<1>1. CASE arms = {}
  <2>1. r = At(g, NoNode, "none")
    BY <1>1 DEF Join
  <2>2. NoNode \in 0..Len(g.nodes) /\ "none" \in Labels
    BY <1>0 DEF NoNode, Labels
  <2>3. r \in GoodBuilders /\ r.graph = g /\ r.last = NoNode
    BY <2>1, <2>2, BuilderIs
  <2>4. Grows(g, g)
    BY GrowsOn
  <2> QED BY <1>1, <2>3, <2>4
<1>2. CASE arms # {}
  <2>1. r = AddAfter(arms, g, Joint)
    BY <1>2 DEF Join, Joint
  <2>2. IsFiniteSet(arms)
    BY FS_Subset
  <2>3. \A a \in arms : a.last \in 1..Len(g.nodes) /\ a.label \in Labels
    BY <1>0 DEF NoNode
  <2>4. Joint \in NodeRecords
    BY NodeIs DEF Joint
  <2>5. /\ r \in GoodBuilders /\ r.last = Len(g.nodes) + 1 /\ Grows(g, r.graph)
        /\ r.graph.nodes[Len(g.nodes) + 1] = Joint
        /\ \A a \in arms : Edge(a.last, Len(g.nodes) + 1, a.label) \in r.graph.edges
    <3> HIDE DEF arms
    <3> QED BY <2>1, <2>2, <2>3, <2>4, AddAfterGood
  <2>6. r.last # NoNode
    BY <1>0, <2>5 DEF NoNode
  <2> QED BY <2>5, <2>6
<1> QED BY <1>1, <1>2

\* A builder of blocks adds to the graph.
LinksWell(link, inner) ==
    \A b \in inner : \A at \in GoodBuilders :
        link[b][at] \in GoodBuilders /\ Grows(at.graph, link[b][at].graph)

\* Where the arms of a test end.
BodyEnd(link, s, g, t) == link[s.body][At(g, t.last, t.label)]
OrelseEnd(link, s, g, t, f) == link[s.orelse][At(BodyEnd(link, s, g, t).graph, f.last, f.label)]

LEMMA ArmsGood ==
    ASSUME NEW inner, NEW link, LinksWell(link, inner),
           NEW s, s.body \in inner, s.orelse \in inner, NEW g \in GoodGraphs,
           NEW t, t.last \in 1..Len(g.nodes), t.label \in Labels,
           NEW f, f.last \in 1..Len(g.nodes), f.label \in Labels,
           NEW body, body = BodyEnd(link, s, g, t),
           NEW orelse, orelse = OrelseEnd(link, s, g, t, f),
           NEW r, r = LinkArms(link, s, g, t, f)
    PROVE  /\ At(g, t.last, t.label) \in GoodBuilders /\ At(body.graph, f.last, f.label) \in GoodBuilders
           /\ r \in GoodBuilders
           /\ Grows(g, body.graph) /\ Grows(body.graph, orelse.graph) /\ Grows(orelse.graph, r.graph)
           /\ Grows(g, r.graph) /\ Grows(body.graph, r.graph)
           /\ r.last # NoNode => r.graph.nodes[r.last] = Joint
           /\ \A a \in {body, orelse} : a.last # NoNode =>
                r.last # NoNode /\ Edge(a.last, r.last, a.label) \in r.graph.edges
<1>0. Len(g.nodes) \in Nat
  BY GraphIs
<1>1. At(g, t.last, t.label) \in GoodBuilders /\ At(g, t.last, t.label).graph = g
  BY <1>0, BuilderIs
<1>2. body \in GoodBuilders /\ Grows(g, body.graph)
  BY <1>1 DEF LinksWell, BodyEnd
<1>3. /\ body.graph \in GoodGraphs /\ Len(body.graph.nodes) \in Nat
      /\ body.last \in 0..Len(body.graph.nodes) /\ body.label \in Labels
  BY <1>2, BuilderParts, GraphIs
<1>4. f.last \in 0..Len(body.graph.nodes)
  BY <1>0, <1>2, <1>3 DEF Grows
<1>5. At(body.graph, f.last, f.label) \in GoodBuilders
        /\ At(body.graph, f.last, f.label).graph = body.graph
  BY <1>3, <1>4, BuilderIs
<1>6. orelse \in GoodBuilders /\ Grows(body.graph, orelse.graph)
  BY <1>5 DEF LinksWell, OrelseEnd
<1>7. /\ orelse.graph \in GoodGraphs /\ Len(orelse.graph.nodes) \in Nat
      /\ orelse.last \in 0..Len(orelse.graph.nodes) /\ orelse.label \in Labels
  BY <1>6, BuilderParts, GraphIs
<1>8. r = Join(orelse.graph, {body, orelse})
  BY DEF LinkArms, BodyEnd, OrelseEnd
<1>9. body.last \in 0..Len(orelse.graph.nodes)
  BY <1>3, <1>6, <1>7 DEF Grows
<1>10. IsFiniteSet({body, orelse})
  <2>1. IsFiniteSet({body} \cup {orelse}) /\ {body, orelse} = {body} \cup {orelse}
    BY FS_Singleton, FS_AddElement
  <2> QED BY <2>1
<1>11. \A a \in {body, orelse} : a.last \in 0..Len(orelse.graph.nodes) /\ a.label \in Labels
  BY <1>3, <1>7, <1>9
<1>12. /\ r \in GoodBuilders /\ Grows(orelse.graph, r.graph)
       /\ r.last # NoNode => r.graph.nodes[r.last] = Joint
       /\ \A a \in {body, orelse} : a.last # NoNode =>
            r.last # NoNode /\ Edge(a.last, r.last, a.label) \in r.graph.edges
  BY <1>7, <1>8, <1>10, <1>11, JoinGood
<1>13. r.graph \in GoodGraphs
  BY <1>12, BuilderParts
<1>14. Grows(body.graph, r.graph)
  BY <1>3, <1>6, <1>7, <1>12, <1>13, GrowsOn
<1>15. Grows(g, r.graph)
  BY <1>2, <1>3, <1>13, <1>14, GrowsOn
<1> QED BY <1>1, <1>2, <1>5, <1>6, <1>12, <1>14, <1>15

\* The branch of a test that is one node.
TestOf(at, s) ==
    Add(at, [Node("branch", TestSites(s)) EXCEPT !.opaque = IsOpaque(s)])

\* Its outcomes.
Outcome(test, label) == [test EXCEPT !.label = label]

LEMMA IfGood ==
    ASSUME NEW link, NEW s, TestSites(s) \subseteq Site, NEW at \in GoodBuilders, at.last # NoNode
    PROVE  LET test == TestOf(at, s)
               n    == Len(at.graph.nodes) + 1
           IN  /\ test \in GoodBuilders /\ test.graph \in GoodGraphs /\ Grows(at.graph, test.graph)
               /\ n = Len(test.graph.nodes) /\ n \in 1..Len(test.graph.nodes) /\ n # NoNode
               /\ test.graph.nodes[n].sites = TestSites(s)
               /\ test.graph.nodes[n].opaque = IsOpaque(s)
               /\ Edge(at.last, n, at.label) \in test.graph.edges
               /\ \A label : Outcome(test, label).last = n /\ Outcome(test, label).label = label
               /\ LinkIf(link, at, s)
                    = LinkArms(link, s, test.graph, Outcome(test, "true"), Outcome(test, "false"))
<1> DEFINE S == TestSites(s)
           b == IsOpaque(s)
           node == [Node("branch", S) EXCEPT !.opaque = b]
           test == TestOf(at, s)
           n == Len(at.graph.nodes) + 1
<1>1. S \in SUBSET Site /\ b \in BOOLEAN
  BY DEF IsOpaque
<1>2. test = Add(at, node)
  BY DEF TestOf
<1>3. LinkIf(link, at, s)
        = LinkArms(link, s, test.graph, Outcome(test, "true"), Outcome(test, "false"))
  BY DEF TestOf, LinkIf, Outcome
<1> HIDE DEF S, b, test
<1>4. node \in NodeRecords /\ node.sites = S /\ node.opaque = b
  BY <1>1 DEF Node, NodeRecords
<1> HIDE DEF node
<1>5. /\ test \in GoodBuilders /\ test.last = n /\ Grows(at.graph, test.graph)
      /\ Len(test.graph.nodes) = n /\ test.graph.nodes[n] = node
      /\ Edge(at.last, n, at.label) \in test.graph.edges
  BY <1>2, <1>4, AddGood
<1>6. test.graph \in GoodGraphs /\ Len(test.graph.nodes) \in Nat /\ Len(test.graph.nodes) >= 2
  BY <1>5, BuilderParts, GraphIs
<1>7. \A label : Outcome(test, label).last = n /\ Outcome(test, label).label = label
  BY <1>5 DEF GoodBuilders, Builders, Outcome
<1> HIDE DEF n
<1>8. n \in 1..Len(test.graph.nodes) /\ n # NoNode
  BY <1>5, <1>6 DEF NoNode
<1> QED BY <1>3, <1>4, <1>5, <1>6, <1>7, <1>8 DEF S, b, test, n

\* The graph of a short-circuit test, before its arms.
ShortTest(at, s) ==
    LET g       == at.graph
        n       == Len(s.atoms)
        operand(i) == Len(g.nodes) + i
        go      == IF s.op = "or" THEN "false" ELSE "true"
        leave   == IF s.op = "or" THEN "true" ELSE "false"
        out     == IF s.op = "or" THEN operand(n + 1) ELSE operand(n + 2)
        through == IF s.op = "or" THEN operand(n + 2) ELSE operand(n + 1)
    IN  [nodes |-> g.nodes
            \o [i \in 1..n |-> Node("branch", IF s.split THEN s.atoms[i] ELSE TestSites(s))]
            \o <<Joint, Joint>>,
         edges |-> g.edges
            \cup {Edge(at.last, operand(1), at.label), Edge(operand(n), through, go)}
            \cup {Edge(operand(i), operand(i + 1), go) : i \in 1..(n - 1)}
            \cup {Edge(operand(i), out, leave) : i \in 1..n}]

LEMMA ShortIsArms ==
    ASSUME NEW link, NEW at, NEW s
    PROVE  LET test == ShortTest(at, s)
               n == Len(at.graph.nodes) + Len(s.atoms)
           IN  LinkShortCircuitIf(link, at, s)
                 = LinkArms(link, s, test, At(test, Len(at.graph.nodes) + (Len(s.atoms) + 1), "none"),
                                           At(test, Len(at.graph.nodes) + (Len(s.atoms) + 2), "none"))
BY DEF LinkShortCircuitIf, ShortTest, Joint

LEMMA ShortTestGood ==
    ASSUME NEW at \in GoodBuilders, at.last # NoNode,
           NEW s, s.atoms \in Seq(SUBSET Site), s.atoms # <<>>, TestSites(s) \subseteq Site
    PROVE  LET n       == Len(s.atoms)
               L       == Len(at.graph.nodes)
               go      == IF s.op = "or" THEN "false" ELSE "true"
               leave   == IF s.op = "or" THEN "true" ELSE "false"
               out     == IF s.op = "or" THEN L + (n + 1) ELSE L + (n + 2)
               through == IF s.op = "or" THEN L + (n + 2) ELSE L + (n + 1)
               test    == ShortTest(at, s)
           IN  /\ L \in Nat /\ n \in Nat /\ n >= 1
               /\ test \in GoodGraphs /\ Len(test.nodes) = L + n + 2 /\ Grows(at.graph, test)
               /\ \A i \in 1..n : test.nodes[L + i]
                                    = Node("branch", IF s.split THEN s.atoms[i] ELSE TestSites(s))
               /\ test.nodes[L + (n + 1)] = Joint /\ test.nodes[L + (n + 2)] = Joint
               /\ Edge(at.last, L + 1, at.label) \in test.edges
               /\ Edge(L + n, through, go) \in test.edges
               /\ \A i \in 1..(n - 1) : Edge(L + i, L + (i + 1), go) \in test.edges
               /\ \A i \in 1..n : Edge(L + i, out, leave) \in test.edges
<1> DEFINE n       == Len(s.atoms)
           L       == Len(at.graph.nodes)
           go      == IF s.op = "or" THEN "false" ELSE "true"
           leave   == IF s.op = "or" THEN "true" ELSE "false"
           out     == IF s.op = "or" THEN L + (n + 1) ELSE L + (n + 2)
           through == IF s.op = "or" THEN L + (n + 2) ELSE L + (n + 1)
           test    == ShortTest(at, s)
<1> DEFINE g == at.graph
           e1 == {Edge(at.last, L + 1, at.label), Edge(L + n, through, go)}
           e2 == {Edge(L + i, L + (i + 1), go) : i \in 1..(n - 1)}
           e3 == {Edge(L + i, out, leave) : i \in 1..n}
           operands == [i \in 1..n |-> Node("branch", IF s.split THEN s.atoms[i] ELSE TestSites(s))]
           nodes == g.nodes \o operands \o <<Joint, Joint>>
           edges == g.edges \cup e1 \cup e2 \cup e3
           N == L + n + 2
<1> HIDE DEF n, L, go, leave, out, through, test
<1>1. /\ g \in GoodGraphs /\ at.last \in 1..L /\ at.label \in Labels
      /\ g.nodes \in Seq(NodeRecords) /\ L \in Nat /\ L >= 2
      /\ g.edges \subseteq EdgeRecords /\ IsFiniteSet(g.edges)
      /\ \A e \in g.edges : e.from \in 1..L /\ e.to \in 1..L
  BY BuilderParts, GraphIs DEF NoNode, L
<1>a. Len(g.nodes) = L
  BY DEF L
<1>2. n \in Nat /\ n >= 1 /\ \A i \in 1..n : s.atoms[i] \in SUBSET Site
  <2>1. n \in Nat /\ n # 0 /\ DOMAIN s.atoms = 1..n
    BY EmptySeq, LenProperties DEF n
  <2> QED BY <2>1, ElementOfSeq DEF n
<1>3. \A i \in 1..n : Node("branch", IF s.split THEN s.atoms[i] ELSE TestSites(s)) \in NodeRecords
  <2> SUFFICES ASSUME NEW i \in 1..n
               PROVE  Node("branch", IF s.split THEN s.atoms[i] ELSE TestSites(s)) \in NodeRecords
    OBVIOUS
  <2> DEFINE S == IF s.split THEN s.atoms[i] ELSE TestSites(s)
  <2>1. S \in SUBSET Site
    BY <1>2
  <2> HIDE DEF S
  <2>2. Node("branch", S) \in NodeRecords
    BY <2>1, NodeIs
  <2> QED BY <2>2 DEF S
<1>4. operands \in Seq(NodeRecords) /\ Len(operands) = n
        /\ \A i \in 1..n : operands[i] = Node("branch", IF s.split THEN s.atoms[i] ELSE TestSites(s))
  <2> DEFINE R == NodeRecords
             e(i) == Node("branch", IF s.split THEN s.atoms[i] ELSE TestSites(s))
  <2> HIDE DEF R, e
  <2>1. \A i \in 1..n : e(i) \in R
    BY <1>3 DEF R, e
  <2>2. [i \in 1..n |-> e(i)] \in Seq(R) /\ Len([i \in 1..n |-> e(i)]) = n
    BY <1>2, <2>1
  <2> QED BY <2>2 DEF R, e
<1>5. <<Joint, Joint>> \in Seq(NodeRecords) /\ Len(<<Joint, Joint>>) = 2
        /\ <<Joint, Joint>>[1] = Joint /\ <<Joint, Joint>>[2] = Joint
  <2> DEFINE R == NodeRecords
  <2>1. Joint \in R
    BY NodeIs DEF Joint
  <2> HIDE DEF R
  <2>2. <<Joint, Joint>> \in Seq(R)
    BY <2>1
  <2> QED BY <2>2 DEF R
<1> HIDE DEF operands
<1> DEFINE two == <<Joint, Joint>>
           first == g.nodes \o operands
<1>6. /\ first \in Seq(NodeRecords) /\ Len(first) = L + n
      /\ \A i \in 1..(L + n) : first[i] = IF i <= L THEN g.nodes[i] ELSE operands[i - L]
  <2> DEFINE G == g.nodes
  <2>1. G \in Seq(NodeRecords) /\ Len(G) = L
    BY <1>1, <1>a
  <2>2. first = G \o operands
    OBVIOUS
  <2> HIDE DEF G, first
  <2>3. /\ G \o operands \in Seq(NodeRecords) /\ Len(G \o operands) = Len(G) + Len(operands)
        /\ \A i \in 1..(Len(G) + Len(operands)) :
              (G \o operands)[i] = IF i <= Len(G) THEN G[i] ELSE operands[i - Len(G)]
    BY <1>4, <2>1, ConcatProperties
  <2>4. /\ first \in Seq(NodeRecords) /\ Len(first) = L + n
        /\ \A i \in 1..(L + n) : first[i] = IF i <= L THEN G[i] ELSE operands[i - L]
    BY <1>4, <2>1, <2>2, <2>3
  <2> QED BY <2>4 DEF G
<1> HIDE DEF two
<1>7. /\ nodes \in Seq(NodeRecords) /\ Len(nodes) = L + n + 2
      /\ \A i \in 1..(L + n + 2) : nodes[i] = IF i <= L + n THEN first[i] ELSE two[i - (L + n)]
  <2>1. nodes = first \o two
    BY DEF two
  <2>2. two \in Seq(NodeRecords) /\ Len(two) = 2
    BY <1>5 DEF two
  <2> HIDE DEF first, nodes
  <2>3. /\ first \o two \in Seq(NodeRecords) /\ Len(first \o two) = Len(first) + Len(two)
        /\ \A i \in 1..(Len(first) + Len(two)) :
              (first \o two)[i] = IF i <= Len(first) THEN first[i] ELSE two[i - Len(first)]
    BY <1>6, <2>2, ConcatProperties
  <2> QED BY <1>1, <1>2, <1>6, <2>1, <2>2, <2>3
<1> HIDE DEF nodes, first
<1>8. \A i \in 1..L : nodes[i] = g.nodes[i]
  BY <1>1, <1>2, <1>6, <1>7
<1>9. \A i \in 1..n : nodes[L + i] = Node("branch", IF s.split THEN s.atoms[i] ELSE TestSites(s))
  <2> SUFFICES ASSUME NEW i \in 1..n PROVE nodes[L + i] = operands[i]
    BY <1>4
  <2>1. L + i \in 1..(L + n) /\ L + i \in 1..(L + n + 2) /\ L + i <= L + n
        /\ ~ L + i <= L /\ (L + i) - L = i
    BY <1>1, <1>2
  <2> QED BY <1>6, <1>7, <2>1
<1>10. nodes[L + (n + 1)] = Joint /\ nodes[L + (n + 2)] = Joint
  <2>1. /\ L + (n + 1) \in 1..(L + n + 2) /\ ~ L + (n + 1) <= L + n /\ (L + (n + 1)) - (L + n) = 1
        /\ L + (n + 2) \in 1..(L + n + 2) /\ ~ L + (n + 2) <= L + n /\ (L + (n + 2)) - (L + n) = 2
    BY <1>1, <1>2
  <2>2. two[1] = Joint /\ two[2] = Joint
    BY <1>5 DEF two
  <2> QED BY <1>7, <2>1, <2>2
<1>11. test = [nodes |-> nodes, edges |-> edges]
  BY DEF ShortTest, nodes, first, two, operands, n, L, go, leave, out, through, test
<1>12. N \in Nat /\ N >= 2 /\ L <= N /\ out \in 1..N /\ through \in 1..N
         /\ out \in Nat /\ through \in Nat /\ go \in Labels /\ leave \in Labels
  BY <1>1, <1>2 DEF Labels, out, through, go, leave
<1>13. \A e \in e1 : e \in EdgeRecords /\ e.from \in 1..N /\ e.to \in 1..N
  BY <1>1, <1>2, <1>12 DEF Edge, EdgeRecords
<1>14. \A e \in e2 : e \in EdgeRecords /\ e.from \in 1..N /\ e.to \in 1..N
  BY <1>1, <1>2, <1>12 DEF Edge, EdgeRecords
<1>15. \A e \in e3 : e \in EdgeRecords /\ e.from \in 1..N /\ e.to \in 1..N
  BY <1>1, <1>2, <1>12 DEF Edge, EdgeRecords
<1>16. IsFiniteSet(e1)
  <2> DEFINE a == Edge(at.last, L + 1, at.label)
             b == Edge(L + n, through, go)
  <2> HIDE DEF a, b
  <2>1. IsFiniteSet({a} \cup {b}) /\ {a, b} = {a} \cup {b}
    BY FS_Singleton, FS_AddElement
  <2> QED BY <2>1 DEF a, b
<1>17. IsFiniteSet(e2)
  <2> DEFINE h == [i \in 1..(n - 1) |-> Edge(L + i, L + (i + 1), go)]
  <2>1. h \in Surjection(1..(n - 1), e2)
    BY DEF Surjection
  <2>2. IsFiniteSet(1..(n - 1))
    BY <1>2, FS_Interval
  <2> HIDE DEF h, e2
  <2> QED BY <2>1, <2>2, FS_Surjection
<1>18. IsFiniteSet(e3)
  <2> DEFINE h == [i \in 1..n |-> Edge(L + i, out, leave)]
  <2>1. h \in Surjection(1..n, e3)
    BY DEF Surjection
  <2>2. IsFiniteSet(1..n)
    BY <1>2, FS_Interval
  <2> HIDE DEF h, e3
  <2> QED BY <2>1, <2>2, FS_Surjection
<1>19. /\ Edge(at.last, L + 1, at.label) \in edges
       /\ Edge(L + n, through, go) \in edges
       /\ \A i \in 1..(n - 1) : Edge(L + i, L + (i + 1), go) \in edges
       /\ \A i \in 1..n : Edge(L + i, out, leave) \in edges
  OBVIOUS
<1> HIDE DEF e1, e2, e3
<1>20. IsFiniteSet(edges)
  BY <1>1, <1>16, <1>17, <1>18, FS_Union
<1>21. edges \in SUBSET EdgeRecords /\ \A e \in edges : e.from \in 1..N /\ e.to \in 1..N
  BY <1>1, <1>12, <1>13, <1>14, <1>15
<1>22. g.edges \subseteq edges
  OBVIOUS
<1> HIDE DEF edges
<1>23. test \in GoodGraphs /\ test.nodes = nodes /\ test.edges = edges
  <2>1. Len(nodes) = N
    BY <1>7
  <2> HIDE DEF N
  <2>2. nodes \in Seq(NodeRecords) /\ Len(nodes) >= 2
          /\ \A e \in edges : e.from \in 1..Len(nodes) /\ e.to \in 1..Len(nodes)
    BY <1>7, <1>12, <1>21, <2>1
  <2>3. [nodes |-> nodes, edges |-> edges] \in GoodGraphs
    BY <1>20, <1>21, <2>2, MakeGraph
  <2> QED BY <1>11, <2>3
<1>24. Grows(g, test)
  BY <1>a, <1>1, <1>7, <1>8, <1>12, <1>22, <1>23 DEF Grows
<1>25. Len(test.nodes) = L + n + 2 /\ test.nodes = nodes /\ test.edges = edges
  BY <1>7, <1>23
<1> QED BY <1>1, <1>2, <1>9, <1>10, <1>19, <1>23, <1>24, <1>25 DEF n, L, go, leave, out, through, test

LEMMA LinesByKind ==
    ASSUME NEW s
    PROVE  /\ s.kind \in {"call", "lazy"} => LinesOf(s) = {s.site}
           /\ s.kind \in {"return", "skip"} => LinesOf(s) = {s.line} \cap Site
<1>1. \A A, how : {l.line : l \in On(A, how)} = A
  <2> SUFFICES ASSUME NEW A, NEW how PROVE {l.line : l \in On(A, how)} = A
    OBVIOUS
  <2> DEFINE found == {l.line : l \in On(A, how)}
  <2>1. \A l \in On(A, how) : l.line \in A
    BY DEF On
  <2>2. ASSUME NEW a \in A PROVE a \in found
    <3>1. [line |-> a, how |-> how] \in On(A, how)
      BY DEF On
    <3>2. [line |-> a, how |-> how].line = a
      OBVIOUS
    <3> QED BY <3>1, <3>2
  <2>3. found \subseteq A
    BY <2>1
  <2> HIDE DEF found
  <2>4. found = A
    BY <2>2, <2>3
  <2> QED BY <2>4 DEF found
<1>2. LinesOf(s) = {l.line : l \in SpanIs(s)}
  BY DEF LinesOf, SpanIs
<1> QED BY <1>1, <1>2, SpanByKind

\* The node of a statement that is no test.
StatementNode(s) == [Node("statement", LinesOf(s)) EXCEPT !.partial = IsPartial(s)]

LEMMA StatementNodeIs ==
    ASSUME NEW s, LinesOf(s) \subseteq Site
    PROVE  /\ StatementNode(s) \in NodeRecords
           /\ StatementNode(s).sites = LinesOf(s) /\ StatementNode(s).opaque = FALSE
           /\ StatementNode(s).partial = IsPartial(s)
<1> DEFINE S == LinesOf(s)
           b == IsPartial(s)
<1>1. S \in SUBSET Site /\ b \in BOOLEAN
  BY DEF IsPartial
<1>2. StatementNode(s) = [Node("statement", S) EXCEPT !.partial = b]
  BY DEF StatementNode
<1> HIDE DEF S, b
<1>3. /\ [Node("statement", S) EXCEPT !.partial = b] \in NodeRecords
      /\ [Node("statement", S) EXCEPT !.partial = b].sites = S
      /\ [Node("statement", S) EXCEPT !.partial = b].opaque = FALSE
      /\ [Node("statement", S) EXCEPT !.partial = b].partial = b
  BY <1>1 DEF Node, NodeRecords
<1> QED BY <1>2, <1>3 DEF S, b

LEMMA LinkByKind ==
    ASSUME NEW link, NEW at, NEW s
    PROVE  /\ s.kind = "if" /\ s.op \in {"and", "or"} =>
                LinkStatement(link, at, s) = LinkShortCircuitIf(link, at, s)
           /\ s.kind = "if" /\ s.op \notin {"and", "or"} =>
                LinkStatement(link, at, s) = LinkIf(link, at, s)
           /\ s.kind = "return" => LinkStatement(link, at, s) = Finish(Add(at, Node("return", LinesOf(s))))
           /\ s.kind \in {"call", "lazy", "skip", "block"} =>
                LinkStatement(link, at, s) = Add(at, StatementNode(s))
BY DEF LinkStatement, StatementNode

LEMMA StatementGood ==
    ASSUME NEW inner, inner \subseteq Blocks[Size], NEW link, LinksWell(link, inner),
           NEW s \in Statements(inner), NEW at \in GoodBuilders, at.last # NoNode,
           NEW r, r = LinkStatement(link, at, s)
    PROVE  r \in GoodBuilders /\ Grows(at.graph, r.graph)
<1>0. s \in Stmts
  BY StatementsGrow DEF Stmts
<1>1. at.graph \in GoodGraphs
  BY BuilderParts
<1>2. CASE s.kind \in {"call", "lazy", "skip", "block"}
  <2>1. StatementNode(s) \in NodeRecords
    BY <1>0, SitesType, StatementNodeIs
  <2> QED BY <1>2, <2>1, LinkByKind, AddGood
<1>3. CASE s.kind = "return"
  <2> DEFINE a == Add(at, Node("return", LinesOf(s)))
  <2>1. Node("return", LinesOf(s)) \in NodeRecords
    BY <1>0, SitesType, NodeIs
  <2>2. a \in GoodBuilders /\ Grows(at.graph, a.graph) /\ a.last = Len(at.graph.nodes) + 1
    BY <2>1, AddGood
  <2>3. a.last # NoNode
    BY <1>1, <2>2, GraphIs DEF NoNode
  <2>4. r = Finish(a)
    BY <1>3, LinkByKind
  <2> HIDE DEF a
  <2>5. r \in GoodBuilders /\ Grows(a.graph, r.graph)
    BY <2>2, <2>3, <2>4, FinishGood
  <2>6. a.graph \in GoodGraphs /\ r.graph \in GoodGraphs
    BY <2>2, <2>5, BuilderParts
  <2> QED BY <1>1, <2>2, <2>5, <2>6, GrowsOn
<1>4. CASE s.kind = "if" /\ s.op \notin {"and", "or"}
  <2> DEFINE test == TestOf(at, s)
             t == Outcome(test, "true")
             f == Outcome(test, "false")
  <2>1. s.body \in inner /\ s.orelse \in inner /\ TestSites(s) \subseteq Site
    BY <1>0, <1>4, StatementKinds, SitesType
  <2>2. /\ test.graph \in GoodGraphs /\ Grows(at.graph, test.graph)
        /\ t.last \in 1..Len(test.graph.nodes) /\ t.label = "true"
        /\ f.last \in 1..Len(test.graph.nodes) /\ f.label = "false"
        /\ LinkIf(link, at, s) = LinkArms(link, s, test.graph, t, f)
    BY <2>1, IfGood
  <2> HIDE DEF test, t, f
  <2>3. r = LinkArms(link, s, test.graph, t, f)
    BY <1>4, <2>2, LinkByKind
  <2>4. t.label \in Labels /\ f.label \in Labels
    BY <2>2 DEF Labels
  <2>5. r \in GoodBuilders /\ Grows(test.graph, r.graph)
    BY <2>1, <2>2, <2>3, <2>4, ArmsGood
  <2>6. r.graph \in GoodGraphs
    BY <2>5, BuilderParts
  <2> QED BY <1>1, <2>2, <2>5, <2>6, GrowsOn
<1>5. CASE s.kind = "if" /\ s.op \in {"and", "or"}
  <2> DEFINE test == ShortTest(at, s)
             N == Len(at.graph.nodes)
             n == Len(s.atoms)
             t == At(test, N + (n + 1), "none")
             f == At(test, N + (n + 2), "none")
  <2>1. /\ s.body \in inner /\ s.orelse \in inner /\ TestSites(s) \subseteq Site
        /\ s.atoms \in Seq(SUBSET Site) /\ s.atoms # <<>>
    BY <1>0, <1>5, StatementKinds, SitesType
  <2>2. /\ N \in Nat /\ n \in Nat
        /\ test \in GoodGraphs /\ Len(test.nodes) = N + n + 2 /\ Grows(at.graph, test)
    BY <2>1, ShortTestGood
  <2>3. r = LinkArms(link, s, test, t, f)
    BY <1>5, LinkByKind, ShortIsArms
  <2>4. /\ t.last = N + (n + 1) /\ f.last = N + (n + 2) /\ t.label = "none" /\ f.label = "none"
    BY DEF At
  <2> HIDE DEF t, f, test, N, n
  <2>5. t.last \in 1..Len(test.nodes) /\ f.last \in 1..Len(test.nodes)
          /\ t.label \in Labels /\ f.label \in Labels
    BY <2>2, <2>4 DEF Labels
  <2>6. r \in GoodBuilders /\ Grows(test, r.graph)
    BY <2>1, <2>2, <2>3, <2>5, ArmsGood
  <2>7. r.graph \in GoodGraphs
    BY <2>6, BuilderParts
  <2> QED BY <1>1, <2>2, <2>6, <2>7, GrowsOn
<1> QED BY <1>2, <1>3, <1>4, <1>5, StatementKinds

\* The builder of blocks of any size that fits.
LEMMA LinkIs ==
    ASSUME NEW k \in Nat, NEW b \in Blocks[k], NEW at \in GoodBuilders, NEW r, r = LinkBlocks[k][b][at]
    PROVE  /\ b = <<>> \/ at.last = NoNode => r = at
           /\ b # <<>> /\ at.last # NoNode =>
                r = LinkBlocks[k - 1][Tail(b)][LinkStatement(LinkBlocks[k - 1], at, Head(b))]
<1>1. LinkBlocks[k] = NextLinks(k, LinkBlocks[k - 1]) /\ at \in Builders
  BY LinksEquation, BuilderParts
<1> QED BY <1>1 DEF NextLinks

LEMMA LinksGood ==
    ASSUME NEW k \in 0..Size
    PROVE  LinksWell(LinkBlocks[k], Blocks[k])
<1> DEFINE T == {n \in Nat : n <= Size => LinksWell(LinkBlocks[n], Blocks[n])}
<1>1. 0 \in T
  <2> SUFFICES ASSUME NEW b \in Blocks[0], NEW at \in GoodBuilders
               PROVE  LinkBlocks[0][b][at] = at /\ Grows(at.graph, at.graph)
    BY DEF LinksWell
  <2>1. b = <<>>
    BY BlocksEquation
  <2> QED BY <2>1, LinkIs, BuilderParts, GrowsOn
<1>2. ASSUME NEW n \in Nat, n \in T, n + 1 <= Size PROVE LinksWell(LinkBlocks[n + 1], Blocks[n + 1])
  <2> SUFFICES ASSUME NEW b \in Blocks[n + 1], NEW at \in GoodBuilders
               PROVE  /\ LinkBlocks[n + 1][b][at] \in GoodBuilders
                      /\ Grows(at.graph, LinkBlocks[n + 1][b][at].graph)
    BY DEF LinksWell
  <2>0. n + 1 \in Nat /\ (n + 1) - 1 = n /\ n \in 0..Size /\ n <= Size
    BY <1>2, SourceAssumption
  <2> DEFINE r == LinkBlocks[n + 1][b][at]
  <2>1. CASE b = <<>> \/ at.last = NoNode
    <3>1. r = at
      BY <2>0, <2>1, LinkIs
    <3> QED BY <3>1, BuilderParts, GrowsOn
  <2>2. CASE b # <<>> /\ at.last # NoNode
    <3> DEFINE a == LinkStatement(LinkBlocks[n], at, Head(b))
    <3>1. Head(b) \in Statements(Blocks[n]) /\ Tail(b) \in Blocks[n]
      BY <2>0, <2>2, BlockParts
    <3>2. r = LinkBlocks[n][Tail(b)][a]
      BY <2>0, <2>2, LinkIs
    <3>3. Blocks[n] \subseteq Blocks[Size] /\ LinksWell(LinkBlocks[n], Blocks[n])
      BY <1>2, <2>0, WithinSize
    <3>4. a \in GoodBuilders /\ Grows(at.graph, a.graph)
      BY <2>2, <3>1, <3>3, StatementGood
    <3> HIDE DEF a
    <3>5. r \in GoodBuilders /\ Grows(a.graph, r.graph)
      BY <3>1, <3>2, <3>3, <3>4 DEF LinksWell
    <3> HIDE DEF r
    <3>6. at.graph \in GoodGraphs /\ a.graph \in GoodGraphs /\ r.graph \in GoodGraphs
      BY <3>4, <3>5, BuilderParts
    <3>7. r \in GoodBuilders /\ Grows(at.graph, r.graph)
      BY <3>4, <3>5, <3>6, GrowsOn
    <3> QED BY <3>7 DEF r
  <2> QED BY <2>1, <2>2
<1>3. \A n \in Nat : n \in T => n + 1 \in T
  BY <1>2
<1> HIDE DEF T
<1>4. k \in T
  BY <1>1, <1>3, NaturalInduction, SourceAssumption
<1> QED BY <1>4 DEF T

\* The graph of a handler, and what it grows from.
Start == At([nodes |-> <<Node("exit", {}), Node("entry", {})>>, edges |-> {}], Entry, "none")

LEMMA StartGood ==
    Start \in GoodBuilders /\ Start.last = Entry
<1> DEFINE nodes == <<Node("exit", {}), Node("entry", {})>>
           g == [nodes |-> nodes, edges |-> {}]
           R == NodeRecords
<1>1. Node("exit", {}) \in R /\ Node("entry", {}) \in R
  BY NodeIs
<1> HIDE DEF R
<1>2. nodes \in Seq(R) /\ Len(nodes) = 2
  BY <1>1
<1>3. IsFiniteSet({})
  BY FS_EmptySet
<1> HIDE DEF nodes
<1>4. g \in GoodGraphs /\ g.nodes = nodes
  <2> DEFINE none == {}
  <2>1. none \in SUBSET EdgeRecords /\ IsFiniteSet(none)
          /\ \A e \in none : e.from \in 1..Len(nodes) /\ e.to \in 1..Len(nodes)
    BY <1>3
  <2>2. nodes \in Seq(NodeRecords) /\ Len(nodes) >= 2
    BY <1>2 DEF R
  <2> HIDE DEF none
  <2>3. [nodes |-> nodes, edges |-> none] \in GoodGraphs
    BY <2>1, <2>2, MakeGraph
  <2> QED BY <2>3 DEF none
<1>5. Entry \in 0..Len(nodes) /\ "none" \in Labels
  BY <1>2 DEF Entry, Labels
<1>6. Start = At(g, Entry, "none")
  BY DEF Start, nodes
<1> HIDE DEF g
<1> QED BY <1>4, <1>5, <1>6, BuilderIs

LEMMA ControlFlowGood ==
    ASSUME NEW body \in Blocks[Size], NEW all, all = LinkBlocks[Size][body][Start]
    PROVE  /\ all \in GoodBuilders
           /\ BuildControlFlow(body) \in GoodGraphs
           /\ Grows(all.graph, BuildControlFlow(body))
<1>1. all \in GoodBuilders /\ all.graph \in GoodGraphs
  BY StartGood, LinksGood, BuilderParts, SourceAssumption DEF LinksWell
<1>2. BuildControlFlow(body) = IF all.last = NoNode THEN all.graph ELSE Finish(all).graph
  BY DEF BuildControlFlow, Start
<1>3. CASE all.last = NoNode
  BY <1>1, <1>2, <1>3, GrowsOn
<1>4. CASE all.last # NoNode
  BY <1>1, <1>2, <1>4, FinishGood, BuilderParts
<1> QED BY <1>1, <1>3, <1>4
-----------------------------------------------------------------------------
(* Types *)

GuardIds(h) == h.helpers \cup h.owners \cup {Dep, RouteDep}
EntryIds(h) == {d.id : d \in EntryGuards(h)}

LEMMA HandlerIs ==
    ASSUME NEW h \in Handlers
    PROVE  /\ h.body \in Blocks[Size] /\ h.static \in BOOLEAN
           /\ h.dep \in {"none", "pass", "fail", "unknown"}
           /\ h.route \in {"none", "proved", "unproved", "other"}
           /\ SitesIn(h.body) \subseteq h.helpers \cup h.owners \cup h.sinks
           /\ h.helpers \subseteq Site /\ h.owners \subseteq Site /\ h.sinks \subseteq Site
           /\ h.sinks \cap (h.helpers \cup h.owners) = {}
           /\ \A c \in h.owners : \E i \in DOMAIN h.body :
                 /\ h.body[i].kind = "if" /\ h.body[i].op = "owner" /\ c \in TestSites(h.body[i])
                 /\ \A j \in 1..(i - 1) : \A r \in SitesOf(h.body[j]) : r < c
BY HandlersAssumption DEF IsHandler

\* The last of the sinks.
LEMMA LastSite ==
    ASSUME NEW S, S \subseteq Site, S # {}
    PROVE  (CHOOSE s \in S : \A r \in S : r <= s) \in S
<1> DEFINE T == {Lines - s : s \in S}
<1>0. S \subseteq Int /\ Lines \in Int /\ \A s \in S : s <= Lines
  BY SourceAssumption DEF Site
<1>1. T \in SUBSET Nat /\ T # {}
  <2>1. \A s \in S : Lines - s \in Nat
    BY <1>0
  <2> QED BY <2>1
<1>2. PICK m \in T : \A n \in T : m <= n
  <2> HIDE DEF T
  <2> QED BY <1>1, LeastNatural
<1>3. PICK s \in S : m = Lines - s
  BY <1>2
<1>4. \A r \in S : r <= s
  <2> SUFFICES ASSUME NEW r \in S PROVE r <= s
    OBVIOUS
  <2>1. m <= Lines - r
    BY <1>2
  <2> QED BY <1>0, <1>3, <2>1
<1>5. \E q \in S : \A r \in S : r <= q
  BY <1>4
<1> QED BY <1>5, Zenon

LEMMA RecordType ==
    ASSUME NEW h \in Handlers, NEW x \in h.sinks
    PROVE  RecordOf(h, x) \in h.sinks
<1>1. (CHOOSE s \in h.sinks : \A r \in h.sinks : r <= s) \in h.sinks
  BY HandlerIs, LastSite
<1> QED BY <1>1 DEF RecordOf

\* What a guard of a sink is.
IsHelperGuard(h, x, d) ==
    /\ d.id \in h.helpers /\ d.id < x /\ d.effective = FALSE /\ d.exact = TRUE
    /\ d.binding = "none"
IsOwnerGuard(h, x, d) ==
    /\ d.id \in h.owners /\ d.id < x /\ d.effective = TRUE /\ d.exact = TRUE
    /\ d.binding = "none"
IsDepGuard(h, d) ==
    /\ d.id = Dep /\ h.dep # "none" /\ d.id \in EntryIds(h) /\ d.effective = TRUE
    /\ d.exact = FALSE /\ d.binding = h.dep
IsRouteGuard(h, d) ==
    /\ d.id = RouteDep /\ h.route # "none" /\ d.id \in EntryIds(h)
    /\ d.effective = (h.route # "unproved") /\ d.exact = (h.route # "other")
    /\ d.binding = "none"

\* None comes with dominance evidence.
LEMMA GuardIs ==
    ASSUME NEW h \in Handlers, NEW x, NEW d \in Guards(h, x)
    PROVE  /\ d.evidence = NoDominanceEvidence
           /\ IsHelperGuard(h, x, d) \/ IsOwnerGuard(h, x, d) \/ IsDepGuard(h, d) \/ IsRouteGuard(h, d)
<1>1. ASSUME d \in HelperGuards(h, x) PROVE IsHelperGuard(h, x, d) /\ d.evidence = NoDominanceEvidence
  <2>1. PICK c \in {e \in h.helpers : e < x} : d = Guard(c, FALSE, TRUE, "none", NoDominanceEvidence)
    BY <1>1 DEF HelperGuards
  <2> QED BY <2>1 DEF Guard, IsHelperGuard
<1>2. ASSUME d \in OwnerGuards(h, x) PROVE IsOwnerGuard(h, x, d) /\ d.evidence = NoDominanceEvidence
  <2>1. PICK c \in {e \in h.owners : e < x} : d = Guard(c, TRUE, TRUE, "none", NoDominanceEvidence)
    BY <1>2 DEF OwnerGuards
  <2> QED BY <2>1 DEF Guard, IsOwnerGuard
<1>3. ASSUME d \in EntryGuards(h)
      PROVE  (IsDepGuard(h, d) \/ IsRouteGuard(h, d)) /\ d.evidence = NoDominanceEvidence
  <2>0. d.id \in EntryIds(h)
    BY <1>3 DEF EntryIds
  <2>1. CASE \E b \in {h.dep} \ {"none"} : d = Guard(Dep, TRUE, FALSE, b, NoDominanceEvidence)
    <3>1. h.dep # "none" /\ d = Guard(Dep, TRUE, FALSE, h.dep, NoDominanceEvidence)
      BY <2>1
    <3>2. /\ d.id = Dep /\ d.effective = TRUE /\ d.exact = FALSE
          /\ d.binding = h.dep /\ d.evidence = NoDominanceEvidence
      BY <3>1 DEF Guard
    <3> QED BY <2>0, <3>1, <3>2, Zenon DEF IsDepGuard
  <2>2. CASE \E r \in {h.route} \ {"none"} :
               d = Guard(RouteDep, r # "unproved", r # "other", "none", NoDominanceEvidence)
    <3>1. d = Guard(RouteDep, h.route # "unproved", h.route # "other", "none", NoDominanceEvidence)
            /\ h.route # "none"
      BY <2>2
    <3>2. /\ d.id = RouteDep /\ d.effective = (h.route # "unproved") /\ d.exact = (h.route # "other")
          /\ d.binding = "none" /\ d.evidence = NoDominanceEvidence
      BY <3>1, Zenon DEF Guard
    <3> QED BY <2>0, <3>1, <3>2, Zenon DEF IsRouteGuard
  <2> QED BY <1>3, <2>1, <2>2 DEF EntryGuards
<1> QED BY <1>1, <1>2, <1>3, Zenon DEF Guards

LEMMA GuardIdType ==
    ASSUME NEW h \in Handlers, NEW x, NEW d \in Guards(h, x)
    PROVE  d.id \in GuardIds(h)
BY GuardIs, Zenon DEF GuardIds, IsHelperGuard, IsOwnerGuard, IsDepGuard, IsRouteGuard

\* What is reported of a sink.
Verdicts(h) == [status : Status, dominating : SUBSET h.helpers,
                cuts : SUBSET SUBSET (h.helpers \cup h.owners)]

LEMMA StatusType ==
    ASSUME NEW guards, NEW cut, NEW complete
    PROVE  OverallStatus(guards, cut, complete) \in Status
<1> DEFINE checks == {GuardPresence(guards, cut, complete),
                      GuardEffectiveness(Dominating(guards, cut)),
                      ResourceBinding(Dominating(guards, cut))}
<1>1. CASE "violated" \in checks
  BY <1>1, Zenon DEF OverallStatus, Status
<1>2. CASE "violated" \notin checks /\ (~ complete \/ "unknown" \in checks)
  BY <1>2, Zenon DEF OverallStatus, Status
<1>3. CASE "violated" \notin checks /\ ~ (~ complete \/ "unknown" \in checks)
  BY <1>3, Zenon DEF OverallStatus, Status
<1> QED BY <1>1, <1>2, <1>3

LEMMA ReportIs ==
    ASSUME NEW h \in Handlers
    PROVE  /\ Report(h) \in [h.sinks -> Verdicts(h)]
           /\ \A x \in h.sinks : Report(h)[x] = ReportOn(h, BuildControlFlow(h.body), x)
<1> DEFINE g == BuildControlFlow(h.body)
<1>1. Report(h) = [s \in h.sinks |-> ReportOn(h, g, s)]
  BY DEF Report
<1> HIDE DEF g
<1>2. ASSUME NEW x PROVE ReportOn(h, g, x) \in Verdicts(h)
  <2> DEFINE status == Evaluate(h, g, RecordOf(h, x))
             dominating == DominatingCalls(h, g, x)
             cuts == CoveringCuts(h, g, x)
  <2>1. status \in Status
    BY StatusType DEF Evaluate
  <2>2. dominating \subseteq h.helpers
    BY DEF DominatingCalls
  <2>3. cuts \subseteq SUBSET (h.helpers \cup h.owners)
    BY DEF CoveringCuts, CutCandidates
  <2>4. ReportOn(h, g, x) = [status |-> status, dominating |-> dominating, cuts |-> cuts]
    BY DEF ReportOn
  <2> HIDE DEF status, dominating, cuts
  <2> QED BY <2>1, <2>2, <2>3, <2>4 DEF Verdicts
<1> QED BY <1>1, <1>2 DEF g
-----------------------------------------------------------------------------
(* Types of the state *)

TypeInv ==
    /\ handler \in Handlers
    /\ report \in {<<>>, Report(handler)}
    /\ serving \in BOOLEAN
    /\ todo \in TodoOn(SitesIn(handler.body))
    /\ ran \subseteq GuardIds(handler)
    /\ performed \subseteq [sink : handler.sinks, after : SUBSET GuardIds(handler)]

\* A call that is made is one of the handler.
LEMMA NextCallIs ==
    ASSUME TypeInv, todo # <<>>, Head(todo).kind \in {"call", "lazy"}
    PROVE  /\ Tail(todo) \in TodoOn(SitesIn(handler.body))
           /\ Head(todo).site \in SitesIn(handler.body)
           /\ Head(todo).site \in handler.sinks \/ Head(todo).site \in GuardIds(handler)
<1>1. SitesOf(Head(todo)) \subseteq SitesIn(handler.body) /\ Tail(todo) \in TodoOn(SitesIn(handler.body))
  BY SequencesOfTodo DEF TypeInv
<1>2. Head(todo).site \in SitesIn(handler.body)
  BY <1>1, SitesByKind
<1> QED BY <1>1, <1>2, HandlerIs DEF TypeInv, GuardIds

LEMMA TypeInvInit == Init => TypeInv
<1>1. <<>> \in TodoOn(SitesIn(handler.body))
  BY SequencesOfTodo
<1> QED BY <1>1 DEF Init, TypeInv

LEMMA TypeInvNext == TypeInv /\ [Next]_vars => TypeInv'
<1> SUFFICES ASSUME TypeInv, [Next]_vars PROVE TypeInv'
  OBVIOUS
<1>1. CASE Analyse
  BY <1>1 DEF Analyse, TypeInv
<1>2. CASE Serve
  <2>1. handler.body \in TodoOn(SitesIn(handler.body))
    BY HandlerIs, BlockTodo DEF TypeInv
  <2>2. EntryIds(handler) \subseteq GuardIds(handler)
    <3>1. \A d \in EntryGuards(handler) : d.id \in GuardIds(handler)
      BY GuardIdType DEF TypeInv, Guards
    <3> QED BY <3>1 DEF EntryIds
  <2> QED BY <1>2, <2>1, <2>2 DEF Serve, TypeInv, EntryIds
<1>3. CASE Execute
  <2>0. todo \in Todo
    BY DEF TypeInv, TodoOn
  <2>1. todo # <<>> /\ UNCHANGED <<handler, report, serving>>
    BY <1>3, <2>0, ExecuteSteps
  <2>2. CASE Head(todo).kind \in {"call", "lazy"} /\ Perform(Head(todo).site)
    <3> DEFINE site == Head(todo).site
    <3>1. /\ todo' = Tail(todo) /\ Tail(todo) \in TodoOn(SitesIn(handler.body))
          /\ site \in handler.sinks \/ site \in GuardIds(handler)
      BY <2>1, <2>2, NextCallIs DEF Perform
    <3>2. CASE site \in handler.sinks
      BY <2>1, <2>2, <3>1, <3>2 DEF TypeInv, Perform
    <3>3. CASE site \notin handler.sinks
      BY <2>1, <2>2, <3>1, <3>3 DEF TypeInv, Perform
    <3> QED BY <3>2, <3>3
  <2>3. CASE Silent(todo, todo') /\ UNCHANGED <<ran, performed>>
    <3>1. todo' \in TodoOn(SitesIn(handler.body))
      BY <2>3, SilentTodo DEF TypeInv
    <3> QED BY <2>1, <2>3, <3>1 DEF TypeInv
  <2> QED BY <1>3, <2>0, <2>2, <2>3, ExecuteSteps
<1>4. CASE UNCHANGED vars
  BY <1>4 DEF vars, TypeInv
<1> QED BY <1>1, <1>2, <1>3, <1>4 DEF Next

LEMMA TypeInvTypes == TypeInv => TypeOK
<1> SUFFICES ASSUME TypeInv PROVE TypeOK
  OBVIOUS
<1>1. (handler.helpers \cup handler.owners) \cup {Dep, RouteDep} = GuardIds(handler)
  BY DEF GuardIds
<1>2. IsGraph(BuildControlFlow(handler.body))
  BY HandlerIs, ControlFlowGood DEF TypeInv, GoodGraphs
<1>3. report = <<>> \/ report \in [handler.sinks -> Verdicts(handler)]
  BY ReportIs DEF TypeInv
<1> QED BY <1>1, <1>2, <1>3 DEF TypeOK, TypeInv, Verdicts

\* The types of the state, in every state: the graph of a handler is a graph, and a report
\* has a verdict for every sink, over guards of the handler.
THEOREM TypeCorrect == Spec => []TypeOK
<1>1. Spec => []TypeInv
  BY TypeInvInit, TypeInvNext, PTL DEF Spec
<1> QED BY <1>1, TypeInvTypes, PTL
-----------------------------------------------------------------------------
(* Executions that a guard precedes *)

\* Whatever is done of a member, x is not performed before one of C ran.
Closed(S, C, x) ==
    \A t \in S : t # <<>> =>
        /\ Head(t).kind \in {"call", "lazy"} =>
              Head(t).site # x /\ (Head(t).site \in C \/ Tail(t) \in S)
        /\ \A u : Silent(t, u) => u \in S

Safe(C, x) == {t \in Todo : \E S \in SUBSET Todo : t \in S /\ Closed(S, C, x)}

LEMMA SafeStep ==
    ASSUME NEW C, NEW x, NEW t \in Safe(C, x), t # <<>>
    PROVE  /\ Head(t).kind \in {"call", "lazy"} =>
                Head(t).site # x /\ (Head(t).site \in C \/ Tail(t) \in Safe(C, x))
           /\ \A u : Silent(t, u) => u \in Safe(C, x)
<1>1. PICK S \in SUBSET Todo : t \in S /\ Closed(S, C, x)
  BY DEF Safe
<1>2. S \subseteq Safe(C, x)
  BY <1>1 DEF Safe
<1>3. /\ Head(t).kind \in {"call", "lazy"} =>
            Head(t).site # x /\ (Head(t).site \in C \/ Tail(t) \in S)
      /\ \A u : Silent(t, u) => u \in S
  BY <1>1 DEF Closed
<1> QED BY <1>2, <1>3

\* What leads to the same set or to a safe state is safe.
LEMMA SafeUnless ==
    ASSUME NEW C, NEW x, NEW T \in SUBSET Todo,
           \A t \in T : t # <<>> =>
              /\ Head(t).kind \in {"call", "lazy"} =>
                    Head(t).site # x /\ (Head(t).site \in C \/ Tail(t) \in T \cup Safe(C, x))
              /\ \A u : Silent(t, u) => u \in T \cup Safe(C, x)
    PROVE  T \subseteq Safe(C, x)
<1> DEFINE S == T \cup Safe(C, x)
<1>1. Safe(C, x) \subseteq Todo
  BY DEF Safe
<1>2. Closed(S, C, x)
  <2> SUFFICES ASSUME NEW t \in S, t # <<>>
               PROVE  /\ Head(t).kind \in {"call", "lazy"} =>
                            Head(t).site # x /\ (Head(t).site \in C \/ Tail(t) \in S)
                      /\ \A u : Silent(t, u) => u \in S
    BY DEF Closed
  <2>1. CASE t \in T
    BY <2>1
  <2>2. CASE t \in Safe(C, x)
    BY <2>2, SafeStep
  <2> QED BY <2>1, <2>2
<1>3. S \in SUBSET Todo
  BY <1>1
<1> HIDE DEF S
<1>4. S \subseteq Safe(C, x)
  BY <1>2, <1>3 DEF Safe
<1> QED BY <1>4 DEF S

LEMMA SafeIntro ==
    ASSUME NEW C, NEW x, NEW t \in Todo,
           t # <<>> =>
              /\ Head(t).kind \in {"call", "lazy"} =>
                    Head(t).site # x /\ (Head(t).site \in C \/ Tail(t) \in Safe(C, x))
              /\ \A u : Silent(t, u) => u \in Safe(C, x)
    PROVE  t \in Safe(C, x)
<1>1. {t} \in SUBSET Todo
  OBVIOUS
<1>2. {t} \subseteq Safe(C, x)
  <2> DEFINE T == {t}
  <2>1. \A s \in T : s # <<>> =>
              /\ Head(s).kind \in {"call", "lazy"} =>
                    Head(s).site # x /\ (Head(s).site \in C \/ Tail(s) \in T \cup Safe(C, x))
              /\ \A u : Silent(s, u) => u \in T \cup Safe(C, x)
    OBVIOUS
  <2> HIDE DEF T
  <2>2. T \subseteq Safe(C, x)
    BY <1>1, <2>1, SafeUnless DEF T
  <2> QED BY <2>2 DEF T
<1> QED BY <1>2

LEMMA EmptySafe ==
    ASSUME NEW C, NEW x
    PROVE  <<>> \in Safe(C, x)
<1>1. <<>> \in Todo
  BY DEF Todo
<1> QED BY <1>1, SafeIntro

\* Sequences of statements.
LEMMA TodoParts ==
    /\ <<>> \in Todo
    /\ \A t \in Todo : t # <<>> =>
         Head(t) \in Executed /\ Tail(t) \in Todo /\ t = <<Head(t)>> \o Tail(t)
    /\ \A s \in Executed : <<s>> \in Todo
    /\ \A t, u \in Todo : t \o u \in Todo
    /\ \A t \in Todo : <<>> \o t = t /\ t \o <<>> = t
    /\ \A t, u, v \in Todo : (t \o u) \o v = t \o (u \o v)
    /\ \A s \in Executed, t \in Todo :
         Head(<<s>> \o t) = s /\ Tail(<<s>> \o t) = t /\ <<s>> \o t # <<>>
    /\ \A t, u \in Todo : t # <<>> =>
         t \o u # <<>> /\ Head(t \o u) = Head(t) /\ Tail(t \o u) = Tail(t) \o u
<1> DEFINE E == Executed
<1> HIDE DEF E
<1>1. /\ <<>> \in Seq(E)
      /\ \A t \in Seq(E) : t # <<>> => Head(t) \in E /\ Tail(t) \in Seq(E) /\ t = <<Head(t)>> \o Tail(t)
      /\ \A s \in E : <<s>> \in Seq(E)
      /\ \A t, u \in Seq(E) : t \o u \in Seq(E)
  OBVIOUS
<1>2. \A t \in Seq(E) : <<>> \o t = t /\ t \o <<>> = t
  BY ConcatEmptySeq
<1>3. \A t, u, v \in Seq(E) : (t \o u) \o v = t \o (u \o v)
  BY ConcatAssociative
<1>4. \A s \in E, t \in Seq(E) : Head(<<s>> \o t) = s /\ Tail(<<s>> \o t) = t /\ <<s>> \o t # <<>>
  BY ConcatSimplifications
<1>5. ASSUME NEW t \in Seq(E), NEW u \in Seq(E), t # <<>>
      PROVE  t \o u # <<>> /\ Head(t \o u) = Head(t) /\ Tail(t \o u) = Tail(t) \o u
  <2>1. t = <<Head(t)>> \o Tail(t) /\ Head(t) \in E /\ Tail(t) \in Seq(E) /\ <<Head(t)>> \in Seq(E)
    BY <1>1, <1>5
  <2>2. t \o u = <<Head(t)>> \o (Tail(t) \o u)
    BY <1>3, <2>1
  <2> QED BY <1>1, <1>4, <2>1, <2>2
<1> QED BY <1>1, <1>2, <1>3, <1>4, <1>5 DEF Todo, E

\* What is done on other lines than x changes nothing.
LEMMA FreePrefix ==
    ASSUME NEW C, NEW x, NEW A, x \notin A, NEW p \in TodoOn(A), NEW r \in Safe(C, x)
    PROVE  p \o r \in Safe(C, x)
<1> DEFINE T == {q \o t : q \in TodoOn(A), t \in Safe(C, x)}
<1>0. Safe(C, x) \subseteq Todo /\ TodoOn(A) \subseteq Todo
  BY DEF Safe, TodoOn
<1>a. \A q \in TodoOn(A), t \in Safe(C, x) : q \o t \in T
  OBVIOUS
<1>b. \A v \in T : \E q \in TodoOn(A), t \in Safe(C, x) : v = q \o t
  OBVIOUS
<1> HIDE DEF T
<1>1. T \in SUBSET Todo
  <2> SUFFICES ASSUME NEW v \in T PROVE v \in Todo
    OBVIOUS
  <2>1. PICK q \in TodoOn(A), t \in Safe(C, x) : v = q \o t
    BY <1>b
  <2>2. q \in Todo /\ t \in Todo
    BY <1>0
  <2>3. q \o t \in Todo
    BY <2>2, TodoParts
  <2> QED BY <2>1, <2>3
<1>2. ASSUME NEW q \in TodoOn(A), NEW t \in Safe(C, x), q # <<>>
      PROVE  /\ Head(q \o t).kind \in {"call", "lazy"} =>
                    Head(q \o t).site # x /\ Tail(q \o t) \in T
             /\ \A u : Silent(q \o t, u) => u \in T
  <2>1. /\ Head(q \o t) = Head(q) /\ Tail(q \o t) = Tail(q) \o t /\ q \o t # <<>>
        /\ Head(q) \in Executed /\ SitesOf(Head(q)) \subseteq A /\ Tail(q) \in TodoOn(A)
    BY <1>0, <1>2, TodoParts, SequencesOfTodo
  <2>2. ASSUME Head(q).kind \in {"call", "lazy"} PROVE Head(q).site # x
    <3>1. Head(q).site \in SitesOf(Head(q))
      BY <2>2, SitesByKind
    <3> QED BY <2>1, <3>1
  <2>3. ASSUME NEW u, Silent(q \o t, u) PROVE u \in T
    <3>1. CASE u = <<>>
      <4>1. <<>> \in TodoOn(A) /\ <<>> \in Safe(C, x) /\ <<>> \o <<>> = <<>>
        BY SequencesOfTodo, EmptySafe, TodoParts
      <4> QED BY <1>a, <3>1, <4>1
    <3>2. CASE u # <<>>
      <4>1. PICK k : Replaces(k, Head(q)) /\ u = k \o (Tail(q) \o t)
        BY <2>1, <2>3, <3>2 DEF Silent
      <4>2. k \in TodoOn(A)
        BY <2>1, <4>1, ReplacesTodo
      <4>a. k \in Todo /\ Tail(q) \in Todo /\ t \in Todo
        BY <1>0, <2>1, <4>2
      <4>b. (k \o Tail(q)) \o t = k \o (Tail(q) \o t)
        BY <4>a, ConcatAssociative DEF Todo
      <4>3. u = (k \o Tail(q)) \o t
        BY <4>1, <4>b
      <4>4. k \o Tail(q) \in TodoOn(A)
        BY <2>1, <4>2, SequencesOfTodo
      <4> QED BY <1>a, <4>3, <4>4
    <3> QED BY <3>1, <3>2
  <2> QED BY <1>a, <2>1, <2>2, <2>3
<1>3. ASSUME NEW v \in T, v # <<>>
      PROVE  /\ Head(v).kind \in {"call", "lazy"} =>
                    Head(v).site # x /\ (Head(v).site \in C \/ Tail(v) \in T \cup Safe(C, x))
             /\ \A u : Silent(v, u) => u \in T \cup Safe(C, x)
  <2>1. PICK q \in TodoOn(A), t \in Safe(C, x) : v = q \o t
    BY <1>b
  <2>2. CASE q = <<>>
    <3>1. v = t
      BY <1>0, <2>1, <2>2, TodoParts
    <3> QED BY <1>3, <3>1, SafeStep
  <2>3. CASE q # <<>>
    <3> QED BY <1>2, <2>1, <2>3
  <2> QED BY <2>2, <2>3
<1>4. p \o r \in T
  BY <1>a
<1>5. T \subseteq Safe(C, x)
  BY <1>1, <1>3, SafeUnless
<1> QED BY <1>4, <1>5

\* The calls of a test are made in order: once one of C is among them, on an earlier line
\* than x, what is done after them does not matter.
LEMMA StoppedBy ==
    ASSUME NEW C, NEW x, NEW sites, sites \subseteq Site, NEW q \in Calls(sites),
           NEW c \in C \cap sites, c < x, x \in Int, NEW r \in Todo
    PROVE  q \o r \in Safe(C, x)
<1> DEFINE Call1(s) == s.kind = "call" /\ s.site \in Int
           Results(p) == \E j \in 1..Len(p) : /\ p[j].kind = "call" /\ p[j].site = c
                                              /\ \A i \in 1..j : p[i].kind = "call" /\ p[i].site # x
           T == {p \o r : p \in {o \in Todo : Results(o)}}
<1>a. \A p \in Todo : Results(p) => p \o r \in T
  OBVIOUS
<1>b. \A v \in T : \E p \in Todo : Results(p) /\ v = p \o r
  OBVIOUS
<1> HIDE DEF T
<1>1. T \in SUBSET Todo
  <2> SUFFICES ASSUME NEW v \in T PROVE v \in Todo
    OBVIOUS
  <2>1. PICK p \in Todo : v = p \o r
    BY <1>b
  <2>2. p \o r \in Todo
    BY TodoParts
  <2> QED BY <2>1, <2>2
<1>2. ASSUME NEW p \in Todo, Results(p)
      PROVE  /\ p # <<>> /\ Head(p).kind = "call" /\ Head(p).site # x
             /\ Head(p).site = c \/ (Tail(p) \in Todo /\ Results(Tail(p)))
  <2>1. PICK j \in 1..Len(p) : /\ p[j].kind = "call" /\ p[j].site = c
                               /\ \A i \in 1..j : p[i].kind = "call" /\ p[i].site # x
    BY <1>2
  <2> DEFINE E == Executed
  <2> HIDE DEF E
  <2>2. p \in Seq(E) /\ Len(p) \in Nat
    BY DEF Todo, E
  <2>3. p # <<>> /\ Head(p) = p[1] /\ 1 \in 1..j
    BY <2>1, <2>2
  <2>4. /\ Tail(p) \in Seq(E) /\ Len(Tail(p)) = Len(p) - 1
        /\ \A i \in 1..Len(Tail(p)) : Tail(p)[i] = p[i + 1]
    BY <2>2, <2>3, HeadTailProperties
  <2>5. CASE j = 1
    BY <2>1, <2>3, <2>5
  <2>6. CASE j # 1
    <3> DEFINE k == j - 1
    <3>1. k \in 1..Len(Tail(p)) /\ k + 1 = j
      BY <2>1, <2>2, <2>4, <2>6
    <3> HIDE DEF k
    <3>2. \A i \in 1..k : i \in 1..Len(Tail(p)) /\ i + 1 \in 1..j
      BY <2>1, <2>2, <2>4, <3>1
    <3>3. \A i \in 1..k : Tail(p)[i].kind = "call" /\ Tail(p)[i].site # x
      BY <2>1, <2>4, <3>2
    <3>4. Tail(p)[k].kind = "call" /\ Tail(p)[k].site = c
      BY <2>1, <2>4, <3>1
    <3>5. Results(Tail(p))
      BY <3>1, <3>3, <3>4
    <3>6. Tail(p) \in Todo
      BY <2>4 DEF Todo, E
    <3> QED BY <2>1, <2>3, <3>5, <3>6
  <2> QED BY <2>5, <2>6
<1>3. Results(q) /\ q \in Todo
  <2>1. /\ q \in TodoOn(sites)
        /\ \A i \in 1..Len(q) : q[i] \in [kind : {"call"}, site : sites]
        /\ \A a \in sites : \E i \in 1..Len(q) : q[i].site = a
        /\ \A i, j \in 1..Len(q) : i < j => q[i].site < q[j].site
    BY CallsInOrder
  <2>2. PICK j \in 1..Len(q) : q[j].site = c
    BY <2>1
  <2>a. sites \subseteq Int
    BY SourceAssumption DEF Site
  <2>3. \A i \in 1..Len(q) : q[i].kind = "call" /\ q[i].site \in Int
    BY <2>1, <2>a
  <2>4. c \in Int
    BY <2>a
  <2>5. \A i \in 1..j : i \in 1..Len(q) /\ (i = j \/ i < j)
    BY <2>1, SequencesOfTodo
  <2>6. ASSUME NEW i \in 1..j PROVE q[i].kind = "call" /\ q[i].site # x
    <3>1. q[i].kind = "call" /\ q[i].site \in Int /\ (q[i].site = c \/ q[i].site < c)
      BY <2>1, <2>2, <2>3, <2>5
    <3> QED BY <2>4, <3>1
  <2>7. Results(q)
    BY <2>2, <2>3, <2>6
  <2> QED BY <2>1, <2>7 DEF TodoOn
<1>4. q \o r \in T
  BY <1>3, <1>a
<1> HIDE DEF Results
<1>5. ASSUME NEW v \in T, v # <<>>
      PROVE  /\ Head(v).kind \in {"call", "lazy"} =>
                    Head(v).site # x /\ (Head(v).site \in C \/ Tail(v) \in T \cup Safe(C, x))
             /\ \A u : Silent(v, u) => u \in T \cup Safe(C, x)
  <2>1. PICK p \in Todo : Results(p) /\ v = p \o r
    BY <1>b
  <2>2. Head(v) = Head(p) /\ Tail(v) = Tail(p) \o r
    BY <1>2, <2>1, TodoParts
  <2>3. Head(p).kind = "call" /\ Head(p).site # x
          /\ (Head(p).site = c \/ (Tail(p) \in Todo /\ Results(Tail(p))))
    BY <1>2, <2>1
  <2>4. ASSUME NEW u, Silent(v, u) PROVE u = <<>>
    BY <2>2, <2>3, <2>4 DEF Silent, Replaces
  <2> QED BY <1>a, <2>2, <2>3, <2>4, EmptySafe
<1> QED BY <1>1, <1>4, <1>5, SafeUnless
-----------------------------------------------------------------------------
(* The graph foresees every execution *)

\* n covers the line c, and no other node does that is not opaque.
Covers(g, n, c) ==
    /\ n \in DOMAIN g.nodes /\ c \in g.nodes[n].sites
    /\ \A k \in DOMAIN g.nodes : c \in g.nodes[k].sites /\ ~ g.nodes[k].opaque => k = n

\* A node that is known in full and covers a guard above x.
Guarded(g, C, x, n) ==
    /\ n \in DOMAIN g.nodes /\ ~ g.nodes[n].partial
    /\ \E c \in C : c < x /\ Covers(g, n, c)

\* Z has no node that covers x, unless an opaque one, and is left only into a guarded node.
Around(g, Z, C, x) ==
    /\ NoNode \notin Z
    /\ \A n \in DOMAIN g.nodes : n \in Z /\ ~ g.nodes[n].opaque => x \notin g.nodes[n].sites
    /\ \A e \in g.edges : e.from \in Z => e.to \in Z \/ Guarded(g, C, x, e.to)

\* The lines of the guards of C have nothing but calls that are made, the line of x has no
\* opaque test.
Clear(span, C, x) ==
    \A l \in span : (l.line \in C => l.how = "call") /\ (l.line = x => l.how # "opaque")

\* A block that is linked after a node of Z is safe, if what follows it is when the
\* block ends in Z.
Follows(g, Z, C, x, link, inner) ==
    \A b \in inner : \A at \in GoodBuilders : \A rest \in Todo :
        /\ at.last \in Z /\ Grows(link[b][at].graph, g)
        /\ link[b][at].last \in Z => rest \in Safe(C, x)
        => b \o rest \in Safe(C, x)

LEMMA NextNode ==
    ASSUME NEW g \in GoodGraphs, NEW Z, NEW C, NEW x, Around(g, Z, C, x),
           NEW h \in GoodGraphs, Grows(h, g), NEW a \in Z, NEW n \in 1..Len(h.nodes), NEW label,
           Edge(a, n, label) \in h.edges
    PROVE  /\ n \in DOMAIN g.nodes /\ g.nodes[n] = h.nodes[n]
           /\ n \in Z \/ Guarded(g, C, x, n)
           /\ n \in Z /\ ~ h.nodes[n].opaque => x \notin h.nodes[n].sites
           /\ h.nodes[n].sites = {} => n \in Z
<1>1. /\ Len(g.nodes) \in Nat /\ Len(h.nodes) \in Nat /\ DOMAIN g.nodes = 1..Len(g.nodes)
  BY GraphIs
<1>2. n \in DOMAIN g.nodes /\ g.nodes[n] = h.nodes[n] /\ Edge(a, n, label) \in g.edges
  BY <1>1 DEF Grows
<1>3. Edge(a, n, label).from = a /\ Edge(a, n, label).to = n
  BY DEF Edge
<1>4. n \in Z \/ Guarded(g, C, x, n)
  BY <1>2, <1>3 DEF Around
<1>5. n \in Z /\ ~ h.nodes[n].opaque => x \notin h.nodes[n].sites
  BY <1>2 DEF Around
<1>6. h.nodes[n].sites = {} => n \in Z
  BY <1>2, <1>4 DEF Guarded, Covers
<1> QED BY <1>2, <1>4, <1>5, <1>6

\* What is safe after the join of two arms is safe after each of them.
LEMMA ArmsFollow ==
    ASSUME NEW g \in GoodGraphs, NEW Z, NEW C, NEW x, Around(g, Z, C, x),
           NEW inner, NEW link, LinksWell(link, inner), Follows(g, Z, C, x, link, inner),
           NEW s, s.body \in inner, s.orelse \in inner, NEW h \in GoodGraphs,
           NEW t, t.last \in 1..Len(h.nodes), t.label \in Labels,
           NEW f, f.last \in 1..Len(h.nodes), f.label \in Labels,
           NEW r, r = LinkArms(link, s, h, t, f), Grows(r.graph, g),
           NEW rest \in Todo, r.last \in Z => rest \in Safe(C, x)
    PROVE  /\ t.last \in Z => s.body \o rest \in Safe(C, x)
           /\ f.last \in Z => s.orelse \o rest \in Safe(C, x)
<1> DEFINE body == BodyEnd(link, s, h, t)
           orelse == OrelseEnd(link, s, h, t, f)
           atBody == At(h, t.last, t.label)
           atOrelse == At(body.graph, f.last, f.label)
<1>1. body = link[s.body][atBody] /\ orelse = link[s.orelse][atOrelse]
  BY DEF BodyEnd, OrelseEnd
<1> HIDE DEF body, orelse
<1>2. /\ At(h, t.last, t.label) \in GoodBuilders /\ At(body.graph, f.last, f.label) \in GoodBuilders
      /\ r \in GoodBuilders
      /\ Grows(body.graph, orelse.graph) /\ Grows(orelse.graph, r.graph) /\ Grows(body.graph, r.graph)
      /\ r.last # NoNode => r.graph.nodes[r.last] = Joint
      /\ \A a \in {body, orelse} : a.last # NoNode =>
            r.last # NoNode /\ Edge(a.last, r.last, a.label) \in r.graph.edges
  BY ArmsGood DEF body, orelse
<1>3. atBody.last = t.last /\ atOrelse.last = f.last
  BY DEF At
<1> HIDE DEF atBody, atOrelse
<1>4. body \in GoodBuilders /\ orelse \in GoodBuilders
  BY <1>1, <1>2 DEF LinksWell, atBody, atOrelse
<1>5. body.graph \in GoodGraphs /\ orelse.graph \in GoodGraphs /\ r.graph \in GoodGraphs
        /\ r.last \in 0..Len(r.graph.nodes) /\ Len(r.graph.nodes) \in Nat
  BY <1>2, <1>4, BuilderParts, GraphIs
<1>6. Grows(body.graph, g) /\ Grows(orelse.graph, g)
  BY <1>2, <1>5, GrowsOn
<1>7. ASSUME NEW a \in {body, orelse}, a.last \in Z PROVE rest \in Safe(C, x)
  <2>1. a.last # NoNode
    BY <1>7 DEF Around
  <2>2. r.last \in 1..Len(r.graph.nodes) /\ Edge(a.last, r.last, a.label) \in r.graph.edges
          /\ r.graph.nodes[r.last] = Joint
    BY <1>2, <1>5, <1>7, <2>1 DEF NoNode
  <2>3. Joint.sites = {}
    BY DEF Joint, Node
  <2>4. r.last \in Z
    BY <1>5, <1>7, <2>2, <2>3, NextNode
  <2> QED BY <2>4
<1>8. ASSUME t.last \in Z PROVE s.body \o rest \in Safe(C, x)
  <2>1. atBody \in GoodBuilders /\ atBody.last \in Z
          /\ Grows(link[s.body][atBody].graph, g)
          /\ (link[s.body][atBody].last \in Z => rest \in Safe(C, x))
    BY <1>1, <1>2, <1>3, <1>6, <1>7, <1>8 DEF atBody
  <2> QED BY <2>1 DEF Follows
<1>9. ASSUME f.last \in Z PROVE s.orelse \o rest \in Safe(C, x)
  <2>1. atOrelse \in GoodBuilders /\ atOrelse.last \in Z
          /\ Grows(link[s.orelse][atOrelse].graph, g)
          /\ (link[s.orelse][atOrelse].last \in Z => rest \in Safe(C, x))
    BY <1>1, <1>2, <1>3, <1>6, <1>7, <1>9 DEF atOrelse
  <2> QED BY <2>1 DEF Follows
<1> QED BY <1>8, <1>9

\* A test is safe if all its outcomes are.
LEMMA TestSafe ==
    ASSUME NEW C, NEW x, NEW s \in Stmts, s.kind = "if", NEW rest \in Todo,
           \A o \in Outcomes(s) : \A calls \in Calls(o.calls) :
              calls \o ((IF o.truth THEN s.body ELSE s.orelse) \o rest) \in Safe(C, x)
    PROVE  <<s>> \o rest \in Safe(C, x)
<1> DEFINE t == <<s>> \o rest
<1>1. s \in Executed
  BY DEF Executed
<1>2. t \in Todo /\ Head(t) = s /\ Tail(t) = rest
  BY <1>1, TodoParts
<1>3. ASSUME NEW u, Silent(t, u) PROVE u \in Safe(C, x)
  <2>1. CASE u = <<>>
    BY <2>1, EmptySafe
  <2>2. CASE u # <<>>
    <3>1. PICK q : Replaces(q, s) /\ u = q \o rest
      BY <1>2, <1>3, <2>2 DEF Silent
    <3>2. PICK o \in Outcomes(s) : \E calls \in Calls(o.calls) :
                                      q = calls \o (IF o.truth THEN s.body ELSE s.orelse)
      BY <3>1 DEF Replaces
    <3>3. PICK calls \in Calls(o.calls) : q = calls \o (IF o.truth THEN s.body ELSE s.orelse)
      BY <3>2
    <3> DEFINE arm == IF o.truth THEN s.body ELSE s.orelse
    <3>4. calls \in Todo
      BY OutcomeCalls, CallsInOrder DEF TodoOn
    <3>5. s.body \in Todo /\ s.orelse \in Todo
      BY <1>1, ExecutedKinds, BlockTodo DEF TodoOn
    <3>6. arm \in Todo
      BY <3>5
    <3>7. calls \o (arm \o rest) \in Safe(C, x)
      OBVIOUS
    <3>8. q = calls \o arm
      BY <3>3
    <3> HIDE DEF arm
    <3>9. (calls \o arm) \o rest = calls \o (arm \o rest)
      BY <3>4, <3>6, ConcatAssociative DEF Todo
    <3> QED BY <3>1, <3>7, <3>8, <3>9
  <2> QED BY <2>1, <2>2
<1> HIDE DEF t
<1>4. t \in Safe(C, x)
  BY <1>2, <1>3, SafeIntro
<1> QED BY <1>4 DEF t

\* An outcome is safe once a guard is among its calls, or if x is not and the arm is safe.
LEMMA OutcomeSafe ==
    ASSUME NEW C, NEW x \in Int, NEW sites, sites \subseteq Site, NEW calls \in Calls(sites),
           NEW arm \in Todo,
           \/ \E c \in C : c < x /\ c \in sites
           \/ x \notin sites /\ arm \in Safe(C, x)
    PROVE  calls \o arm \in Safe(C, x)
<1>1. CASE \E c \in C : c < x /\ c \in sites
  <2>1. PICK c \in C : c < x /\ c \in sites
    BY <1>1
  <2>2. c \in C \cap sites
    BY <2>1
  <2> QED BY <2>1, <2>2, StoppedBy
<1>2. CASE x \notin sites /\ arm \in Safe(C, x)
  <2>1. calls \in TodoOn(sites)
    BY CallsInOrder
  <2> QED BY <1>2, <2>1, FreePrefix
<1> QED BY <1>1, <1>2

\* A test that is one node.
LEMMA IfFollows ==
    ASSUME NEW g \in GoodGraphs, NEW Z, NEW C, NEW x \in Int, Around(g, Z, C, x),
           NEW inner, inner \subseteq Blocks[Size],
           NEW link, LinksWell(link, inner), Follows(g, Z, C, x, link, inner),
           NEW s \in Statements(inner), s.kind = "if", s.op \notin {"and", "or"},
           IsOpaque(s) => x \notin TestSites(s) /\ TestSites(s) \cap C = {},
           NEW at \in GoodBuilders, at.last \in Z,
           NEW r, r = LinkIf(link, at, s), Grows(r.graph, g),
           NEW rest \in Todo, r.last \in Z => rest \in Safe(C, x)
    PROVE  <<s>> \o rest \in Safe(C, x)
<1> DEFINE test == TestOf(at, s)
           t == Outcome(test, "true")
           f == Outcome(test, "false")
           n == Len(at.graph.nodes) + 1
<1>0. s \in Stmts /\ s \in Executed
  BY StatementsGrow DEF Stmts, Executed
<1>1. /\ s.body \in inner /\ s.orelse \in inner /\ TestSites(s) \subseteq Site
      /\ s.op \in {"plain", "opaque", "owner"}
  BY <1>0, StatementKinds, SitesType
<1>a. at.last # NoNode
  BY DEF Around
<1>2. /\ test.graph \in GoodGraphs /\ n \in 1..Len(test.graph.nodes)
      /\ test.graph.nodes[n].sites = TestSites(s) /\ test.graph.nodes[n].opaque = IsOpaque(s)
      /\ Edge(at.last, n, at.label) \in test.graph.edges
      /\ t.last = n /\ t.label = "true" /\ f.last = n /\ f.label = "false"
      /\ r = LinkArms(link, s, test.graph, t, f)
  <2> HIDE DEF test, n
  <2>1. /\ test.graph \in GoodGraphs /\ n \in 1..Len(test.graph.nodes)
        /\ test.graph.nodes[n].sites = TestSites(s) /\ test.graph.nodes[n].opaque = IsOpaque(s)
        /\ Edge(at.last, n, at.label) \in test.graph.edges
        /\ \A label : Outcome(test, label).last = n /\ Outcome(test, label).label = label
    BY <1>1, <1>a, IfGood DEF test, n
  <2>2. r = LinkArms(link, s, test.graph, Outcome(test, "true"), Outcome(test, "false"))
    BY <1>1, <1>a, IfGood DEF test
  <2> QED BY <2>1, <2>2
<1> HIDE DEF test, t, f, n
<1>3. t.label \in Labels /\ f.label \in Labels /\ t.last \in 1..Len(test.graph.nodes)
        /\ f.last \in 1..Len(test.graph.nodes)
  BY <1>2 DEF Labels
<1>4. Grows(test.graph, r.graph) /\ r \in GoodBuilders
  BY <1>1, <1>2, <1>3, ArmsGood
<1>5. Grows(test.graph, g)
  BY <1>2, <1>4, GrowsOn, BuilderParts
<1>6. /\ g.nodes[n] = test.graph.nodes[n]
      /\ n \in Z \/ Guarded(g, C, x, n)
      /\ n \in Z => x \notin TestSites(s)
  <2>1. /\ g.nodes[n] = test.graph.nodes[n]
        /\ n \in Z \/ Guarded(g, C, x, n)
        /\ n \in Z /\ ~ test.graph.nodes[n].opaque => x \notin test.graph.nodes[n].sites
    BY <1>2, <1>5, NextNode
  <2> QED BY <1>2, <2>1
<1>7. n \in Z => s.body \o rest \in Safe(C, x) /\ s.orelse \o rest \in Safe(C, x)
  BY <1>1, <1>2, <1>3, ArmsFollow
<1>8. s.body \o rest \in Todo /\ s.orelse \o rest \in Todo
  <2>1. s.body \in Todo /\ s.orelse \in Todo
    BY <1>0, ExecutedKinds, BlockTodo DEF TodoOn
  <2> QED BY <2>1, TodoParts
<1>9. ASSUME NEW o \in Outcomes(s), NEW calls \in Calls(o.calls)
      PROVE  calls \o ((IF o.truth THEN s.body ELSE s.orelse) \o rest) \in Safe(C, x)
  <2> DEFINE arm == (IF o.truth THEN s.body ELSE s.orelse) \o rest
  <2>1. o.calls \subseteq TestSites(s) /\ o.calls \subseteq Site
    BY <1>0, OutcomeCalls
  <2>2. arm \in Todo /\ (n \in Z => arm \in Safe(C, x))
    BY <1>7, <1>8
  <2> HIDE DEF arm
  <2>3. CASE n \in Z
    BY <1>6, <2>1, <2>2, <2>3, OutcomeSafe DEF arm
  <2>4. CASE Guarded(g, C, x, n)
    <3>1. ~ IsOpaque(s) /\ \E c \in C : c < x /\ c \in TestSites(s)
      BY <1>2, <1>6, <2>4 DEF Guarded, Covers
    <3>2. o.calls = TestSites(s)
      BY <1>1, <3>1, OutcomesByOp DEF IsOpaque
    <3> QED BY <2>1, <2>2, <3>1, <3>2, OutcomeSafe DEF arm
  <2> QED BY <1>6, <2>3, <2>4
<1> QED BY <1>0, <1>9, TestSafe

LEMMA UpToGrows ==
    ASSUME NEW s, s.atoms \in Seq(SUBSET Site), s.atoms # <<>>
    PROVE  /\ UpTo(s, 0) = {} /\ UpTo(s, Len(s.atoms)) = TestSites(s)
           /\ \A i \in Nat : UpTo(s, i + 1) = UpTo(s, i) \cup s.atoms[i + 1]
<1>1. Len(s.atoms) \in Nat /\ DOMAIN s.atoms = 1..Len(s.atoms)
  OBVIOUS
<1>2. UpTo(s, Len(s.atoms)) = TestSites(s)
  BY <1>1 DEF UpTo, TestSites
<1>3. \A i \in Nat : UpTo(s, i + 1) = UpTo(s, i) \cup s.atoms[i + 1]
  <2> SUFFICES ASSUME NEW i \in Nat PROVE UpTo(s, i + 1) = UpTo(s, i) \cup s.atoms[i + 1]
    OBVIOUS
  <2>1. 1..(i + 1) = 1..i \cup {i + 1}
    OBVIOUS
  <2> QED BY <2>1 DEF UpTo
<1>4. UpTo(s, 0) = {}
  <2>1. 1..0 = {}
    OBVIOUS
  <2> QED BY <2>1 DEF UpTo
<1> QED BY <1>2, <1>3, <1>4

OperandNode(s, i) == Node("branch", IF s.split THEN s.atoms[i] ELSE TestSites(s))

\* One after the other, behind the first L nodes.
OperandsAt(h, L, s, go) ==
    /\ L + Len(s.atoms) <= Len(h.nodes)
    /\ \A i \in 1..Len(s.atoms) : h.nodes[L + i] = OperandNode(s, i)
    /\ \A i \in 1..(Len(s.atoms) - 1) : Edge(L + i, L + (i + 1), go) \in h.edges

\* Of the calls of the first operands, one is a guard, or x is not among them.
Passed(L, s, Z, C, x, i) ==
    \/ \E c \in C : c < x /\ c \in UpTo(s, i)
    \/ L + i \in Z /\ x \notin UpTo(s, i)

\* A test with one node per operand: the operands that are evaluated have a guard among
\* their calls, or all their nodes are in Z.
LEMMA OperandsFollow ==
    ASSUME NEW g \in GoodGraphs, NEW Z, NEW C, NEW x \in Int, Around(g, Z, C, x),
           NEW s, s.atoms \in Seq(SUBSET Site), s.atoms # <<>>,
           NEW h \in GoodGraphs, Grows(h, g), NEW L \in Nat, NEW go, OperandsAt(h, L, s, go),
           NEW a \in Z, NEW label, Edge(a, L + 1, label) \in h.edges
    PROVE  \A i \in 1..Len(s.atoms) : Passed(L, s, Z, C, x, i)
<1> DEFINE n == Len(s.atoms)
           Met1(i) == \E c \in C : c < x /\ c \in UpTo(s, i)
           Past(i) == (i = 0 \/ L + i \in Z) /\ x \notin UpTo(s, i)
           T == {i \in Nat : i <= n => Met1(i) \/ Past(i)}
<1>1. /\ n \in Nat /\ n >= 1 /\ DOMAIN s.atoms = 1..n
      /\ UpTo(s, 0) = {} /\ UpTo(s, n) = TestSites(s)
      /\ \A i \in Nat : UpTo(s, i + 1) = UpTo(s, i) \cup s.atoms[i + 1]
  <2>1. n \in Nat /\ n # 0 /\ DOMAIN s.atoms = 1..n
    BY EmptySeq, LenProperties
  <2> QED BY <2>1, UpToGrows
<1>2. \A i \in 1..n : s.atoms[i] \subseteq TestSites(s)
  BY <1>1 DEF TestSites
<1>a. /\ Len(h.nodes) \in Nat /\ DOMAIN g.nodes = 1..Len(g.nodes) /\ Len(g.nodes) \in Nat
  BY GraphIs
<1>b. /\ L + n <= Len(h.nodes)
      /\ \A i \in 1..n : h.nodes[L + i] = OperandNode(s, i)
      /\ \A i \in 1..(n - 1) : Edge(L + i, L + (i + 1), go) \in h.edges
  BY DEF OperandsAt
<1> HIDE DEF n
<1>3. \A i \in 1..n : L + i \in 1..Len(h.nodes)
  BY <1>1, <1>a, <1>b
<1>4. \A i \in 1..n : /\ h.nodes[L + i].opaque = FALSE
                      /\ s.split => h.nodes[L + i].sites = s.atoms[i]
                      /\ ~ s.split => h.nodes[L + i].sites = TestSites(s)
  <2> SUFFICES ASSUME NEW i \in 1..n
               PROVE  /\ h.nodes[L + i].opaque = FALSE
                      /\ s.split => h.nodes[L + i].sites = s.atoms[i]
                      /\ ~ s.split => h.nodes[L + i].sites = TestSites(s)
    OBVIOUS
  <2> DEFINE sites == IF s.split THEN s.atoms[i] ELSE TestSites(s)
  <2>a. OperandNode(s, i) = Node("branch", sites)
    BY Zenon DEF OperandNode
  <2>b. h.nodes[L + i] = OperandNode(s, i)
    BY <1>b
  <2>1. h.nodes[L + i] = Node("branch", sites)
    BY <2>a, <2>b, Zenon
  <2>2. (s.split => sites = s.atoms[i]) /\ (~ s.split => sites = TestSites(s))
    OBVIOUS
  <2> HIDE DEF sites
  <2>3. h.nodes[L + i].opaque = FALSE /\ h.nodes[L + i].sites = sites
    BY <2>1 DEF Node
  <2> QED BY <2>2, <2>3
<1>5. \A i \in 1..n : L + i \in DOMAIN g.nodes /\ g.nodes[L + i] = h.nodes[L + i]
  BY <1>3, <1>a DEF Grows
<1>6. 0 \in T
  BY <1>1
<1>7. ASSUME NEW i \in Nat, i \in T, i + 1 <= n PROVE Met1(i + 1) \/ Past(i + 1)
  <2>a. i + 1 \in 1..n /\ i <= n
    BY <1>1, <1>7
  <2>b. UpTo(s, i + 1) = UpTo(s, i) \cup s.atoms[i + 1]
    BY <1>1, <1>7
  <2>0. i + 1 \in 1..n /\ UpTo(s, i + 1) = UpTo(s, i) \cup s.atoms[i + 1] /\ i <= n
    BY <2>a, <2>b
  <2>1. CASE Met1(i)
    BY <2>0, <2>1
  <2>2. CASE Past(i)
    <3>1. \E b \in Z : \E l : Edge(b, L + (i + 1), l) \in h.edges
      <4>1. CASE i = 0
        BY <4>1
      <4>2. CASE i # 0
        <5>1. i \in 1..(n - 1)
          BY <1>1, <1>7, <4>2
        <5>2. L + i \in Z /\ Edge(L + i, L + (i + 1), go) \in h.edges
          BY <1>b, <2>2, <4>2, <5>1
        <5> QED BY <5>2
      <4> QED BY <4>1, <4>2
    <3>2. PICK b \in Z : \E l : Edge(b, L + (i + 1), l) \in h.edges
      BY <3>1
    <3>3. PICK l : Edge(b, L + (i + 1), l) \in h.edges
      BY <3>2
    <3> DEFINE k == L + (i + 1)
    <3>4. k \in 1..Len(h.nodes)
      BY <1>3, <2>0
    <3>5. /\ k \in Z \/ Guarded(g, C, x, k)
          /\ k \in Z => x \notin h.nodes[k].sites
      BY <1>4, <2>0, <3>3, <3>4, NextNode
    <3>6. CASE k \in Z
      <4>1. x \notin s.atoms[i + 1]
        BY <1>2, <1>4, <2>0, <3>5, <3>6
      <4> QED BY <2>0, <2>2, <3>6, <4>1
    <3>7. CASE Guarded(g, C, x, k)
      <4>1. PICK c \in C : /\ c < x /\ c \in g.nodes[k].sites
                           /\ \A j \in DOMAIN g.nodes :
                                 c \in g.nodes[j].sites /\ ~ g.nodes[j].opaque => j = k
        BY <3>7 DEF Guarded, Covers
      <4>2. c \in h.nodes[k].sites
        BY <1>5, <2>0, <4>1
      <4>3. CASE s.split
        BY <1>4, <2>0, <4>1, <4>2, <4>3
      <4>4. CASE ~ s.split
        <5>1. n \in 1..n /\ L + n \in DOMAIN g.nodes /\ g.nodes[L + n] = h.nodes[L + n]
          BY <1>1, <1>5
        <5>2. c \in g.nodes[L + n].sites /\ ~ g.nodes[L + n].opaque
          BY <1>4, <2>0, <4>2, <4>4, <5>1
        <5>3. L + n = k
          BY <4>1, <5>1, <5>2
        <5>4. i + 1 = n
          BY <1>1, <5>3
        <5>5. c \in UpTo(s, i + 1)
          BY <1>1, <1>4, <2>0, <4>2, <4>4, <5>4
        <5> QED BY <4>1, <5>5
      <4> QED BY <4>3, <4>4
    <3> QED BY <3>5, <3>6, <3>7
  <2> QED BY <1>7, <2>0, <2>1, <2>2
<1>8. \A i \in Nat : i \in T => i + 1 \in T
  BY <1>7
<1> HIDE DEF T
<1>9. Nat \subseteq T
  BY <1>6, <1>8, NaturalInduction
<1> SUFFICES ASSUME NEW i \in 1..n PROVE Met1(i) \/ (L + i \in Z /\ x \notin UpTo(s, i))
  BY DEF n, Passed
<1>10. i \in T /\ i # 0 /\ i <= n
  BY <1>1, <1>9
<1> QED BY <1>10 DEF T

\* A short-circuit test.
LEMMA ShortFollows ==
    ASSUME NEW g \in GoodGraphs, NEW Z, NEW C, NEW x \in Int, Around(g, Z, C, x),
           NEW inner, inner \subseteq Blocks[Size],
           NEW link, LinksWell(link, inner), Follows(g, Z, C, x, link, inner),
           NEW s \in Statements(inner), s.kind = "if", s.op \in {"and", "or"},
           NEW at \in GoodBuilders, at.last \in Z,
           NEW r, r = LinkShortCircuitIf(link, at, s), Grows(r.graph, g),
           NEW rest \in Todo, r.last \in Z => rest \in Safe(C, x)
    PROVE  <<s>> \o rest \in Safe(C, x)
<1> DEFINE test == ShortTest(at, s)
           L == Len(at.graph.nodes)
           n == Len(s.atoms)
           t == At(test, L + (n + 1), "none")
           f == At(test, L + (n + 2), "none")
           go == IF s.op = "or" THEN "false" ELSE "true"
           Met1(i) == \E c \in C : c < x /\ c \in UpTo(s, i)
           Past(i) == L + i \in Z /\ x \notin UpTo(s, i)
<1>0. s \in Stmts /\ s \in Executed
  BY StatementsGrow DEF Stmts, Executed
<1>1. /\ s.body \in inner /\ s.orelse \in inner /\ TestSites(s) \subseteq Site
      /\ s.atoms \in Seq(SUBSET Site) /\ s.atoms # <<>>
  BY <1>0, StatementKinds, SitesType
<1>a. at.last # NoNode
  BY DEF Around
<1>2. /\ L \in Nat /\ n \in Nat /\ n >= 1
      /\ test \in GoodGraphs /\ Len(test.nodes) = L + n + 2
      /\ \A i \in 1..n : test.nodes[L + i]
                           = Node("branch", IF s.split THEN s.atoms[i] ELSE TestSites(s))
      /\ test.nodes[L + (n + 1)] = Joint /\ test.nodes[L + (n + 2)] = Joint
      /\ Edge(at.last, L + 1, at.label) \in test.edges
      /\ \A i \in 1..(n - 1) : Edge(L + i, L + (i + 1), go) \in test.edges
  BY <1>1, <1>a, ShortTestGood
<1>3. s.op = "or" => /\ Edge(L + n, L + (n + 2), "false") \in test.edges
                     /\ \A i \in 1..n : Edge(L + i, L + (n + 1), "true") \in test.edges
  BY <1>1, <1>a, ShortTestGood
<1>4. s.op = "and" => /\ Edge(L + n, L + (n + 1), "true") \in test.edges
                      /\ \A i \in 1..n : Edge(L + i, L + (n + 2), "false") \in test.edges
  BY <1>1, <1>a, ShortTestGood
<1>5. r = LinkArms(link, s, test, t, f)
  BY ShortIsArms
<1>6. t.last = L + (n + 1) /\ f.last = L + (n + 2) /\ t.label = "none" /\ f.label = "none"
  BY DEF At
<1> HIDE DEF test, t, f, n, L, go
<1>7. /\ t.label \in Labels /\ f.label \in Labels
      /\ L + (n + 1) \in 1..Len(test.nodes) /\ L + (n + 2) \in 1..Len(test.nodes)
      /\ t.last \in 1..Len(test.nodes) /\ f.last \in 1..Len(test.nodes)
      /\ L + n <= Len(test.nodes)
  BY <1>2, <1>6 DEF Labels
<1>8. Grows(test, r.graph) /\ r \in GoodBuilders
  BY <1>1, <1>2, <1>5, <1>7, ArmsGood
<1>9. Grows(test, g)
  BY <1>2, <1>8, GrowsOn, BuilderParts
<1>b. \A i \in 1..n : test.nodes[L + i] = OperandNode(s, i)
  BY <1>2, Zenon DEF OperandNode
<1>c. Edge(at.last, L + 1, at.label) \in test.edges
  BY <1>2
<1>d. \A i \in 1..(n - 1) : Edge(L + i, L + (i + 1), go) \in test.edges
  BY <1>2
<1>e. test \in GoodGraphs /\ L \in Nat
  BY <1>2
<1>10. \A i \in 1..n : Met1(i) \/ Past(i)
  <2>1. L + n <= Len(test.nodes)
    BY <1>7
  <2>2. OperandsAt(test, L, s, go)
    BY <1>b, <1>d, <2>1 DEF n, OperandsAt
  <2> DEFINE a == at.last
             l == at.label
  <2>3. a \in Z /\ Edge(a, L + 1, l) \in test.edges
    BY <1>c
  <2> HIDE DEF a, l
  <2>4. \A i \in 1..Len(s.atoms) : Passed(L, s, Z, C, x, i)
    BY <1>1, <1>e, <1>9, <2>2, <2>3, OperandsFollow
  <2> QED BY <2>4, Zenon DEF n, Passed
<1>11. Joint.sites = {}
  BY DEF Joint, Node
<1>12. ASSUME NEW i \in 1..n, Past(i), NEW m \in {L + (n + 1), L + (n + 2)}, NEW label,
              Edge(L + i, m, label) \in test.edges
       PROVE  m \in Z
  <2>1. m \in 1..Len(test.nodes) /\ test.nodes[m].sites = {} /\ L + i \in Z
    <3>1. CASE m = L + (n + 1)
      BY <1>2, <1>7, <1>11, <1>12, <3>1
    <3>2. CASE m = L + (n + 2)
      BY <1>2, <1>7, <1>11, <1>12, <3>2
    <3> QED BY <1>12, <3>1, <3>2
  <2> DEFINE a == L + i
  <2>2. a \in Z /\ Edge(a, m, label) \in test.edges
    BY <1>12
  <2>3. test \in GoodGraphs /\ Grows(test, g)
    BY <1>9, <1>e
  <2> HIDE DEF a, Past, Met1
  <2>4. test.nodes[m].sites = {} => m \in Z
    BY <2>1, <2>2, <2>3, NextNode
  <2> QED BY <2>1, <2>4
<1>13. /\ L + (n + 1) \in Z => s.body \o rest \in Safe(C, x)
       /\ L + (n + 2) \in Z => s.orelse \o rest \in Safe(C, x)
  BY <1>1, <1>2, <1>5, <1>6, <1>7, ArmsFollow
<1>14. s.body \o rest \in Todo /\ s.orelse \o rest \in Todo
  <2>1. s.body \in Todo /\ s.orelse \in Todo
    BY <1>0, ExecutedKinds, BlockTodo DEF TodoOn
  <2> DEFINE b == s.body
             e == s.orelse
  <2>2. b \in Todo /\ e \in Todo
    BY <2>1
  <2> HIDE DEF b, e
  <2>3. b \o rest \in Todo /\ e \o rest \in Todo
    BY <2>2, TodoParts
  <2> QED BY <2>3 DEF b, e
<1>15. ASSUME NEW o \in Outcomes(s), NEW calls \in Calls(o.calls)
       PROVE  calls \o ((IF o.truth THEN s.body ELSE s.orelse) \o rest) \in Safe(C, x)
  <2> DEFINE arm == (IF o.truth THEN s.body ELSE s.orelse) \o rest
  <2>1. o.calls \subseteq Site /\ o.truth \in BOOLEAN
    BY <1>0, OutcomeCalls
  <2>2. /\ o.truth = TRUE => arm = s.body \o rest
        /\ o.truth = FALSE => arm = s.orelse \o rest
        /\ arm \in Todo
    BY <1>14
  <2> HIDE DEF arm
  <2>3. n \in 1..n
    BY <1>2
  <2>4. PICK i \in 1..n : /\ o.calls = UpTo(s, i)
                          /\ \/ o.truth = TRUE /\ \E l : Edge(L + i, L + (n + 1), l) \in test.edges
                             \/ o.truth = FALSE /\ \E l : Edge(L + i, L + (n + 2), l) \in test.edges
    <3>1. CASE s.op = "or"
      <4>1. \/ o.truth = TRUE /\ \E i \in 1..n : o.calls = UpTo(s, i)
            \/ o.truth = FALSE /\ o.calls = UpTo(s, n)
        BY <3>1, OutcomesByOp DEF n
      <4> QED BY <1>3, <2>3, <3>1, <4>1
    <3>2. CASE s.op = "and"
      <4>1. \/ o.truth = FALSE /\ \E i \in 1..n : o.calls = UpTo(s, i)
            \/ o.truth = TRUE /\ o.calls = UpTo(s, n)
        BY <3>2, OutcomesByOp DEF n
      <4> QED BY <1>4, <2>3, <3>2, <4>1
    <3> QED BY <3>1, <3>2
  <2>5. CASE Met1(i)
    <3>1. calls \o arm \in Safe(C, x)
      BY <2>1, <2>2, <2>4, <2>5, OutcomeSafe
    <3> QED BY <3>1 DEF arm
  <2>6. CASE Past(i)
    <3>1. arm \in Safe(C, x)
      <4>1. CASE o.truth = TRUE
        BY <1>12, <1>13, <2>2, <2>4, <2>6, <4>1
      <4>2. CASE o.truth = FALSE
        BY <1>12, <1>13, <2>2, <2>4, <2>6, <4>2
      <4> QED BY <2>4, <4>1, <4>2
    <3>2. calls \o arm \in Safe(C, x)
      BY <2>1, <2>2, <2>4, <2>6, <3>1, OutcomeSafe
    <3> QED BY <3>2 DEF arm
  <2> QED BY <1>10, <2>5, <2>6
<1> QED BY <1>0, <1>15, TestSafe

LEMMA StatementFollows ==
    ASSUME NEW g \in GoodGraphs, NEW Z, NEW C, NEW x \in Int, Around(g, Z, C, x),
           NEW inner, inner \subseteq Blocks[Size],
           NEW link, LinksWell(link, inner), Follows(g, Z, C, x, link, inner),
           NEW s \in Statements(inner), Clear(SpanIs(s), C, x), NEW at \in GoodBuilders, at.last \in Z,
           NEW r, r = LinkStatement(link, at, s), Grows(r.graph, g),
           NEW rest \in Todo, r.last \in Z => rest \in Safe(C, x)
    PROVE  <<s>> \o rest \in Safe(C, x)
<1> DEFINE n == Len(at.graph.nodes) + 1
           t == <<s>> \o rest
<1>0. /\ s \in Stmts /\ s \in Executed
      /\ SitesOf(s) \subseteq LinesOf(s) /\ LinesOf(s) \subseteq Site
  BY StatementsGrow, SitesType DEF Stmts, Executed
<1>b. \A A, how : On(A, how) \subseteq SpanIs(s) =>
          (A \cap C # {} => how = "call") /\ (x \in A => how # "opaque")
  <2> SUFFICES ASSUME NEW A, NEW how, On(A, how) \subseteq SpanIs(s), NEW a \in A
               PROVE  (a \in C => how = "call") /\ (a = x => how # "opaque")
    OBVIOUS
  <2>1. [line |-> a, how |-> how] \in SpanIs(s)
    BY DEF On
  <2> QED BY <2>1 DEF Clear
<1>c. ASSUME s.kind = "if", IsOpaque(s) PROVE x \notin TestSites(s) /\ TestSites(s) \cap C = {}
  <2>1. On(TestSites(s), "opaque") \subseteq SpanIs(s)
    BY <1>c, SpanByKind
  <2> QED BY <1>b, <2>1
<1>a. at.last # NoNode
  BY DEF Around
<1>1. CASE s.kind = "if" /\ s.op \notin {"and", "or"}
  BY <1>1, <1>c, LinkByKind, IfFollows
<1>2. CASE s.kind = "if" /\ s.op \in {"and", "or"}
  BY <1>2, LinkByKind, ShortFollows
<1>3. t \in Todo /\ Head(t) = s /\ Tail(t) = rest
  BY <1>0, TodoParts
<1>4. CASE s.kind = "return"
  <2>1. \A u : Silent(t, u) => u = <<>>
    BY <1>3, <1>4 DEF Silent, Replaces
  <2> HIDE DEF t
  <2>2. t \in Safe(C, x)
    BY <1>3, <1>4, <2>1, EmptySafe, SafeIntro
  <2> QED BY <2>2 DEF t
<1>5. ASSUME s.kind \in {"call", "lazy", "skip", "block"}
      PROVE  /\ r.last = n
             /\ n \in Z \/ Guarded(g, C, x, n)
             /\ n \in Z => x \notin LinesOf(s)
             /\ Guarded(g, C, x, n) => s.kind # "block" /\ \E c \in C : c < x /\ c \in LinesOf(s)
  <2> DEFINE node == StatementNode(s)
  <2>1. /\ node \in NodeRecords /\ node.sites = LinesOf(s) /\ node.partial = IsPartial(s)
        /\ ~ node.opaque
    BY <1>0, StatementNodeIs
  <2> HIDE DEF node
  <2>2. r = Add(at, node)
    BY <1>5, LinkByKind DEF node
  <2>3. /\ r \in GoodBuilders /\ r.last = n /\ Len(r.graph.nodes) = n
        /\ r.graph.nodes[n] = node /\ Edge(at.last, n, at.label) \in r.graph.edges
    BY <1>a, <2>1, <2>2, AddGood
  <2>4. r.graph \in GoodGraphs /\ n \in 1..Len(r.graph.nodes)
    BY <2>3, BuilderParts, GraphIs
  <2>5. /\ g.nodes[n] = node
        /\ n \in Z \/ Guarded(g, C, x, n)
        /\ n \in Z => x \notin LinesOf(s)
    BY <2>1, <2>3, <2>4, NextNode
  <2>6. ASSUME Guarded(g, C, x, n) PROVE ~ IsPartial(s) /\ \E c \in C : c < x /\ c \in LinesOf(s)
    BY <2>1, <2>5, <2>6 DEF Guarded, Covers
  <2> QED BY <2>3, <2>5, <2>6 DEF IsPartial
<1> HIDE DEF n
<1>6. CASE s.kind \in {"lazy", "skip", "block"}
  <2>1. n \in Z
    <3>1. CASE s.kind = "block"
      BY <1>5, <3>1
    <3>2. CASE s.kind = "lazy"
      <4>1. SpanIs(s) = On(LinesOf(s), "lazy")
        BY <3>2, SpanByKind, LinesByKind
      <4>2. LinesOf(s) \cap C = {}
        BY <1>b, <4>1
      <4> QED BY <1>5, <3>2, <4>2
    <3>3. CASE s.kind = "skip"
      <4>1. SpanIs(s) = On(LinesOf(s), "none")
        BY <3>3, SpanByKind, LinesByKind
      <4>2. LinesOf(s) \cap C = {}
        BY <1>b, <4>1
      <4> QED BY <1>5, <3>3, <4>2
    <3> QED BY <1>6, <3>1, <3>2, <3>3
  <2>2. rest \in Safe(C, x) /\ x \notin SitesOf(s)
    BY <1>0, <1>5, <1>6, <2>1
  <2>3. <<s>> \in TodoOn(SitesOf(s))
    BY <1>0, SingleTodo
  <2> QED BY <2>2, <2>3, FreePrefix
<1>7. CASE s.kind = "call"
  <2>1. LinesOf(s) = {s.site} /\ s.site \in Site
    BY <1>0, <1>7, LinesByKind
  <2>2. s.site # x /\ (s.site \in C \/ rest \in Safe(C, x))
    <3>1. CASE n \in Z
      BY <1>5, <1>7, <2>1, <3>1
    <3>2. CASE Guarded(g, C, x, n)
      <4>1. s.site \in C /\ s.site < x
        BY <1>5, <1>7, <2>1, <3>2
      <4>2. s.site \in Int
        BY <2>1, SourceAssumption DEF Site
      <4> QED BY <4>1, <4>2
    <3> QED BY <1>5, <1>7, <3>1, <3>2
  <2>3. \A u : Silent(t, u) => u = <<>>
    BY <1>3, <1>7 DEF Silent, Replaces
  <2> HIDE DEF t
  <2>4. t \in Safe(C, x)
    BY <1>3, <2>2, <2>3, EmptySafe, SafeIntro
  <2> QED BY <2>4 DEF t
<1> QED BY <1>1, <1>2, <1>4, <1>6, <1>7, StatementKinds

\* The blocks with no more than that.
ClearBlocks(k, C, x) == {b \in Blocks[k] : Clear(SpanIn(b), C, x)}

LEMMA ClearStatement ==
    ASSUME NEW k, NEW C, NEW x, NEW s \in Statements(Blocks[k]), Clear(SpanIs(s), C, x)
    PROVE  s \in Statements(ClearBlocks(k, C, x))
<1> DEFINE inner == ClearBlocks(k, C, x)
<1>1. ASSUME s.kind = "block", s.body \in Blocks[k] PROVE s.body \in inner
  BY <1>1, SpanByKind DEF ClearBlocks
<1>2. ASSUME s.kind = "if", s.body \in Blocks[k], s.orelse \in Blocks[k]
      PROVE  s.body \in inner /\ s.orelse \in inner
  <2>1. SpanIn(s.body) \subseteq SpanIs(s) /\ SpanIn(s.orelse) \subseteq SpanIs(s)
    BY <1>2, SpanByKind
  <2> QED BY <1>2, <2>1 DEF ClearBlocks, Clear
<1> HIDE DEF inner
<1>3. s \in Statements(inner)
  BY <1>1, <1>2 DEF Statements
<1> QED BY <1>3 DEF inner

\* Blocks of any size that fits.
LEMMA LinksFollow ==
    ASSUME NEW g \in GoodGraphs, NEW Z, NEW C, NEW x \in Int, Around(g, Z, C, x), NEW k \in 0..Size
    PROVE  Follows(g, Z, C, x, LinkBlocks[k], ClearBlocks(k, C, x))
<1> DEFINE T == {n \in Nat : n <= Size => Follows(g, Z, C, x, LinkBlocks[n], ClearBlocks(n, C, x))}
<1>1. 0 \in T
  <2> SUFFICES ASSUME NEW b \in ClearBlocks(0, C, x), NEW at \in GoodBuilders, NEW rest \in Todo,
                      at.last \in Z, LinkBlocks[0][b][at].last \in Z => rest \in Safe(C, x)
               PROVE  b \o rest \in Safe(C, x)
    BY DEF Follows
  <2>1. b = <<>>
    BY BlocksEquation DEF ClearBlocks
  <2>2. LinkBlocks[0][b][at] = at
    <3>1. 0 \in Nat /\ b \in Blocks[0]
      BY DEF ClearBlocks
    <3> QED BY <2>1, <3>1, LinkIs
  <2>3. b \o rest = rest
    BY <2>1, TodoParts
  <2> QED BY <2>2, <2>3
<1>2. ASSUME NEW n \in Nat, n \in T, n + 1 <= Size
      PROVE  Follows(g, Z, C, x, LinkBlocks[n + 1], ClearBlocks(n + 1, C, x))
  <2>0. n + 1 \in Nat /\ (n + 1) - 1 = n /\ n \in 0..Size /\ n <= Size /\ n + 1 \in 0..Size
    BY <1>2, SourceAssumption
  <2> SUFFICES ASSUME NEW b \in ClearBlocks(n + 1, C, x), NEW at \in GoodBuilders, NEW rest \in Todo,
                      at.last \in Z, Grows(LinkBlocks[n + 1][b][at].graph, g),
                      LinkBlocks[n + 1][b][at].last \in Z => rest \in Safe(C, x)
               PROVE  b \o rest \in Safe(C, x)
    BY DEF Follows
  <2> DEFINE r == LinkBlocks[n + 1][b][at]
             inner == ClearBlocks(n, C, x)
  <2>a. b \in Blocks[n + 1] /\ Clear(SpanIn(b), C, x)
    BY DEF ClearBlocks
  <2>1. at.last # NoNode
    BY DEF Around
  <2>2. CASE b = <<>>
    <3>1. r = at
      BY <2>0, <2>2, <2>a, LinkIs
    <3>2. b \o rest = rest
      BY <2>2, TodoParts
    <3> QED BY <3>1, <3>2
  <2>3. CASE b # <<>>
    <3> DEFINE a == LinkStatement(LinkBlocks[n], at, Head(b))
    <3>a. Head(b) \in Statements(Blocks[n]) /\ Tail(b) \in Blocks[n]
      BY <2>0, <2>3, <2>a, BlockParts
    <3>b. Clear(SpanIs(Head(b)), C, x) /\ Clear(SpanIn(Tail(b)), C, x)
      <4>1. SpanIn(b) = SpanIs(Head(b)) \cup SpanIn(Tail(b))
        BY <2>0, <2>3, <2>a, SpanOfBlock
      <4> QED BY <2>a, <4>1 DEF Clear
    <3>1. Head(b) \in Statements(inner) /\ Tail(b) \in inner
      <4>1. Head(b) \in Statements(inner)
        BY <3>a, <3>b, ClearStatement
      <4> QED BY <3>a, <3>b, <4>1 DEF ClearBlocks
    <3>2. r = LinkBlocks[n][Tail(b)][a]
      BY <2>0, <2>1, <2>3, <2>a, LinkIs
    <3>3. /\ Blocks[n] \subseteq Blocks[Size] /\ inner \subseteq Blocks[Size]
          /\ LinksWell(LinkBlocks[n], inner) /\ Follows(g, Z, C, x, LinkBlocks[n], inner)
      <4>1. Blocks[n] \subseteq Blocks[Size] /\ LinksWell(LinkBlocks[n], Blocks[n])
        BY <2>0, WithinSize, LinksGood
      <4> QED BY <1>2, <2>0, <4>1 DEF ClearBlocks, LinksWell
    <3> HIDE DEF inner
    <3>4. a \in GoodBuilders
      BY <2>1, <3>1, <3>3, StatementGood
    <3>5. r \in GoodBuilders /\ Grows(a.graph, r.graph)
      <4> HIDE DEF a
      <4> QED BY <3>1, <3>2, <3>3, <3>4 DEF LinksWell
    <3>6. Grows(a.graph, g)
      <4> HIDE DEF a, r
      <4>1. a.graph \in GoodGraphs /\ r.graph \in GoodGraphs
        BY <3>4, <3>5, BuilderParts
      <4>2. Grows(r.graph, g)
        BY DEF r
      <4> QED BY <3>5, <4>1, <4>2, GrowsOn
    <3>7. Tail(b) \in Todo /\ b \in Todo
      BY <2>0, <2>a, <3>a, <3>3, BlockTodo, WithinSize DEF TodoOn
    <3>8. Tail(b) \o rest \in Todo
      BY <3>7, TodoParts
    <3>9. a.last \in Z => Tail(b) \o rest \in Safe(C, x)
      <4> HIDE DEF a
      <4> QED BY <3>1, <3>2, <3>3, <3>4 DEF Follows
    <3>10. <<Head(b)>> \o (Tail(b) \o rest) \in Safe(C, x)
      BY <3>1, <3>3, <3>6, <3>8, <3>9, <3>b, StatementFollows
    <3>11. b \o rest = <<Head(b)>> \o (Tail(b) \o rest)
      <4>1. b = <<Head(b)>> \o Tail(b) /\ <<Head(b)>> \in Todo
        BY <2>3, <3>7, TodoParts
      <4>2. (<<Head(b)>> \o Tail(b)) \o rest = <<Head(b)>> \o (Tail(b) \o rest)
        BY <3>7, <4>1, ConcatAssociative DEF Todo
      <4> QED BY <4>1, <4>2
    <3> QED BY <3>10, <3>11
  <2> QED BY <2>2, <2>3
<1>3. \A n \in Nat : n \in T => n + 1 \in T
  BY <1>2
<1> HIDE DEF T
<1>4. k \in T /\ k <= Size
  BY <1>1, <1>3, NaturalInduction, SourceAssumption
<1> QED BY <1>4 DEF T
-----------------------------------------------------------------------------
(* What the evidence says *)

LEMMA BodySafe ==
    ASSUME NEW h \in Handlers, NEW g, g = BuildControlFlow(h.body),
           NEW Z, NEW C, NEW x \in Int, Clear(SpanIn(h.body), C, x), Around(g, Z, C, x), Entry \in Z
    PROVE  h.body \in Safe(C, x)
<1> DEFINE all == LinkBlocks[Size][h.body][Start]
<1>1. h.body \in Blocks[Size] /\ Size \in 0..Size
  BY HandlerIs, SourceAssumption
<1>2. g \in GoodGraphs /\ Grows(all.graph, g)
  BY <1>1, ControlFlowGood
<1>3. Follows(g, Z, C, x, LinkBlocks[Size], ClearBlocks(Size, C, x)) /\ h.body \in ClearBlocks(Size, C, x)
  BY <1>1, <1>2, LinksFollow DEF ClearBlocks
<1>4. <<>> \in Todo /\ <<>> \in Safe(C, x) /\ h.body \o <<>> = h.body
  <2>1. h.body \in Todo
    BY <1>1, BlockTodo DEF TodoOn
  <2> QED BY <2>1, TodoParts, EmptySafe
<1>5. Start \in GoodBuilders /\ Start.last \in Z
  BY StartGood
<1> DEFINE rest == <<>>
<1> HIDE DEF rest
<1>6. rest \in Todo /\ rest \in Safe(C, x)
  BY <1>4 DEF rest
<1>7. h.body \o rest \in Safe(C, x)
  BY <1>1, <1>2, <1>3, <1>5, <1>6 DEF Follows
<1> QED BY <1>4, <1>7 DEF rest

\* The entry makes no call.
LEMMA EntryNode ==
    ASSUME NEW body \in Blocks[Size], NEW g, g = BuildControlFlow(body)
    PROVE  Entry \in DOMAIN g.nodes /\ g.nodes[Entry].sites = {}
<1> DEFINE all == LinkBlocks[Size][body][Start]
<1>1. all \in GoodBuilders /\ g \in GoodGraphs /\ Grows(all.graph, g)
  BY ControlFlowGood
<1>2. Grows(Start.graph, all.graph) /\ Start.graph \in GoodGraphs
  BY StartGood, LinksGood, BuilderParts, SourceAssumption DEF LinksWell
<1>3. Grows(Start.graph, g)
  BY <1>1, <1>2, GrowsOn, BuilderParts
<1>4. Start.graph.nodes = <<Node("exit", {}), Node("entry", {})>>
  BY DEF Start, At
<1>5. Len(Start.graph.nodes) = 2 /\ Start.graph.nodes[2] = Node("entry", {})
  BY <1>4
<1>6. g.nodes[2] = Node("entry", {}) /\ 2 \in DOMAIN g.nodes
  BY <1>1, <1>3, <1>5, GraphIs DEF Grows
<1>7. Node("entry", {}).sites = {}
  BY DEF Node
<1> QED BY <1>6, <1>7 DEF Entry

\* The node of a call is the only one that covers it.
LEMMA ResolvedOnly ==
    ASSUME NEW g, IsGraph(g), NEW site, NEW allowed \in BOOLEAN,
           NEW n, n = ResolveNode(g, site, allowed), n # NoNode
    PROVE  Covers(g, n, site) /\ (g.nodes[n].opaque => allowed)
<1> DEFINE covering == {k \in DOMAIN g.nodes : site \in g.nodes[k].sites /\ (g.nodes[k].opaque => allowed)}
<1>1. Cardinality(covering) = 1 /\ n = CHOOSE k \in covering : TRUE
  BY DEF ResolveNode
<1>2. IsFiniteSet(covering)
  <2>1. IsFiniteSet(1..Len(g.nodes)) /\ DOMAIN g.nodes = 1..Len(g.nodes)
    BY FS_Interval DEF IsGraph
  <2> QED BY <2>1, FS_Subset
<1>3. \E k : covering = {k}
  <2> HIDE DEF covering
  <2> QED BY <1>1, <1>2, FS_Singleton
<1>4. covering = {n}
  <2> HIDE DEF covering
  <2>1. PICK k : covering = {k}
    BY <1>3
  <2> QED BY <1>1, <2>1
<1>5. n \in covering /\ \A k \in covering : k = n
  <2> HIDE DEF covering
  <2> QED BY <1>4
<1> QED BY <1>5 DEF Covers

\* A cut of the nodes of B, guards above x, before the one node m of x, known in full.
Fenced(g, x, C, m, B, nodes, edges) ==
    /\ m = ResolveNode(g, x, FALSE) /\ m # NoNode /\ CoverageAuthoritative(g, m)
    /\ \A n \in B : \E c \in C : c < x /\ Covers(g, n, c)
    /\ nodes \subseteq B
    /\ \A e \in edges : e.from \in B
    /\ Disconnected(g, nodes, edges, m)

\* It leaves no way around: no execution performs x before one of the guards.
LEMMA RegionSafe ==
    ASSUME NEW h \in Handlers, NEW g, g = BuildControlFlow(h.body),
           NEW x \in Int, NEW C, Clear(SpanIn(h.body), C, x), NEW m,
           NEW B, NEW nodes, NEW edges, Fenced(g, x, C, m, B, nodes, edges)
    PROVE  h.body \in Safe(C, x)
<1>0. /\ m = ResolveNode(g, x, FALSE) /\ m # NoNode /\ CoverageAuthoritative(g, m)
      /\ \A n \in B : \E c \in C : c < x /\ Covers(g, n, c)
      /\ nodes \subseteq B
      /\ \A e \in edges : e.from \in B
      /\ Disconnected(g, nodes, edges, m)
  BY DEF Fenced
<1> USE <1>0
<1> DEFINE way == {e \in g.edges : e.to \notin B}
           left == {e \in g.edges \ edges : e.to \notin nodes}
           D == Closure(way, {Entry})
           N == {n \in DOMAIN g.nodes : m \notin Closure(g.edges, {n})}
           Z == D \cup N
<1>1. h.body \in Blocks[Size]
  BY HandlerIs
<1>2. g \in GoodGraphs /\ IsGraph(g) /\ IsFiniteSet(g.edges) /\ IsFiniteSet(way) /\ IsFiniteSet(left)
        /\ DOMAIN g.nodes = 1..Len(g.nodes)
        /\ \A e \in g.edges : e.from \in 1..Len(g.nodes) /\ e.to \in 1..Len(g.nodes)
  BY <1>1, ControlFlowGood, GraphIs, FS_Subset
<1>3. Entry \in DOMAIN g.nodes /\ g.nodes[Entry].sites = {}
  BY <1>1, EntryNode
<1>5. Entry \notin B
  BY <1>3 DEF Covers
<1>6. /\ m \in DOMAIN g.nodes /\ x \in g.nodes[m].sites /\ ~ g.nodes[m].opaque
      /\ \A k \in DOMAIN g.nodes : x \in g.nodes[k].sites /\ ~ g.nodes[k].opaque => k = m
  BY <1>2, ResolvedOnly DEF Covers
<1>7. Entry \in D /\ ClosedUnder(way, D)
  BY <1>2, ClosureFrom
<1>8. D \subseteq Closure(left, {Entry})
  <2> DEFINE P == Closure(left, {Entry}) \ B
  <2>1. Entry \in P
    BY <1>2, <1>5, ClosureFrom
  <2>2. ClosedUnder(left, Closure(left, {Entry}))
    BY <1>2, ClosureFrom
  <2>3. ASSUME NEW e \in way, e.from \in P PROVE e.to \in P
    <3>1. e \in left
      BY <2>3
    <3> QED BY <2>2, <2>3, <3>1 DEF ClosedUnder
  <2>4. ClosedUnder(way, P)
    BY <2>3 DEF ClosedUnder
  <2>5. D \subseteq P
    <3> HIDE DEF P, way
    <3> QED BY <1>2, <2>1, <2>4, ClosureWithin
  <2> QED BY <2>5
<1>9. m \notin D
  BY <1>8 DEF Disconnected
<1>10. D \subseteq ReachableFrom(g, Entry)
  <2> DEFINE R == Closure(g.edges, {Entry})
  <2>1. Entry \in R /\ ClosedUnder(g.edges, R)
    BY <1>2, ClosureFrom
  <2>2. ClosedUnder(way, R)
    BY <2>1 DEF ClosedUnder
  <2> HIDE DEF R, way
  <2>3. D \subseteq R
    BY <1>2, <2>1, <2>2, ClosureWithin
  <2> QED BY <2>3 DEF R, ReachableFrom
<1>11. m \notin N
  BY <1>2, ClosureFrom
<1>12. ASSUME NEW e \in g.edges, e.from \in N PROVE e.to \in N
  <2>1. e.from \in Closure(g.edges, {e.from}) /\ ClosedUnder(g.edges, Closure(g.edges, {e.from}))
    BY <1>2, ClosureFrom
  <2>2. e.to \in Closure(g.edges, {e.from})
    BY <2>1 DEF ClosedUnder
  <2>3. Closure(g.edges, {e.to}) \subseteq Closure(g.edges, {e.from})
    BY <1>2, <2>1, <2>2, ClosureWithin
  <2> QED BY <1>2, <1>12, <2>3
<1>13. ASSUME NEW e \in g.edges, e.from \in D PROVE e.to \in Z \/ (e.to \in B /\ ~ g.nodes[e.to].partial)
  <2>1. CASE e.to \notin B
    <3>1. e \in way
      BY <2>1
    <3> HIDE DEF way, D, N
    <3>2. e.to \in D
      BY <1>7, <1>13, <3>1 DEF ClosedUnder
    <3> QED BY <3>2
  <2>2. CASE e.to \in B /\ e.to \notin N
    <3>1. e.to \in NodesReaching(g, m)
      BY <1>2, <2>2, ReversedReaches DEF NodesReaching
    <3>2. e.to \in ReachableFrom(g, Entry)
      <4>1. ClosedUnder(g.edges, ReachableFrom(g, Entry))
        BY <1>2, ClosureFrom DEF ReachableFrom
      <4> HIDE DEF D
      <4> QED BY <1>10, <1>13, <4>1 DEF ClosedUnder
    <3>3. ~ g.nodes[e.to].partial
      BY <1>2, <3>1, <3>2 DEF CoverageAuthoritative
    <3> QED BY <2>2, <3>3
  <2> HIDE DEF D, N
  <2> QED BY <2>1, <2>2
<1>14. NoNode \notin Z
  <2>1. D \subseteq {Entry} \cup {e.to : e \in way}
    BY <1>2, ClosureFrom
  <2>2. \A e \in way : e.to # NoNode
    BY <1>2 DEF NoNode
  <2> HIDE DEF D, N, way
  <2>3. NoNode \notin D
    BY <2>1, <2>2 DEF NoNode, Entry
  <2>4. NoNode \notin DOMAIN g.nodes
    BY <1>2 DEF NoNode
  <2>5. N \subseteq DOMAIN g.nodes
    BY DEF N
  <2> QED BY <2>3, <2>4, <2>5
<1> HIDE DEF D, N, way
<1>15. ASSUME NEW n \in DOMAIN g.nodes, n \in Z, ~ g.nodes[n].opaque, x \in g.nodes[n].sites PROVE FALSE
  <2>1. n # m
    BY <1>9, <1>11, <1>15
  <2> QED BY <1>6, <1>15, <2>1
<1>16. ASSUME NEW e \in g.edges, e.from \in Z PROVE e.to \in Z \/ Guarded(g, C, x, e.to)
  <2>1. e.to \in Z \/ (e.to \in B /\ ~ g.nodes[e.to].partial)
    BY <1>12, <1>13, <1>16
  <2>2. ASSUME e.to \in B, ~ g.nodes[e.to].partial PROVE Guarded(g, C, x, e.to)
    <3> DEFINE n == e.to
    <3> HIDE DEF n
    <3>0. n \in B /\ ~ g.nodes[n].partial
      BY <2>2 DEF n
    <3>1. Guarded(g, C, x, n)
      BY <3>0 DEF Guarded, Covers
    <3> QED BY <3>1 DEF n
  <2> QED BY <2>1, <2>2
<1>17. Around(g, Z, C, x) /\ Entry \in Z
  BY <1>7, <1>14, <1>15, <1>16 DEF Around
<1> HIDE DEF Z
<1> QED BY <1>17, BodySafe

\* Evidence that a call dominates an effect: no execution performs it before the call.
LEMMA EvidenceSafe ==
    ASSUME NEW h \in Handlers, NEW g, g = BuildControlFlow(h.body),
           NEW x \in Int, NEW c, c < x, Clear(SpanIn(h.body), {c}, x),
           DominanceEvidence(g, c, x).dominates
    PROVE  h.body \in Safe({c}, x)
<1> DEFINE m == ResolveNode(g, x, FALSE)
           n == ResolveNode(g, c, FALSE)
           B == {n}
           nodes == {n}
           edges == {}
<1>1. IsGraph(g)
  BY HandlerIs, ControlFlowGood DEF GoodGraphs
<1>2. m # NoNode /\ CoverageAuthoritative(g, m) /\ n # NoNode /\ Dominates(g, n, m)
  BY DEF DominanceEvidence
<1>3. Entry \in DOMAIN g.nodes /\ g.nodes[Entry].sites = {}
  BY HandlerIs, EntryNode
<1>4. n # Entry
  <2>1. c \in g.nodes[n].sites
    BY <1>1, <1>2, ResolvedOnly DEF Covers
  <2> QED BY <1>3, <2>1
<1>5. \A b \in B : \E d \in {c} : d < x /\ Covers(g, b, d)
  BY <1>1, <1>2, ResolvedOnly
<1> HIDE DEF m, n
<1>6. Disconnected(g, nodes, edges, m)
  <2>1. ASSUME NEW w, IsWalk(g.edges, w, Entry, m)
        PROVE  \E i \in DOMAIN w : w[i] \in edges \/ w[i].to \in nodes
    <3>1. n \in Visited(Entry, w)
      BY <1>1, <1>2, <2>1, DominatesIsExact
    <3> QED BY <1>4, <3>1 DEF Visited
  <2> HIDE DEF nodes, edges
  <2> QED BY <1>1, <2>1, CutIsExact
<1>7. nodes \subseteq B /\ \A e \in edges : e.from \in B
  OBVIOUS
<1>8. m = ResolveNode(g, x, FALSE)
  BY DEF m
<1> HIDE DEF B, nodes, edges
<1>9. Fenced(g, x, {c}, m, B, nodes, edges)
  BY <1>2, <1>5, <1>6, <1>7, <1>8, Zenon DEF Fenced
<1> QED BY <1>9, RegionSafe

\* A cut that covers an effect, of calls above it: no execution performs the effect before
\* one of them.
LEMMA CutSafe ==
    ASSUME NEW h \in Handlers, NEW g, g = BuildControlFlow(h.body),
           NEW x \in Int, NEW C, Clear(SpanIn(h.body), C, x), \A c \in C : c < x,
           CutSetEvidence(g, C, x).covers
    PROVE  h.body \in Safe(C, x)
<1> DEFINE m == ResolveNode(g, x, FALSE)
           B == {ResolveNode(g, c, TRUE) : c \in C}
           nodes == CutNodes(g, B, m)
           edges == CutEdges(g, B, m)
<1>1. IsGraph(g)
  BY HandlerIs, ControlFlowGood DEF GoodGraphs
<1>2. m # NoNode /\ NoNode \notin B /\ CoverageAuthoritative(g, m) /\ Disconnected(g, nodes, edges, m)
  BY DEF CutSetEvidence
<1>3. \A b \in B : \E c \in C : c < x /\ Covers(g, b, c)
  <2> SUFFICES ASSUME NEW c \in C PROVE Covers(g, ResolveNode(g, c, TRUE), c)
    OBVIOUS
  <2> QED BY <1>1, <1>2, ResolvedOnly
<1>4. nodes \subseteq B /\ \A e \in edges : e.from \in B
  BY DEF CutNodes, CutEdges, SinkReaching
<1>5. m = ResolveNode(g, x, FALSE)
  OBVIOUS
<1> HIDE DEF B, nodes, edges, m
<1>6. Fenced(g, x, C, m, B, nodes, edges)
  BY <1>2, <1>3, <1>4, <1>5, Zenon DEF Fenced
<1> QED BY <1>6, RegionSafe

\* An ownership assertion in the handler's own block: no execution performs an effect
\* below it before it.
LEMMA OwnerSafe ==
    ASSUME NEW h \in Handlers, NEW x \in Int, NEW c \in h.owners, c < x
    PROVE  h.body \in Safe({c}, x)
<1> DEFINE b == h.body
           E == Executed
           A == {a \in Site : a < c}
<1>1. PICK i \in DOMAIN b :
         /\ b[i].kind = "if" /\ b[i].op = "owner" /\ c \in TestSites(b[i])
         /\ \A j \in 1..(i - 1) : \A r \in SitesOf(b[j]) : r < c
  BY HandlerIs
<1>2. b \in Blocks[Size] /\ c \in Site
  BY HandlerIs
<1>3. b \in Seq(Stmts) /\ Stmts \subseteq E
  BY <1>2, BlockStatements DEF Executed
<1> DEFINE s == b[i]
           p == SubSeq(b, 1, i - 1)
           r == SubSeq(b, i + 1, Len(b))
<1>4. s \in Stmts
  <2> DEFINE S == Stmts
  <2> HIDE DEF S, b
  <2>1. b \in Seq(S)
    BY <1>3 DEF S
  <2>2. b[i] \in S
    BY <2>1
  <2> QED BY <2>2 DEF S, b
<1>5. b \in Seq(E) /\ \A j \in DOMAIN b : b[j] \in E /\ SitesOf(b[j]) \subseteq Site
  <2> HIDE DEF b
  <2>1. b \in Seq(E)
    BY <1>3, SeqMonotonic
  <2>2. \A j \in DOMAIN b : b[j] \in Stmts
    <3> DEFINE S == Stmts
    <3> HIDE DEF S
    <3>1. b \in Seq(S)
      BY <1>3 DEF S
    <3>2. \A j \in DOMAIN b : b[j] \in S
      BY <3>1
    <3> QED BY <3>2 DEF S
  <2> QED BY <1>3, <2>1, <2>2, SitesType
<1> HIDE DEF E, b
<1>6. Len(b) \in Nat /\ DOMAIN b = 1..Len(b) /\ i \in 1..Len(b)
  BY <1>5
<1>7. p \in Seq(E) /\ r \in Seq(E) /\ <<s>> \in Seq(E)
  <2>1. \A j \in 1..(i - 1) : b[j] \in E
    BY <1>5, <1>6
  <2>2. \A j \in (i + 1)..Len(b) : b[j] \in E
    BY <1>5, <1>6
  <2>3. p \in Seq(E)
    BY <1>6, <2>1, SubSeqProperties
  <2>4. r \in Seq(E)
    BY <1>6, <2>2, SubSeqProperties
  <2> QED BY <1>5, <2>3, <2>4
<1>8. b = p \o (<<s>> \o r)
  <2>1. SubSeq(b, 1, Len(b)) = b
    BY <1>5, SubSeqFull
  <2>2. SubSeq(b, 1, i - 1) \o SubSeq(b, (i - 1) + 1, Len(b)) = SubSeq(b, 1, Len(b))
    <3>1. 1 \in 1..(Len(b) + 1) /\ i - 1 \in (1 - 1)..Len(b) /\ Len(b) \in (i - 1)..Len(b)
      BY <1>6
    <3> QED BY <1>5, <3>1, ConcatAdjacentSubSeq
  <2>3. SubSeq(b, i, Len(b)) = <<b[i]>> \o SubSeq(b, i + 1, Len(b))
    <3>1. Len(b) \in i..Len(b)
      BY <1>6
    <3> QED BY <1>5, <1>6, <3>1, SubSeqRecursiveFirst
  <2>4. (i - 1) + 1 = i
    BY <1>6
  <2> QED BY <2>1, <2>2, <2>3, <2>4
<1>9. p \in TodoOn(A)
  <2>1. Len(p) = i - 1 /\ \A j \in 1..(i - 1) : p[j] = b[j]
    <3>1. \A j \in 1..(i - 1) : b[j] \in E
      BY <1>5, <1>6
    <3>2. /\ Len(p) = (IF 1 <= i - 1 THEN (i - 1) - 1 + 1 ELSE 0)
          /\ \A j \in 1..((i - 1) - 1 + 1) : p[j] = b[1 + j - 1]
      BY <1>6, <3>1, SubSeqProperties
    <3>3. (i - 1) - 1 + 1 = i - 1 /\ \A j \in 1..(i - 1) : 1 + j - 1 = j
      BY <1>6
    <3> HIDE DEF p
    <3> QED BY <1>6, <3>2, <3>3
  <2>2. \A j \in 1..Len(p) : SitesOf(p[j]) \subseteq A
    <3> HIDE DEF p
    <3>1. ASSUME NEW j \in 1..Len(p) PROVE SitesOf(p[j]) \subseteq A
      <4>1. j \in 1..(i - 1) /\ j \in DOMAIN b /\ p[j] = b[j]
        BY <1>6, <2>1, <3>1
      <4>2. \A q \in SitesOf(b[j]) : q < c
        BY <1>1, <4>1
      <4> QED BY <1>5, <4>1, <4>2
    <3> QED BY <3>1
  <2> QED BY <1>7, <2>2 DEF TodoOn, Todo, E
<1> HIDE DEF p, r
<1>10. r \in Todo
  BY <1>7 DEF Todo, E
<1>11. <<s>> \o r \in Safe({c}, x)
  <2>1. s.kind = "if" /\ s.op = "owner" /\ c \in TestSites(s) /\ TestSites(s) \subseteq Site
    BY <1>1, <1>4, SitesType
  <2>2. s \in Executed
    BY <1>4 DEF Executed
  <2>3. s.body \in Todo /\ s.orelse \in Todo
    BY <2>1, <2>2, ExecutedKinds, BlockTodo DEF TodoOn
  <2> HIDE DEF s
  <2>4. ASSUME NEW o \in Outcomes(s), NEW calls \in Calls(o.calls)
        PROVE  calls \o ((IF o.truth THEN s.body ELSE s.orelse) \o r) \in Safe({c}, x)
    <3> DEFINE arm == (IF o.truth THEN s.body ELSE s.orelse) \o r
    <3>1. o.calls = TestSites(s)
      BY <2>1, OutcomesByOp
    <3>2. arm \in Todo
      <4>1. (IF o.truth THEN s.body ELSE s.orelse) \in Todo
        BY <2>3
      <4> QED BY <1>10, <4>1, TodoParts
    <3> HIDE DEF arm
    <3>3. calls \in Calls(TestSites(s)) /\ \E d \in {c} : d < x /\ d \in TestSites(s)
      BY <2>1, <3>1
    <3>4. calls \o arm \in Safe({c}, x)
      BY <2>1, <3>2, <3>3, OutcomeSafe
    <3> QED BY <3>4 DEF arm
  <2>5. s \in Stmts
    BY <1>4 DEF s
  <2> QED BY <1>10, <2>1, <2>4, <2>5, TestSafe
<1>12. x \notin A
  BY <1>2, SourceAssumption DEF Site
<1> HIDE DEF A, s
<1>13. p \o (<<s>> \o r) \in Safe({c}, x)
  BY <1>9, <1>11, <1>12, FreePrefix
<1> QED BY <1>8, <1>13 DEF b
-----------------------------------------------------------------------------
(* What a verdict stands on *)

AuthorizesIn(h, id) ==
    \/ id \in h.owners
    \/ id = Dep /\ h.dep = "pass"
    \/ id = RouteDep /\ h.route = "proved"

\* One of C runs before x: in the body, or as a dependency.
Above(h, C, x) ==
    \/ h.body \in Safe(C, x) /\ C \cap h.sinks = {}
    \/ C # {} /\ C \subseteq EntryIds(h)

\* An authority for x runs before it; one for another resource does.
Vouched(h, x) == \E C : Above(h, C, x) /\ (\A c \in C : AuthorizesIn(h, c))
Elsewhere(h) ==
    \E id \in EntryIds(h) :
        \/ id = Dep /\ h.dep \in {"fail", "unknown"}
        \/ id = RouteDep /\ h.route = "other"
UnprovedIn(h, x) == h.route = "unproved" \/ \E c \in h.helpers : c < x

\* A pass stands on a guard that authorises the effect, or on two guards that share the work.
LEMMA PassAbove ==
    ASSUME NEW h \in Handlers, NEW g, NEW x \in Int, Evaluate(h, g, x) = "pass"
    PROVE  Vouched(h, x) \/ (UnprovedIn(h, x) /\ Elsewhere(h))
<1> DEFINE guards == Guards(h, x)
           cut == CutSetEvidence(g, CutCandidates(h, x), x)
           complete == LocallyComplete(h, g, x)
           dominating == Dominating(guards, cut)
<1>1. OverallStatus(guards, cut, complete) = "pass"
  BY DEF Evaluate
<1>a. dominating \subseteq guards
  BY DEF Dominating, CollectiveCut
<1> HIDE DEF guards, cut, complete
<1>2. /\ GuardEffectiveness(dominating) = "established"
      /\ ResourceBinding(dominating) = "established"
  BY <1>1 DEF OverallStatus, GuardEffectiveness, ResourceBinding, GuardPresence
<1> HIDE DEF dominating
<1>3. PICK d \in dominating : d.effective
  BY <1>2 DEF GuardEffectiveness
<1>4. PICK e \in dominating : e.exact \/ e.binding = "pass"
  BY <1>2 DEF ResourceBinding
<1>5. ASSUME NEW c \in h.owners, c < x PROVE Vouched(h, x)
  <2>1. Above(h, {c}, x) /\ AuthorizesIn(h, c)
    BY <1>5, OwnerSafe, HandlerIs DEF Above, AuthorizesIn
  <2> QED BY <2>1 DEF Vouched
<1>6. ASSUME NEW c \in EntryIds(h), AuthorizesIn(h, c) PROVE Vouched(h, x)
  <2>1. Above(h, {c}, x)
    BY DEF Above
  <2> QED BY <1>6, <2>1 DEF Vouched
<1>7. SUFFICES ASSUME ~ Vouched(h, x) PROVE UnprovedIn(h, x) /\ Elsewhere(h)
  OBVIOUS
<1>8. ASSUME NEW i \in dominating
      PROVE  \/ i.effective = FALSE /\ i.id \in h.helpers /\ i.id < x
             \/ /\ i.id = Dep /\ h.dep \in {"fail", "unknown"} /\ i.id \in EntryIds(h)
                /\ i.exact = FALSE /\ i.binding # "pass"
             \/ i.effective = FALSE /\ h.route = "unproved"
             \/ /\ i.id = RouteDep /\ h.route = "other" /\ i.id \in EntryIds(h)
                /\ i.exact = FALSE /\ i.binding # "pass"
  <2>0. i \in Guards(h, x)
    BY <1>a DEF guards
  <2>1. CASE IsHelperGuard(h, x, i)
    BY <2>1 DEF IsHelperGuard
  <2>2. CASE IsOwnerGuard(h, x, i)
    BY <1>5, <1>7, <2>2 DEF IsOwnerGuard
  <2>3. CASE IsDepGuard(h, i)
    <3>1. i.id = Dep /\ h.dep # "none" /\ i.id \in EntryIds(h) /\ i.exact = FALSE /\ i.binding = h.dep
      BY <2>3 DEF IsDepGuard
    <3>2. h.dep # "pass"
      BY <1>6, <1>7, <3>1 DEF AuthorizesIn
    <3>3. h.dep \in {"fail", "unknown"}
      BY <3>1, <3>2, HandlerIs
    <3> QED BY <3>1, <3>3
  <2>4. CASE IsRouteGuard(h, i)
    <3>1. /\ i.id = RouteDep /\ h.route # "none" /\ i.id \in EntryIds(h) /\ i.binding = "none"
          /\ i.effective = (h.route # "unproved") /\ i.exact = (h.route # "other")
      BY <2>4 DEF IsRouteGuard
    <3>2. h.route # "proved"
      BY <1>6, <1>7, <3>1 DEF AuthorizesIn
    <3>3. h.route \in {"unproved", "other"}
      BY <3>1, <3>2, HandlerIs
    <3> QED BY <3>1, <3>3
  <2> QED BY <2>0, <2>1, <2>2, <2>3, <2>4, GuardIs
<1>9. Elsewhere(h)
  BY <1>3, <1>8 DEF Elsewhere
<1>10. UnprovedIn(h, x)
  BY <1>4, <1>8 DEF UnprovedIn
<1> QED BY <1>9, <1>10
-----------------------------------------------------------------------------
(* Invariants of the interpreter *)

\* Nothing is done before a request, and a request runs the dependencies first.
ServingInv ==
    /\ ~ serving => todo = <<>> /\ performed = {}
    /\ serving => EntryIds(handler) \subseteq ran
    /\ \A p \in performed : EntryIds(handler) \subseteq p.after

\* One of C has run, or will run before x.
Ahead(C, x) ==
    /\ serving => ran \cap C # {} \/ todo \in Safe(C, x)
    /\ \A p \in performed : p.sink = x => p.after \cap C # {}

BodyInv == \A C, x : handler.body \in Safe(C, x) /\ C \cap handler.sinks = {} => Ahead(C, x)

HandlerInv == TypeInv /\ ServingInv /\ BodyInv

LEMMA ServingInvNext == TypeInv /\ ServingInv /\ [Next]_vars => ServingInv'
<1> SUFFICES ASSUME TypeInv, ServingInv, [Next]_vars PROVE ServingInv'
  OBVIOUS
<1>1. CASE Analyse
  BY <1>1 DEF Analyse, ServingInv
<1>2. CASE Serve
  BY <1>2 DEF Serve, ServingInv, EntryIds
<1>3. CASE Execute
  <2>0. todo \in Todo
    BY DEF TypeInv, TodoOn
  <2>1. todo # <<>> /\ UNCHANGED <<handler, report, serving>>
    BY <1>3, <2>0, ExecuteSteps
  <2>2. serving
    BY <2>1 DEF ServingInv
  <2>3. CASE Head(todo).kind \in {"call", "lazy"} /\ Perform(Head(todo).site)
    BY <2>1, <2>2, <2>3 DEF ServingInv, Perform
  <2>4. CASE Silent(todo, todo') /\ UNCHANGED <<ran, performed>>
    BY <2>1, <2>2, <2>4 DEF ServingInv
  <2> QED BY <1>3, <2>0, <2>3, <2>4, ExecuteSteps
<1>4. CASE UNCHANGED vars
  BY <1>4 DEF vars, ServingInv
<1> QED BY <1>1, <1>2, <1>3, <1>4 DEF Next

LEMMA AheadNext ==
    ASSUME TypeInv, ServingInv, [Next]_vars, NEW C, NEW x,
           handler.body \in Safe(C, x), C \cap handler.sinks = {}, Ahead(C, x)
    PROVE  Ahead(C, x)'
<1>1. CASE Analyse
  BY <1>1 DEF Analyse, Ahead
<1>2. CASE Serve
  <2>1. performed = {}
    BY <1>2 DEF Serve, ServingInv
  <2> QED BY <1>2, <2>1 DEF Serve, Ahead
<1>3. CASE Execute
  <2>0. todo \in Todo
    BY DEF TypeInv, TodoOn
  <2>1. todo # <<>> /\ UNCHANGED <<handler, report, serving>>
    BY <1>3, <2>0, ExecuteSteps
  <2>2. serving /\ (ran \cap C # {} \/ todo \in Safe(C, x))
    BY <2>1 DEF ServingInv, Ahead
  <2>3. CASE Head(todo).kind \in {"call", "lazy"} /\ Perform(Head(todo).site)
    <3> DEFINE site == Head(todo).site
    <3>1. todo' = Tail(todo)
      BY <2>3 DEF Perform
    <3>2. \/ ran \cap C # {}
          \/ site # x /\ (site \in C \/ Tail(todo) \in Safe(C, x))
      BY <2>1, <2>2, <2>3, SafeStep
    <3>3. CASE site \in handler.sinks
      <4>1. performed' = performed \cup {[sink |-> site, after |-> ran]} /\ ran' = ran
        BY <2>3, <3>3 DEF Perform
      <4>2. site \notin C
        BY <3>3
      <4> HIDE DEF site
      <4> QED BY <2>1, <3>1, <3>2, <4>1, <4>2 DEF Ahead
    <3>4. CASE site \notin handler.sinks
      <4>1. performed' = performed /\ ran' = ran \cup {site}
        BY <2>3, <3>4 DEF Perform
      <4> HIDE DEF site
      <4> QED BY <2>1, <3>1, <3>2, <4>1 DEF Ahead
    <3> QED BY <3>3, <3>4
  <2>4. CASE Silent(todo, todo') /\ UNCHANGED <<ran, performed>>
    <3>1. ran \cap C # {} \/ todo' \in Safe(C, x)
      BY <2>1, <2>2, <2>4, SafeStep
    <3> QED BY <2>1, <2>4, <3>1 DEF Ahead
  <2> QED BY <1>3, <2>0, <2>3, <2>4, ExecuteSteps
<1>4. CASE UNCHANGED vars
  BY <1>4 DEF vars, Ahead
<1> QED BY <1>1, <1>2, <1>3, <1>4 DEF Next

LEMMA HandlerInvariant == Spec => []HandlerInv
<1>1. Init => HandlerInv
  BY TypeInvInit DEF Init, HandlerInv, ServingInv, BodyInv, Ahead
<1>2. HandlerInv /\ [Next]_vars => HandlerInv'
  <2> SUFFICES ASSUME HandlerInv, [Next]_vars PROVE HandlerInv'
    OBVIOUS
  <2>1. TypeInv' /\ ServingInv'
    BY TypeInvNext, ServingInvNext DEF HandlerInv
  <2>2. handler' = handler
    BY DEF Next, Analyse, Serve, Execute, vars
  <2>3. ASSUME NEW C, NEW x, handler.body \in Safe(C, x), C \cap handler.sinks = {}
        PROVE  Ahead(C, x)'
    <3>1. Ahead(C, x)
      BY <2>3 DEF HandlerInv, BodyInv
    <3> QED BY <2>3, <3>1, AheadNext DEF HandlerInv
  <2>4. BodyInv'
    BY <2>2, <2>3 DEF BodyInv
  <2> QED BY <2>1, <2>4 DEF HandlerInv
<1> QED BY <1>1, <1>2, PTL DEF Spec
-----------------------------------------------------------------------------
(* The properties *)

\* What precedes an effect that was performed.
LEMMA AboveRan ==
    ASSUME HandlerInv, NEW p \in performed, NEW C, Above(handler, C, p.sink)
    PROVE  p.after \cap C # {}
<1>1. CASE handler.body \in Safe(C, p.sink) /\ C \cap handler.sinks = {}
  BY <1>1 DEF HandlerInv, BodyInv, Ahead
<1>2. CASE C # {} /\ C \subseteq EntryIds(handler)
  BY <1>2 DEF HandlerInv, ServingInv
<1> QED BY <1>1, <1>2 DEF Above

\* The verdict on an effect that was performed.
LEMMA ReportedOf ==
    ASSUME HandlerInv, report # <<>>, NEW p \in performed
    PROVE  /\ handler \in Handlers /\ p.sink \in handler.sinks /\ p.sink \in Int
           /\ report[p.sink] = ReportOn(handler, BuildControlFlow(handler.body), p.sink)
<1>1. handler \in Handlers /\ p.sink \in handler.sinks /\ report = Report(handler)
  BY DEF HandlerInv, TypeInv
<1>2. p.sink \in Int
  BY <1>1, HandlerIs, SourceAssumption DEF Site
<1> QED BY <1>1, <1>2, ReportIs

\* When the evidence says that a guard dominates an effect, no execution of any handler
\* performs the effect before that guard ran, if the line of the guard has nothing but calls
\* that are made and that of the effect no opaque test.
THEOREM DominanceReal == Spec => []DominanceIsReal
<1>1. HandlerInv => DominanceIsReal
  <2> SUFFICES ASSUME HandlerInv, report # <<>>, NEW p \in performed, Distinct(p.sink),
                      NEW c \in report[p.sink].dominating, Strict(c)
               PROVE  c \in p.after
    BY DEF DominanceIsReal
  <2> DEFINE g == BuildControlFlow(handler.body)
             x == p.sink
  <2>0. handler \in Handlers
    BY DEF HandlerInv, TypeInv
  <2>1. x \in Int /\ report[x] = ReportOn(handler, g, x)
    BY <2>0, ReportedOf
  <2>2. c \in handler.helpers /\ c < x /\ DominanceEvidence(g, c, x).dominates
    <3> HIDE DEF g, x
    <3>1. report[x].dominating = DominatingCalls(handler, g, x)
      BY <2>1 DEF ReportOn
    <3> QED BY <3>1 DEF DominatingCalls, x
  <2>3. Clear(SpanIn(handler.body), {c}, x)
    BY DEF Clear, Strict, Distinct
  <2> HIDE DEF g, x
  <2>4. handler.body \in Safe({c}, x)
    BY <2>0, <2>1, <2>2, <2>3, EvidenceSafe DEF g
  <2>5. {c} \cap handler.sinks = {}
    BY <2>0, <2>2, HandlerIs
  <2>6. p.after \cap {c} # {}
    BY <2>4, <2>5, AboveRan DEF Above, x
  <2> QED BY <2>6
<1> QED BY <1>1, HandlerInvariant, PTL

\* When the evidence says that a set of guards covers an effect, every execution of any
\* handler that performs the effect ran one of them before, under the same proviso; an
\* ownership assertion needs none.
THEOREM CutReal == Spec => []CutIsReal
<1>1. HandlerInv => CutIsReal
  <2> SUFFICES ASSUME HandlerInv, report # <<>>, NEW p \in performed, Distinct(p.sink),
                      NEW cut \in report[p.sink].cuts, \A c \in cut \ handler.owners : Strict(c)
               PROVE  cut \cap p.after # {}
    BY DEF CutIsReal
  <2> DEFINE g == BuildControlFlow(handler.body)
             x == p.sink
  <2>0. handler \in Handlers
    BY DEF HandlerInv, TypeInv
  <2>1. x \in Int /\ report[x] = ReportOn(handler, g, x)
    BY <2>0, ReportedOf
  <2>2. /\ CutSetEvidence(g, cut, x).covers
        /\ \A c \in cut : c < x /\ c \in handler.helpers \cup handler.owners
    <3> HIDE DEF g, x
    <3>1. report[x].cuts = CoveringCuts(handler, g, x)
      BY <2>1 DEF ReportOn
    <3> QED BY <3>1 DEF CoveringCuts, CutCandidates, x
  <2> HIDE DEF g
  <2>3. CASE cut \cap handler.owners = {}
    <3>1. Clear(SpanIn(handler.body), cut, x)
      BY <2>3 DEF Clear, Strict, Distinct
    <3> HIDE DEF x
    <3>2. handler.body \in Safe(cut, x)
      BY <2>0, <2>1, <2>2, <3>1, CutSafe DEF g
    <3>3. cut \cap handler.sinks = {}
      BY <2>0, <2>2, HandlerIs
    <3> QED BY <3>2, <3>3, AboveRan DEF Above, x
  <2>4. CASE cut \cap handler.owners # {}
    <3>1. PICK c \in cut : c \in handler.owners
      BY <2>4
    <3> HIDE DEF x
    <3>2. handler.body \in Safe({c}, x) /\ {c} \cap handler.sinks = {}
      BY <2>0, <2>1, <2>2, <3>1, OwnerSafe, HandlerIs
    <3>3. p.after \cap {c} # {}
      BY <3>2, AboveRan DEF Above, x
    <3> QED BY <3>3
  <2> QED BY <2>3, <2>4
<1> QED BY <1>1, HandlerInvariant, PTL

\* What a pass rests on: an effect that passes by a record of its own is performed, by any
\* execution of any handler, only after a guard ran that is effective and authorises the
\* resource, or after one for another resource where an unproved guard names the right one.
THEOREM PassBacked == Spec => []PassIsBacked
<1>1. HandlerInv => PassIsBacked
  <2> SUFFICES ASSUME HandlerInv, report # <<>>, NEW p \in performed,
                      RecordOf(handler, p.sink) = p.sink, report[p.sink].status = "pass"
               PROVE  \/ \E id \in p.after : Authorizes(id)
                      \/ Unproved(p.sink) /\ \E id \in p.after : AuthorizesAnother(id)
    BY DEF PassIsBacked
  <2> DEFINE g == BuildControlFlow(handler.body)
             x == p.sink
  <2>0. handler \in Handlers /\ RecordOf(handler, x) = x
    BY DEF HandlerInv, TypeInv
  <2>1. x \in Int /\ report[x] = ReportOn(handler, g, x)
    BY <2>0, ReportedOf
  <2> HIDE DEF g
  <2>2. Evaluate(handler, g, x) = "pass"
    BY <2>0, <2>1 DEF ReportOn
  <2>3. CASE Vouched(handler, x)
    <3>1. PICK C : Above(handler, C, x) /\ \A c \in C : AuthorizesIn(handler, c)
      BY <2>3 DEF Vouched
    <3>2. p.after \cap C # {}
      BY <3>1, AboveRan
    <3> QED BY <3>1, <3>2 DEF Authorizes, AuthorizesIn
  <2>4. CASE UnprovedIn(handler, x) /\ Elsewhere(handler)
    <3>1. EntryIds(handler) \subseteq p.after
      BY DEF HandlerInv, ServingInv
    <3> QED BY <2>4, <3>1 DEF Elsewhere, UnprovedIn, Unproved, AuthorizesAnother
  <2> QED BY <2>0, <2>1, <2>2, <2>3, <2>4, PassAbove
<1> QED BY <1>1, HandlerInvariant, PTL
=============================================================================
