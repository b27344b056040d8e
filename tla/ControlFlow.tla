----------------------------- MODULE ControlFlow -----------------------------
(***************************************************************************)
(* The control-flow graph of one route handler, as                          *)
(* ovk/compilers/authorization/handler_control_flow builds it.  Dominance   *)
(* has the queries on it.                                                   *)
(*                                                                         *)
(* A handler is a block: a sequence of statements                           *)
(*   [kind |-> "call", site]        a call made as a statement              *)
(*   [kind |-> "lazy", site]        a call that is an operand of and / or,  *)
(*                                  or an arm of a conditional expression   *)
(*   [kind |-> "return", line]      return or raise                         *)
(*   [kind |-> "skip", line]        any other simple statement              *)
(*   [kind |-> "block", body]       for, while, try, with or match          *)
(*   [kind |-> "if", op, split, atoms, body, orelse]                        *)
(* The test of an if is one atom ("plain"), a flat conjunction or           *)
(* disjunction ("and", "or"), a nested one ("opaque") or the ownership      *)
(* assertion, which is opaque too ("owner").  An atom is the set of calls   *)
(* in it; split says that every atom has a line of its own.  A site names   *)
(* a call and its line; sites grow in the order of the source text.  The    *)
(* line of a statement without a call matters only where calls are on it,   *)
(* otherwise it is NoLine.                                                  *)
(***************************************************************************)
EXTENDS Dominance

CONSTANTS
    Lines,      \* the last line of a source file
    Size        \* bounds how far into a block a statement is: one step after the
                \* statement before it, one into the statement around it

NoLine == 0
Site == 1..Lines

ASSUME SourceAssumption == Lines \in Nat /\ Size \in Nat

Statements(inner) ==
    [kind : {"call", "lazy"}, site : Site]
      \cup [kind : {"return", "skip"}, line : Site \cup {NoLine}]
      \cup [kind : {"block"}, body : inner]
      \cup [kind : {"if"}, op : {"plain", "and", "or", "opaque", "owner"}, split : BOOLEAN,
            atoms : Seq(SUBSET Site) \ {<<>>}, body : inner, orelse : inner]

Blocks[k \in Nat] ==
    IF k = 0 THEN {<<>>}
    ELSE {b \in Seq(Statements(Blocks[k - 1])) : b # <<>> => Tail(b) \in Blocks[k - 1]}

TestSites(s) == UNION {s.atoms[i] : i \in DOMAIN s.atoms}

\* A test with operands that are not told apart.
IsOpaque(s) == s.op \in {"opaque", "owner"}

\* What one statement has on which line: a call that is made whenever the statement is
\* executed, a lazy one, one in an opaque test, or no call.
On(lines, how) == [line : lines, how : {how}]
SpanOf(within, s) ==
    CASE s.kind \in {"call", "lazy"} -> On({s.site}, s.kind)
      [] s.kind = "block"            -> within[s.body]
      [] s.kind = "if"               -> On(TestSites(s), IF IsOpaque(s) THEN "opaque" ELSE "call")
                                          \cup within[s.body] \cup within[s.orelse]
      [] OTHER                       -> On({s.line} \cap Site, "none")

SpanWithin[k \in Nat] ==
    [b \in Blocks[k] |->
        IF b = <<>> THEN {}
        ELSE SpanOf(SpanWithin[k - 1], Head(b)) \cup SpanWithin[k - 1][Tail(b)]]

SpanIn(block) == SpanWithin[Size][block]

\* The lines of a block or a statement, and those of its calls.
LinesOf(s) == {l.line : l \in SpanOf(SpanWithin[Size], s)}
CallsOn(span) == {l.line : l \in {m \in span : m.how # "none"}}
SitesIn(block) == CallsOn(SpanIn(block))
SitesOf(s) == CallsOn(SpanOf(SpanWithin[Size], s))

-----------------------------------------------------------------------------
(* The graph.  Nodes are numbered in the order of their allocation; the      *)
(* builder stands at the last node that falls through, if any, with the      *)
(* label of the edge that will leave it.                                     *)

Graphs == [nodes : Seq([kind : {"exit", "entry", "statement", "branch", "return"},
                        sites : SUBSET Site, partial : BOOLEAN, opaque : BOOLEAN]),
           edges : SUBSET [from : Nat, to : Nat, label : {"none", "true", "false"}]]
Builders == [graph : Graphs, last : Nat, label : {"none", "true", "false"}]

At(g, last, label) == [graph |-> g, last |-> last, label |-> label]
Node(kind, sites) == [kind |-> kind, sites |-> sites, partial |-> FALSE, opaque |-> FALSE]
Edge(from, to, label) == [from |-> from, to |-> to, label |-> label]

\* A node after the ones at which some arms end.
AddAfter(arms, g, node) ==
    LET new == Len(g.nodes) + 1
    IN  At([nodes |-> Append(g.nodes, node),
            edges |-> g.edges \cup {Edge(a.last, new, a.label) : a \in arms}], new, "none")

Add(at, node) == AddAfter({at}, at.graph, node)

Finish(at) ==
    At([at.graph EXCEPT !.edges = @ \cup {Edge(at.last, Exit, "none")}], NoNode, "none")

\* The join of the arms that fall through, if any does.
Join(g, ends) ==
    LET arms == {a \in ends : a.last # NoNode}
    IN  IF arms = {} THEN At(g, NoNode, "none") ELSE AddAfter(arms, g, Node("statement", {}))

\* Both arms of a test; statements after one that never falls through are not linked.
\* An arm without statements ends where it begins.
LinkArms(link, s, g, true, false) ==
    LET body   == link[s.body][At(g, true.last, true.label)]
        orelse == link[s.orelse][At(body.graph, false.last, false.label)]
    IN  Join(orelse.graph, {body, orelse})

LinkIf(link, at, s) ==
    LET test == Add(at, [Node("branch", TestSites(s)) EXCEPT !.opaque = IsOpaque(s)])
    IN  LinkArms(link, s, test.graph, [test EXCEPT !.label = "true"], [test EXCEPT !.label = "false"])

\* Mutant: every operand of a short-circuit test is evaluated.
LinkShortCircuitIf_Strict(link, at, s) ==
    LinkIf(link, Add(at, Node("statement", TestSites(s))), [s EXCEPT !.atoms = <<{}>>])

\* One branch per operand; a true operand of "or", a false one of "and", skips
\* the operands after it.
LinkShortCircuitIf(link, at, s) ==
    LET g       == at.graph
        n       == Len(s.atoms)
        operand(i) == Len(g.nodes) + i
        onTrue  == operand(n + 1)
        onFalse == operand(n + 2)
        go      == IF s.op = "or" THEN "false" ELSE "true"
        leave   == IF s.op = "or" THEN "true" ELSE "false"
        out     == IF s.op = "or" THEN onTrue ELSE onFalse
        through == IF s.op = "or" THEN onFalse ELSE onTrue
        test    == [nodes |-> g.nodes
                      \o [i \in 1..n |-> Node("branch", IF s.split THEN s.atoms[i] ELSE TestSites(s))]
                      \o <<Node("statement", {}), Node("statement", {})>>,
                    edges |-> g.edges
                      \cup {Edge(at.last, operand(1), at.label), Edge(operand(n), through, go)}
                      \cup {Edge(operand(i), operand(i + 1), go) : i \in 1..(n - 1)}
                      \cup {Edge(operand(i), out, leave) : i \in 1..n}]
    IN  LinkArms(link, s, test, At(test, onTrue, "none"), At(test, onFalse, "none"))

\* A statement that is known in part: loops and handlers are not unfolded.
IsPartial(s) == s.kind = "block"

LinkStatement(link, at, s) ==
    CASE s.kind = "if" /\ s.op \in {"and", "or"} -> LinkShortCircuitIf(link, at, s)
      [] s.kind = "if" /\ s.op \notin {"and", "or"} -> LinkIf(link, at, s)
      [] s.kind = "return" -> Finish(Add(at, Node("return", LinesOf(s))))
      [] OTHER -> Add(at, [Node("statement", LinesOf(s)) EXCEPT !.partial = IsPartial(s)])

LinkBlocks[k \in Nat] ==
    [block \in Blocks[k] |-> [at \in Builders |->
        IF block = <<>> \/ at.last = NoNode THEN at
        ELSE LinkBlocks[k - 1][Tail(block)][LinkStatement(LinkBlocks[k - 1], at, Head(block))]]]

\* build(): the exit and the entry are allocated first.
BuildControlFlow(body) ==
    LET empty == [nodes |-> <<Node("exit", {}), Node("entry", {})>>, edges |-> {}]
        all   == LinkBlocks[Size][body][At(empty, Entry, "none")]
    IN  IF all.last = NoNode THEN all.graph ELSE Finish(all).graph
=============================================================================
