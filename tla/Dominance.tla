------------------------------ MODULE Dominance ------------------------------
(***************************************************************************)
(* What is asked of the control-flow graph of a handler, translated from    *)
(* ovk/compilers/authorization: reachability and dominators                 *)
(* (handler_control_flow), binding a call to a node (guard_cfg_dominance)   *)
(* and collective coverage of a sink (authorization_cut_set).  ControlFlow  *)
(* builds the graphs.                                                       *)
(*                                                                         *)
(* A graph has nodes, numbered, each [kind, sites, partial, opaque], and    *)
(* edges [from, to, label].  The worklists of the code end when there is    *)
(* nothing left to add, its loop over dominators when nothing changed.      *)
(***************************************************************************)
EXTENDS Integers, Sequences, FiniteSets

Exit == 1
Entry == 2
NoNode == 0

IsGraph(g) ==
    /\ Len(g.nodes) \in Nat /\ DOMAIN g.nodes = 1..Len(g.nodes)
    /\ Entry \in DOMAIN g.nodes
    /\ IsFiniteSet(g.edges)
    /\ \A e \in g.edges : {e.from, e.to} \subseteq DOMAIN g.nodes

-----------------------------------------------------------------------------
(* Reachability and dominators *)

Successors(edges, S) == S \cup {e.to : e \in {d \in edges : d.from \in S}}

Closure(edges, S) ==
    LET grown[T \in SUBSET (S \cup {e.to : e \in edges})] ==
            LET next == Successors(edges, T) IN IF next = T THEN T ELSE grown[next]
    IN  grown[S]

Reversed(edges) == {[from |-> e.to, to |-> e.from] : e \in edges}

ReachableFrom(g, n) == Closure(g.edges, {n})
NodesReaching(g, n) == Closure(Reversed(g.edges), {n})

\* One round over all nodes.
RefineDominators(g, dom) ==
    LET preds(n) == {e.from : e \in {d \in g.edges : d.to = n}} \cap DOMAIN dom
    IN  [n \in DOMAIN dom |->
           IF n = Entry THEN {n}
           ELSE {n} \cup {m \in DOMAIN dom : \A p \in preds(n) : m \in dom[p]}]

ComputeDominators(g) ==
    LET reach == ReachableFrom(g, Entry)
        refined[dom \in [reach -> SUBSET reach]] ==
            LET next == RefineDominators(g, dom) IN IF next = dom THEN dom ELSE refined[next]
    IN  refined[[n \in reach |-> IF n = Entry THEN {n} ELSE reach]]

Dominates(g, d, n) == n \in ReachableFrom(g, Entry) /\ d \in ComputeDominators(g)[n]

\* No partial node on a way from the entry to the sink.
CoverageAuthoritative(g, sink) ==
    LET region == NodesReaching(g, sink) \cap ReachableFrom(g, Entry)
    IN  sink \in region /\ \A n \in region : ~g.nodes[n].partial

\* The one node that covers the line of a call, or none.
ResolveNode(g, site, allowOpaque) ==
    LET covering == {n \in DOMAIN g.nodes :
                        site \in g.nodes[n].sites /\ (g.nodes[n].opaque => allowOpaque)}
    IN  IF Cardinality(covering) = 1 THEN CHOOSE n \in covering : TRUE ELSE NoNode

-----------------------------------------------------------------------------
(* Evidence *)

\* build_guard_dominance_evidence.
DominanceEvidence(g, guard, effect) ==
    LET guardNode  == ResolveNode(g, guard, FALSE)
        effectNode == ResolveNode(g, effect, FALSE)
        complete   == effectNode # NoNode /\ CoverageAuthoritative(g, effectNode)
    IN  [present   |-> TRUE,
         complete  |-> complete,
         bound     |-> guardNode # NoNode /\ effectNode # NoNode,
         dominates |-> complete /\ guardNode # NoNode /\ Dominates(g, guardNode, effectNode)]

SinkReaching(g, n, sink) ==
    {e \in g.edges : e.from = n /\ sink \in ReachableFrom(g, e.to)}

\* A branch is a control point by its only outcome that leads to the sink.
AmbiguousBranch(g, n, sink) ==
    g.nodes[n].kind = "branch" /\ Cardinality(SinkReaching(g, n, sink)) # 1

CutNodes(g, bound, sink) == {n \in bound : g.nodes[n].kind # "branch"}
CutEdges(g, bound, sink) ==
    UNION {SinkReaching(g, n, sink) : n \in {m \in bound : g.nodes[m].kind = "branch"}}

\* Mutant: the search for a way around the cut forgets the false outcomes.
Disconnected_TrueOnly(g, nodes, edges, sink) ==
    sink \notin Closure({e \in g.edges \ edges : e.to \notin nodes /\ e.label # "false"}, {Entry})

\* Is every path from the entry to the sink cut?
Disconnected(g, nodes, edges, sink) ==
    sink \notin Closure({e \in g.edges \ edges : e.to \notin nodes}, {Entry})

\* build_authorization_cut_set_evidence over the candidate guards, which may bind
\* to an opaque branch.
CutSetEvidence(g, candidates, effect) ==
    LET sink == ResolveNode(g, effect, FALSE)
        bound == {ResolveNode(g, c, TRUE) : c \in candidates}
        resolved == /\ sink # NoNode /\ NoNode \notin bound
                    /\ \A n \in bound : ~AmbiguousBranch(g, n, sink)
    IN  [guards |-> candidates,
         covers |-> /\ resolved /\ candidates # {}
                    /\ sink \notin bound
                    /\ sink \in ReachableFrom(g, Entry)
                    /\ CoverageAuthoritative(g, sink)
                    /\ Disconnected(g, CutNodes(g, bound, sink), CutEdges(g, bound, sink), sink)]
=============================================================================
