------------------------------- MODULE Handler -------------------------------
(***************************************************************************)
(* What the protected-effect analysis says of a FastAPI route handler, and  *)
(* what the handler then does with a request.  Analyse is                    *)
(* ovk/compilers/authorization/fastapi_semantic_fragment                     *)
(* (bind_route_file_summary) followed by the evaluation of Integrity; the    *)
(* actions after it are the Python interpreter, which runs the handler the   *)
(* analysis only looked at.                                                  *)
(*                                                                           *)
(* A handler is                                                              *)
(*   body      its statements, see ControlFlow                               *)
(*   helpers   the sites of calls of body authorization helpers, none of which *)
(*             is ever proved to refuse (body_helper_contracts)                *)
(*   owners    the sites of ownership assertions, top-level ifs               *)
(*   sinks     the sites that perform the protected effect                    *)
(*   static    do the sinks act on one resource the profile names?            *)
(*   dep       a Depends parameter that authorises another resource: "none",  *)
(*             or the verdict on the binding of that resource to this one     *)
(*   route     a dependency of the route itself: "none", "proved" or          *)
(*             "unproved" for the static resource, "other" for another one    *)
(***************************************************************************)
EXTENDS ControlFlow, Integrity

CONSTANT Handlers

\* Every call is a guard or a sink: others are left out.  Only tests of the handler's own
\* block are searched for ownership assertions, and what is above one has smaller lines.
IsHandler(h) ==
    /\ DOMAIN h = {"body", "helpers", "owners", "sinks", "static", "dep", "route"}
    /\ h.body \in Blocks[Size]
    /\ h.static \in BOOLEAN
    /\ h.dep \in {"none", "pass", "fail", "unknown"}
    /\ h.route \in {"none", "proved", "unproved", "other"}
    /\ SitesIn(h.body) \subseteq h.helpers \cup h.owners \cup h.sinks
    /\ h.helpers \cup h.owners \cup h.sinks \subseteq Site
    /\ h.sinks \cap (h.helpers \cup h.owners) = {}
    /\ \A c \in h.owners : \E i \in DOMAIN h.body :
          /\ h.body[i].kind = "if" /\ h.body[i].op = "owner" /\ c \in TestSites(h.body[i])
          /\ \A j \in 1..(i - 1) : \A r \in SitesOf(h.body[j]) : r < c

ASSUME HandlersAssumption == \A h \in Handlers : IsHandler(h)

VARIABLES
    handler,    \* the source under analysis
    report,     \* per sink, the verdict with its evidence; <<>> before Analyse
    serving,    \* has a request arrived?
    todo,       \* the statements that are left to execute
    ran,        \* the guards that ran, and let the request go on
    performed   \* the effects: a sink, and the guards that had run by then

vars == <<handler, report, serving, todo, ran, performed>>

-----------------------------------------------------------------------------
(* The binder *)

Dep == 0
RouteDep == -1

Guard(id, effective, exact, binding, evidence) ==
    [id |-> id, effective |-> effective, exact |-> exact,
     binding |-> binding, evidence |-> evidence]

\* Only a call on an earlier line is considered.  A helper that is not proved to refuse
\* is a guard of unknown effect, and no dominance evidence is built for it.
HelperGuards(h, sink) ==
    {Guard(c, FALSE, TRUE, "none", NoDominanceEvidence) : c \in {d \in h.helpers : d < sink}}

\* An ownership assertion ends the request unless it holds.
OwnerGuards(h, sink) ==
    {Guard(c, TRUE, TRUE, "none", NoDominanceEvidence) : c \in {d \in h.owners : d < sink}}

\* Entry guards run before the body and have no node in it.
EntryGuards(h) ==
    {Guard(Dep, TRUE, FALSE, b, NoDominanceEvidence) : b \in {h.dep} \ {"none"}}
      \cup {Guard(RouteDep, r # "unproved", r # "other", "none", NoDominanceEvidence) :
              r \in {h.route} \ {"none"}}

Guards(h, sink) == HelperGuards(h, sink) \cup OwnerGuards(h, sink) \cup EntryGuards(h)

\* Ownership assertions; a helper would have to be proved.
CutCandidates(h, sink) == {c \in h.owners : c < sink}

\* A route dependency for the resource waives the coverage of the body.
LocallyComplete(h, g, sink) ==
    LET nodes == {n \in DOMAIN g.nodes : sink \in g.nodes[n].sites}
    IN  \/ h.route \in {"proved", "unproved"}
        \/ nodes # {} /\ \A n \in nodes : CoverageAuthoritative(g, n)
        \/ \A n \in DOMAIN g.nodes : ~g.nodes[n].partial

\* One protected effect, evaluated.
Evaluate(h, g, sink) ==
    OverallStatus(Guards(h, sink), CutSetEvidence(g, CutCandidates(h, sink), sink),
                  LocallyComplete(h, g, sink))

\* Sinks on one static resource are one protected effect, and every record of it
\* is keyed without the line: the last one is what is left.
RecordOf(h, sink) ==
    IF h.static THEN CHOOSE s \in h.sinks : \A r \in h.sinks : r <= s ELSE sink

\* What the two evidence functions answer for the calls before a sink, whoever asks.  The
\* binder asks the first one of proved helpers only, so of none, and the second one of
\* the ownership assertions, to which it would add proved helpers.
DominatingCalls(h, g, sink) ==
    {c \in h.helpers : c < sink /\ DominanceEvidence(g, c, sink).dominates}
CoveringCuts(h, g, sink) ==
    {c \in {CutCandidates(h, sink), CutCandidates(h, sink) \cup {d \in h.helpers : d < sink}} :
        CutSetEvidence(g, c, sink).covers}

ReportOn(h, g, sink) ==
    [status |-> Evaluate(h, g, RecordOf(h, sink)),
     dominating |-> DominatingCalls(h, g, sink), cuts |-> CoveringCuts(h, g, sink)]

\* Mutant: every sink of a handler has one key.
Report_Last(h) ==
    LET last == CHOOSE s \in h.sinks : \A r \in h.sinks : r <= s
        g    == BuildControlFlow(h.body)
    IN  [s \in {last} |-> ReportOn(h, g, s)]

Report(h) ==
    LET g == BuildControlFlow(h.body) IN [s \in h.sinks |-> ReportOn(h, g, s)]

Init ==
    /\ handler \in Handlers
    /\ report = <<>> /\ serving = FALSE
    /\ todo = <<>> /\ ran = {} /\ performed = {}

Analyse ==
    /\ report = <<>>
    /\ report' = Report(handler)
    /\ UNCHANGED <<handler, serving, todo, ran, performed>>

-----------------------------------------------------------------------------
(* The interpreter *)

\* FastAPI runs the dependencies first.
Serve ==
    /\ report # <<>> /\ ~serving
    /\ serving' = TRUE
    /\ todo' = handler.body
    /\ ran' = {d.id : d \in EntryGuards(handler)}
    /\ UNCHANGED <<handler, report, performed>>

\* A guard that returns authorised the request; one that does not raises.
Perform(site) ==
    /\ todo' = Tail(todo)
    /\ IF site \in handler.sinks
       THEN performed' = performed \cup {[sink |-> site, after |-> ran]} /\ UNCHANGED ran
       ELSE ran' = ran \cup {site} /\ UNCHANGED performed

Call == Head(todo).kind \in {"call", "lazy"} /\ Perform(Head(todo).site)

\* An operand that the operators before it make superfluous, a statement without
\* a call.
Skip ==
    /\ Head(todo).kind \in {"lazy", "skip"}
    /\ todo' = Tail(todo)
    /\ UNCHANGED <<ran, performed>>

\* return, a raise of the handler's own or of a guard that refuses.
Leave ==
    /\ todo' = <<>>
    /\ UNCHANGED <<ran, performed>>

\* The calls of a test as statements, in the order of the text.
Calls(sites) ==
    {q \in [1..Cardinality(sites) -> [kind : {"call"}, site : sites]] :
        /\ {q[i].site : i \in DOMAIN q} = sites
        /\ \A i, j \in DOMAIN q : i < j => q[i].site < q[j].site}

\* The calls a test makes, and what it comes to.
Outcomes(s) ==
    LET n == Len(s.atoms)
        upTo(i) == UNION {s.atoms[j] : j \in 1..i}
        stops == s.op = "or"
    IN  CASE s.op \in {"and", "or"} ->
               {[calls |-> upTo(i), truth |-> stops] : i \in 1..n}
                 \cup {[calls |-> upTo(n), truth |-> ~stops]}
          [] s.op = "opaque" -> [calls : SUBSET TestSites(s), truth : BOOLEAN]
          [] OTHER           -> [calls : {TestSites(s)}, truth : BOOLEAN]

Test ==
    /\ Head(todo).kind = "if"
    /\ \E o \in Outcomes(Head(todo)) : \E calls \in Calls(o.calls) :
          todo' = calls \o (IF o.truth THEN Head(todo).body ELSE Head(todo).orelse) \o Tail(todo)
    /\ UNCHANGED <<ran, performed>>

\* A round of a loop, a try that is left in the middle, a case that matches; or
\* no more of it.
Compound ==
    /\ Head(todo).kind = "block"
    /\ \E n \in 0..Len(Head(todo).body) :
          \/ todo' = SubSeq(Head(todo).body, 1, n) \o todo
          \/ todo' = SubSeq(Head(todo).body, 1, n) \o Tail(todo)
    /\ UNCHANGED <<ran, performed>>

Execute ==
    /\ todo # <<>>
    /\ \/ Call
       \/ Skip
       \/ Leave
       \/ Head(todo).kind # "return" /\ (Test \/ Compound)
    /\ UNCHANGED <<handler, report, serving>>

Next == Analyse \/ Serve \/ Execute

Spec == Init /\ [][Next]_vars

-----------------------------------------------------------------------------
(* Properties *)

Status == {"pass", "fail", "unknown"}

\* The edges of the graph join nodes of it, and every sink of an analysed handler has a
\* verdict and evidence over guards of the handler.
TypeOK ==
    LET guards == handler.helpers \cup handler.owners
        sites  == guards \cup {Dep, RouteDep}
    IN  /\ serving \in BOOLEAN
        /\ report = <<>> => IsGraph(BuildControlFlow(handler.body))
        /\ \/ report = <<>>
           \/ report \in [handler.sinks -> [status : Status, dominating : SUBSET handler.helpers,
                                            cuts : SUBSET SUBSET guards]]
        /\ ran \subseteq sites
        /\ performed \subseteq [sink : handler.sinks, after : SUBSET sites]

\* A guard whose line has nothing but calls that are made whenever it is executed: of some
\* of the others the evidence says what is not so.  A sink on no line of an opaque test,
\* whose node stands for the calls of the test and not for their order.
Strict(site) == \A l \in SpanIn(handler.body) : l.line = site => l.how = "call"
Distinct(sink) == \A l \in SpanIn(handler.body) : l.line = sink => l.how # "opaque"

\* When build_guard_dominance_evidence says that a guard dominates an effect, no execution
\* performs the effect before that guard ran.
DominanceIsReal ==
    report # <<>> =>
        \A p \in performed : Distinct(p.sink) =>
            \A c \in report[p.sink].dominating : Strict(c) => c \in p.after

\* When build_authorization_cut_set_evidence says that a set of guards covers an effect,
\* every execution that performs the effect ran one of them before.
CutIsReal ==
    report # <<>> =>
        \A p \in performed : Distinct(p.sink) =>
            \A cut \in report[p.sink].cuts :
                (\A c \in cut \ handler.owners : Strict(c)) => cut \cap p.after # {}

Authorizes(id) ==
    \/ id \in handler.owners
    \/ id = Dep /\ handler.dep = "pass"
    \/ id = RouteDep /\ handler.route = "proved"

\* An effective guard, of another resource; a guard of this one that proves nothing.
AuthorizesAnother(id) ==
    \/ id = Dep /\ handler.dep \in {"fail", "unknown"}
    \/ id = RouteDep /\ handler.route = "other"
Unproved(sink) == handler.route = "unproved" \/ \E c \in handler.helpers : c < sink

\* What a pass rests on: an effect that passes by a record of its own is performed only after
\* a guard ran that is effective and authorises the resource acted on, or after one that is
\* effective for another resource, where an unproved guard names the right one.
PassIsBacked ==
    report # <<>> =>
        \A p \in performed :
            RecordOf(handler, p.sink) = p.sink /\ report[p.sink].status = "pass" =>
                \/ \E id \in p.after : Authorizes(id)
                \/ Unproved(p.sink) /\ \E id \in p.after : AuthorizesAnother(id)

\* Performed => Authorized, as the integrity module words its claim: an effect that passes
\* is performed only after one guard ran that is effective and authorises the resource.
PassIsAuthorized ==
    report # <<>> =>
        \A p \in performed :
            report[p.sink].status = "pass" => \E id \in p.after : Authorizes(id)
=============================================================================
