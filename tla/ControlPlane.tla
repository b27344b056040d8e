---------------------------- MODULE ControlPlane ----------------------------
(***************************************************************************)
(* Kernel runs over one head revision: a policy is read, every obligation   *)
(* of the change is evaluated in a thread pool, by the legacy lane          *)
(* evaluator or by the control plane, and the evidence is bundled into the  *)
(* verdict.  Translated from ovk/core/kernel.py, authoritative_runtime.py,  *)
(* adapter_runtime.py and backend_control_plane.py.                         *)
(*                                                                         *)
(* Runs follow one another and share two caches on disk: the legacy flat    *)
(* evidence cache and the control plane's result cache.  Both are atomic    *)
(* maps here; ResultCache models the files of the second.                   *)
(***************************************************************************)
EXTENDS Evidence

CONSTANTS
    Obligation,      \* the obligations of the change
    Changes,         \* sets of obligations a run may have compiled
    Acceptable,      \* [Obligation -> set of acceptable guarantees]
    Covered,         \* obligations whose coverage permits a strict allow
    SelfProtection,  \* obligations of the self_protection lane
    Environment,     \* what the adapters' fingerprints can tell apart
    Policies,        \* repository policies a run may read
    PoolSize,        \* threads of the pool
    MaxRuns          \* bound on the number of runs

RoutingMode == {"legacy", "shadow", "enforced"}

\* A repository policy, with the route it leads to: routing_id names the route,
\* selected gives each obligation its selections.
PolicyType ==
    [mode : RoutingMode, enforced : SUBSET Obligation, aggregation : AggregationPolicies \cup {"other"},
     allow_fallback : BOOLEAN, on_unknown : {"needs_review", "block"},
     routing_id : STRING, selected : [Obligation -> SUBSET [backend : Backend, required : BOOLEAN]]]

ASSUME ControlPlaneAssumption ==
    /\ Changes \subseteq SUBSET Obligation
    /\ DOMAIN Acceptable = Obligation
    /\ Covered \subseteq Obligation
    /\ SelfProtection \subseteq Obligation
    /\ Policies \subseteq PolicyType
    /\ PoolSize \in Nat \ {0}
    /\ MaxRuns \in Nat

\* The router selects at most one required backend and one corroborator, once
\* each, and a required one only with an acceptable guarantee.
WellFormedRoute(o, selected) ==
    /\ \A s, t \in selected : (s.backend = t.backend \/ s.required = t.required) => s = t
    /\ \A s \in selected :
          s.required => Acceptable[o] = {} \/ GuaranteeOf[s.backend] \in Acceptable[o]

ASSUME RouterAssumption ==
    \A p \in Policies, o \in Obligation : WellFormedRoute(o, p.selected[o])

VARIABLES
    phase,      \* "idle", "executing" or "finished"
    runs,       \* runs started
    policy,     \* policy of the run
    env,        \* environment of the run
    trusted,    \* is the self-protection metadata of the run trusted
    active,     \* obligations of the run
    pc,         \* [Obligation -> "idle", "queued", "executing", "done", "raised"]
    todo,       \* [Obligation -> selections still to execute]
    results,    \* [Obligation -> results so far]
    evidence,   \* [Obligation -> evidence item or NoEvidence]
    verdict,    \* the bundle's decision, NoVerdict or Raised
    resultCache,\* entries [key, status, termination] of the control plane's cache
    flatCache,  \* entries [obligation, status] of the legacy flat cache
    reported    \* history: what adapters reported, [run, key, status, termination, envelope]

run == <<phase, runs, policy, env, trusted, active>>
vars == <<run, pc, todo, results, evidence, verdict, resultCache, flatCache, reported>>

NoEvidence == [id |-> Absent]
NoVerdict == [state |-> "none", original |-> "none", controlling |-> {}, recommendation |-> "none"]
Raised == [NoVerdict EXCEPT !.state = "raised"]

Enforced(o) == o \in policy.enforced

\* Mutant: corroborators follow a required selection only.
Turn_RequiredOnly(o) == {s \in todo[o] : s.required \/ results[o] # {}}

\* A required selection goes first; corroborators follow.
Turn(o) == {s \in todo[o] : s.required \/ Required(todo[o]) = {}}

\* The part of the cache identity that two runs over one revision can differ in.
\* Whether its metadata is trusted is bound into a self-protection obligation.
Key(o, s) == [obligation |-> o, metadata |-> o \in SelfProtection => trusted,
              routing_id |-> policy.routing_id, backend |-> s.backend, env |-> env]

Entry(key, report) ==
    [key |-> key, status |-> report.status, termination |-> report.termination]

\* Mutant: the route is not part of the identity.
Lookup_AnyRoute(key) ==
    {e \in resultCache : e.key.obligation = key.obligation /\ e.key.backend = key.backend}

Lookup(key) == {e \in resultCache : e.key = key}

Result(s, status, termination) ==
    [backend |-> s.backend, status |-> status,
     guarantee |-> GuaranteeOf[s.backend], termination |-> termination]

-----------------------------------------------------------------------------
Init ==
    /\ phase = "idle" /\ runs = 0
    /\ policy \in Policies /\ env \in Environment /\ trusted \in BOOLEAN
    /\ active = {}
    /\ pc = [o \in Obligation |-> "idle"]
    /\ todo = [o \in Obligation |-> {}]
    /\ results = [o \in Obligation |-> {}]
    /\ evidence = [o \in Obligation |-> NoEvidence]
    /\ verdict = NoVerdict
    /\ resultCache = {} /\ flatCache = {} /\ reported = {}

\* execute_kernel up to the pool.  A policy that asks for a cross-backend fallback,
\* broad or by rule, is refused for the whole run; a change without obligations is
\* not executed.
StartRun ==
    /\ phase # "executing" /\ runs < MaxRuns
    /\ runs' = runs + 1
    /\ policy' \in Policies /\ env' \in Environment /\ trusted' \in BOOLEAN
    /\ active' \in Changes
    /\ todo' = [o \in Obligation |-> {}]
    /\ results' = [o \in Obligation |-> {}]
    /\ evidence' = [o \in Obligation |-> NoEvidence]
    /\ IF policy'.allow_fallback /\ active' # {}
       THEN /\ phase' = "finished" /\ verdict' = Raised
            /\ pc' = [o \in Obligation |-> "idle"]
       ELSE /\ phase' = "executing" /\ verdict' = NoVerdict
            /\ pc' = [o \in Obligation |-> IF o \in active' THEN "queued" ELSE "idle"]
    /\ UNCHANGED <<resultCache, flatCache, reported>>

\* A thread of the pool is free to take an obligation.
MayBegin(o) ==
    /\ phase = "executing" /\ pc[o] = "queued"
    /\ Cardinality({p \in Obligation : pc[p] = "executing"}) < PoolSize

UsesFlatCache == policy.mode = "legacy"
FlatHits(o) == {e \in flatCache : UsesFlatCache /\ e.obligation = o}

\* _evaluate_obligation: the flat cache is asked first, whatever the lane.
ReplayFlat(o) ==
    /\ MayBegin(o)
    /\ \E e \in FlatHits(o) :
          evidence' = [evidence EXCEPT ![o] = LegacyEvidence(o, e.status)]
    /\ pc' = [pc EXCEPT ![o] = "done"]
    /\ UNCHANGED <<run, todo, results, verdict, resultCache, flatCache, reported>>

\* An enforced lane is executed by the control plane.
BeginEnforced(o) ==
    /\ MayBegin(o) /\ FlatHits(o) = {} /\ Enforced(o)
    /\ pc' = [pc EXCEPT ![o] = "executing"]
    /\ todo' = [todo EXCEPT ![o] = policy.selected[o]]
    /\ UNCHANGED <<run, results, evidence, verdict, resultCache, flatCache, reported>>

\* Any other lane is evaluated by its legacy evaluator.  The shadow execution
\* beside it only attaches a comparison: its obligation has an identity of its
\* own, so what it caches is never looked up here.
EvaluateLegacy(o, status) ==
    /\ MayBegin(o) /\ FlatHits(o) = {} /\ ~Enforced(o)
    /\ evidence' = [evidence EXCEPT ![o] = LegacyEvidence(o, status)]
    /\ flatCache' = IF UsesFlatCache
                    THEN flatCache \cup {[obligation |-> o, status |-> status]}
                    ELSE flatCache
    /\ pc' = [pc EXCEPT ![o] = "done"]
    /\ UNCHANGED <<run, todo, results, verdict, resultCache, reported>>

\* The evaluator refuses its input, or the flat cache cannot be written.
LegacyRaises(o) ==
    /\ MayBegin(o) /\ FlatHits(o) = {} /\ ~Enforced(o)
    /\ pc' = [pc EXCEPT ![o] = "raised"]
    /\ UNCHANGED <<run, todo, results, evidence, verdict, resultCache, flatCache, reported>>

-----------------------------------------------------------------------------
\* One selection of an executing obligation yields one result.
Yield(o, s, result) ==
    /\ todo' = [todo EXCEPT ![o] = @ \ {s}]
    /\ results' = [results EXCEPT ![o] = @ \cup {result}]
    /\ UNCHANGED <<run, pc, evidence, verdict, flatCache>>

Record(o, s, report) ==
    reported' = reported \cup {[run |-> runs, key |-> Key(o, s), status |-> report.status,
                                termination |-> report.termination,
                                envelope |-> report.envelope]}

\* A stored result replaces the execution.
ReplayResult(o, s) ==
    /\ pc[o] = "executing" /\ s \in Turn(o)
    /\ \E e \in Lookup(Key(o, s)) : Yield(o, s, Result(s, e.status, e.termination))
    /\ UNCHANGED <<resultCache, reported>>

\* run(), normalize(), and put() when an envelope was delivered.
Execute(o, s, report) ==
    /\ pc[o] = "executing" /\ s \in Turn(o)
    /\ Yield(o, s, Result(s, report.status, report.termination))
    /\ Lookup(Key(o, s)) = {}
    /\ Record(o, s, report)
    /\ resultCache' = IF report.envelope
                      THEN resultCache \cup {Entry(Key(o, s), report)}
                      ELSE resultCache

\* put() raises after the evaluator delivered: the boundary reports the tool
\* error, and the delivered status is lost.
StoreFails(o, s, report) ==
    /\ pc[o] = "executing" /\ s \in Turn(o)
    /\ report.envelope /\ Yield(o, s, Result(s, "error", "tool_error"))
    /\ Lookup(Key(o, s)) = {}
    /\ Record(o, s, report)
    /\ UNCHANGED resultCache

\* Any exception before that: registry, compiler, fingerprint, cache read, run.
BoundaryError(o, s) ==
    /\ pc[o] = "executing" /\ s \in Turn(o)
    /\ Yield(o, s, Result(s, "error", "tool_error"))
    /\ UNCHANGED <<resultCache, reported>>

\* The compiler's guarantee is not the one the route expects: nothing is run.
GuaranteeMismatch(o, s) ==
    /\ pc[o] = "executing" /\ s \in Turn(o)
    /\ Yield(o, s, Result(s, "unknown", "invalid_output"))
    /\ UNCHANGED <<resultCache, reported>>

AggregateOf(o) ==
    AggregateResults(policy.selected[o], results[o], Acceptable[o], FallbackOff)

\* The evidence of an enforced obligation, with the self-protection override.
EvidenceOf(o) ==
    LET e == ExecutionRecordToEvidence(o, policy.selected[o], results[o],
                                       AggregateOf(o), o \in Covered)
    IN  IF o \in SelfProtection /\ ~trusted THEN WithdrawUntrustedAllow(e) ELSE e

\* Every selection has its result: aggregate and project, or raise when the
\* configured aggregation policy does not exist.
Finish(o) ==
    /\ pc[o] = "executing" /\ todo[o] = {}
    /\ IF policy.aggregation \in AggregationPolicies
       THEN /\ pc' = [pc EXCEPT ![o] = "done"]
            /\ evidence' = [evidence EXCEPT ![o] = EvidenceOf(o)]
       ELSE /\ pc' = [pc EXCEPT ![o] = "raised"]
            /\ UNCHANGED evidence
    /\ UNCHANGED <<run, todo, results, verdict, resultCache, flatCache, reported>>

-----------------------------------------------------------------------------
BundlePolicy == [mode |-> "strict", on_unknown |-> policy.on_unknown, on_skip |-> "skipped"]

Bundle ==
    IF active = {} THEN {CompilationFailure} ELSE {evidence[o] : o \in active}

\* Mutant: a thread that raised is left out of the bundle.
Conclude_DropsRaised ==
    /\ phase = "executing"
    /\ \A o \in active : pc[o] \in {"done", "raised"}
    /\ verdict' = AggregateBundleDecision(
                     {evidence[o] : o \in {p \in active : pc[p] = "done"}}, BundlePolicy)
    /\ phase' = "finished"
    /\ UNCHANGED <<runs, policy, env, trusted, active, pc, todo, results, evidence,
                   resultCache, flatCache, reported>>

\* The pool is left when every thread ended; an exception of any of them is
\* raised only then, and otherwise make_bundle decides.
Conclude ==
    /\ phase = "executing"
    /\ \A o \in active : pc[o] \in {"done", "raised"}
    /\ phase' = "finished"
    /\ verdict' = IF \E o \in active : pc[o] = "raised" THEN Raised
                  ELSE AggregateBundleDecision(Bundle, BundlePolicy)
    /\ UNCHANGED <<runs, policy, env, trusted, active, pc, todo, results, evidence,
                   resultCache, flatCache, reported>>

\* An entry expires, is found malformed, or its file is removed.
Evict ==
    /\ \/ \E e \in resultCache : resultCache' = resultCache \ {e} /\ UNCHANGED flatCache
       \/ \E e \in flatCache : flatCache' = flatCache \ {e} /\ UNCHANGED resultCache
    /\ UNCHANGED <<run, pc, todo, results, evidence, verdict, reported>>

Select(o, s) ==
    \/ BoundaryError(o, s)
    \/ GuaranteeMismatch(o, s)
    \/ ReplayResult(o, s)
    \/ \E report \in Reports[KindOf[s.backend]] : Execute(o, s, report) \/ StoreFails(o, s, report)

Begin(o) ==
    \/ ReplayFlat(o)
    \/ BeginEnforced(o)
    \/ \E status \in {"pass", "fail", "unknown"} : EvaluateLegacy(o, status)
    \/ LegacyRaises(o)

Thread(o) ==
    \/ Begin(o)
    \/ \E s \in todo[o] : Select(o, s)
    \/ Finish(o)

Next ==
    \/ StartRun
    \/ \E o \in Obligation : Thread(o)
    \/ Conclude
    \/ Evict

Spec == Init /\ [][Next]_vars

\* A thread that has every result ends; the pool is left once every thread ended.
\* Only Finish and Conclude take these steps, so fairness can be stated of the one
\* variable that shows them.
Ends(o) ==
    /\ pc[o] = "executing" /\ todo[o] = {}
    /\ \E l \in {"done", "raised"} : pc' = [pc EXCEPT ![o] = l]
PoolLeft ==
    /\ phase = "executing" /\ \A o \in active : pc[o] \in {"done", "raised"}
    /\ phase' = "finished"

\* The threads of the pool and the kernel's own thread keep running: every
\* execution is bounded by its wall-time budget.
FairSpec ==
    /\ Spec
    /\ \A o \in Obligation :
          /\ WF_vars(Begin(o))
          /\ WF_vars(\E s \in todo[o] : Select(o, s))
          /\ WF_pc(Ends(o))
    /\ WF_phase(PoolLeft)
-----------------------------------------------------------------------------
(* Properties *)

ResultType == [backend : Backend, status : VerificationStatus,
               guarantee : {GuaranteeOf[b] : b \in Backend}, termination : TerminationKind]
KeyType == [obligation : Obligation, metadata : BOOLEAN, routing_id : STRING,
            backend : Backend, env : Environment]
EntryType == [key : KeyType, status : VerificationStatus, termination : TerminationKind]

\* Every variable holds a value the program can represent: phases, thread states,
\* results over known backends, cache entries over known keys.
TypeOK ==
    /\ phase \in {"idle", "executing", "finished"}
    /\ runs \in 0..MaxRuns
    /\ policy \in Policies /\ env \in Environment /\ trusted \in BOOLEAN
    /\ active \in SUBSET Obligation
    /\ pc \in [Obligation -> {"idle", "queued", "executing", "done", "raised"}]
    /\ todo \in [Obligation -> SUBSET [backend : Backend, required : BOOLEAN]]
    /\ results \in [Obligation -> SUBSET ResultType]
    /\ DOMAIN evidence = Obligation
    /\ verdict.state \in DecisionState \cup {"none", "raised"}
    /\ resultCache \subseteq EntryType
    /\ flatCache \subseteq [obligation : Obligation, status : VerificationStatus]
    /\ reported \subseteq [run : 1..MaxRuns, key : KeyType, status : VerificationStatus,
                           termination : TerminationKind, envelope : BOOLEAN]

Decided == phase = "finished" /\ verdict.state \in DecisionState

FromControlPlane(o) == evidence[o].origin = "control_plane"

\* An obligation is earned when its legacy claim passed, or when it is covered,
\* some backend was required, and every required backend reported a pass under
\* the environment and route of this run.
Earned(o) ==
    \/ ~FromControlPlane(o) /\ \A c \in evidence[o].claims : c.status = "pass"
    \/ /\ FromControlPlane(o) /\ o \in Covered
       /\ Required(policy.selected[o]) # {}
       /\ \A s \in Required(policy.selected[o]) :
             \E rep \in reported : rep.key = Key(o, s) /\ rep.status = "pass"

\* A run allows the merge only when every obligation of the change was earned;
\* a change that compiled to no obligation is never allowed (kernel.execute_kernel,
\* aggregate_bundle_decision, the coverage gate of execution_record_to_evidence).
AllowIsEarned ==
    verdict.state = "allow" => active # {} /\ \A o \in active : Earned(o)

\* A failure among the claims of any obligation blocks the merge, whichever
\* thread reported it, required or not (backend_aggregation, "any fail -> block").
FailureBlocks ==
    Decided /\ (\E o \in active : \E c \in evidence[o].claims : c.status = "fail")
        => verdict.state = "block"

\* The bundle is never more permissive than an item of it (decision.py, module
\* docstring), item decisions being read through the policy of the run.
NotMorePermissive ==
    Decided => \A o \in active : AtLeast(verdict.state, EvidenceFloor(evidence[o], BundlePolicy))

\* A conclusive result was reported by its adapter for this obligation, route and
\* environment: in this run, or earlier in an envelope that the cache replayed.
ReplayIsGenuine ==
    \A o \in active : \A r \in results[o] :
        r.status \in {"pass", "fail"} =>
            \E rep \in reported : /\ rep.key = Key(o, r) /\ rep.status = r.status
                                 /\ (rep.run = runs \/ rep.envelope)

\* A failure delivered in this run by a backend the route requires never ends in
\* allow, even when the cache refuses the result and the boundary reports an error.
RequiredFailureNeverAllowed ==
    verdict.state = "allow" =>
        ~ \E o \in active : \E s \in Required(policy.selected[o]) :
              \E rep \in reported : /\ rep.run = runs /\ rep.key = Key(o, s)
                                   /\ rep.status = "fail"

\* Untrusted self-protection metadata does not authorize allow under enforcement.
UntrustedNeverAllows ==
    verdict.state = "allow" =>
        ~ \E o \in active \cap SelfProtection : Enforced(o) /\ ~trusted

\* A run that starts executing ends with a decision or an exception.
RunTerminates == (phase = "executing") ~> (phase = "finished")
-----------------------------------------------------------------------------
\* An obligation is cleared once its item claims no failure and no required
\* shortfall and its own decision, read conservatively, is allow.
Cleared(o) ==
    /\ pc[o] = "done"
    /\ \A c \in evidence[o].claims : c.status # "fail" /\ (c.required => c.status = "pass")
    /\ RawEvidenceState(evidence[o]) = "allow"

Gate == INSTANCE MergeGate WITH
    cleared <- {o \in active : Cleared(o)},
    verdict <- CASE verdict.state \in {"none", "allow"} -> verdict.state
                 [] OTHER                              -> "refused"

\* A kernel run is a run of the merge gate: the threads clear obligations one by
\* one, and only a run all of whose obligations are cleared may end in allow.
ImplementsMergeGate == Gate!Spec
=============================================================================
