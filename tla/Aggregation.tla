----------------------------- MODULE Aggregation -----------------------------
(***************************************************************************)
(* ovk.aggregate.fail_dominant.v1: how the results of the backends selected *)
(* for one obligation become one outcome.  Translated from                  *)
(* ovk/core/backend_aggregation.py; aggregate_decision is in Decision.      *)
(*                                                                         *)
(* A selection is [backend, required]; a result joins the normalised result *)
(* and its attempt: [backend, status, guarantee, termination].  Both are    *)
(* sets with one member per backend.                                        *)
(***************************************************************************)
EXTENDS Worker

CONSTANTS
    Backend,      \* backend identifiers
    KindOf,       \* [Backend -> AdapterKind]
    GuaranteeOf   \* [Backend -> guarantee]

ASSUME BackendAssumption == KindOf \in [Backend -> AdapterKind] /\ DOMAIN GuaranteeOf = Backend

\* A fallback policy: may a weaker result be used at all, by which backends and
\* with which guarantees (an empty set means any), and the terminations whose
\* configured outcome is "fail" or "error".
FallbackOff == [allow |-> FALSE, backends |-> {}, guarantees |-> {}, hard |-> {}]

FallbackBlockingTerminations == {"timeout", "tool_error", "invalid_output", "resource_exhausted"}

BackendsOf(S) == {s.backend : s \in S}
RequiredBackends(selected) == {s.backend : s \in {t \in selected : t.required}}

RequiredResults(selected, results) ==
    {r \in results : r.backend \in RequiredBackends(selected)}

\* Required results that passed with a guarantee outside the acceptable set.
\* An empty acceptable set accepts every guarantee.
WeakResults(selected, results, acceptable) ==
    IF acceptable = {} THEN {}
    ELSE {r \in RequiredResults(selected, results) :
            r.status = "pass" /\ r.guarantee \notin acceptable}

FallbackRejects(policy, r) ==
    \/ r.termination \in FallbackBlockingTerminations
    \/ ~policy.allow
    \/ r.termination \in policy.hard
    \/ policy.backends # {} /\ r.backend \notin policy.backends
    \/ policy.guarantees # {} /\ r.guarantee \notin policy.guarantees

\* Mutant: one admitted weak result admits them all.
FallbackAccepted_AnyOne(policy, selected, results, acceptable) ==
    \E r \in WeakResults(selected, results, acceptable) : ~FallbackRejects(policy, r)

\* evaluate_fallback_acceptance: one refused weak result refuses the fallback.
FallbackAccepted(policy, selected, results, acceptable) ==
    LET weak == WeakResults(selected, results, acceptable)
    IN  weak # {} /\ \A r \in weak : ~FallbackRejects(policy, r)

-----------------------------------------------------------------------------
\* Mutant: a corroborator counts like a required backend.
ResultFindings_AllRequired(selected, results) ==
    {[id |-> r.backend, status |-> r.status, required |-> TRUE] : r \in results}

ResultFindings(selected, results) ==
    {[id |-> r.backend, status |-> r.status,
      required |-> r.backend \in RequiredBackends(selected)] : r \in results}

\* The claim status recorded beside the state of the aggregate.
AggregateStatus(state) ==
    CASE state = "block"   -> "fail"
      [] state = "allow"   -> "pass"
      [] state = "error"   -> "error"
      [] state = "skipped" -> "skipped"
      [] OTHER             -> "unknown"

Aggregate(state, original, controlling, recommendation, qualityError) ==
    [state |-> state, original |-> original, controlling |-> controlling,
     recommendation |-> recommendation, status |-> AggregateStatus(state),
     qualityError |-> qualityError]

\* aggregate_fail_dominant_v1.  The strict default policy is fixed here: the
\* repository's default_on_unknown is applied only when the bundle is made.
AggregateFailDominant(selected, results, acceptable, fallbackAccepted) ==
    LET findings == ResultFindings(selected, results)
        required == RequiredResults(selected, results)
        weak     == WeakResults(selected, results, acceptable)
        lattice  == AggregateDecision(findings, StrictDefault)
    IN  CASE BackendsOf(selected) # BackendsOf(results) ->
               Aggregate("needs_review", "needs_review", {}, "require_human_review", TRUE)
          [] /\ BackendsOf(selected) = BackendsOf(results)
             /\ \A r \in required : r.status = "pass"
             /\ weak # {}
             /\ ~fallbackAccepted ->
               Aggregate("needs_review", "needs_review", BackendsOf(required),
                         "require_stronger_check", FALSE)
          [] OTHER ->
               Aggregate(lattice.state, lattice.original, lattice.controlling,
                         StateToLegacy(lattice.state), FALSE)

\* aggregate_results with the attempts at hand, as the control plane calls it.
\* Only one aggregation policy exists; any other name raises.
AggregationPolicies == {"fail_dominant"}

AggregateResults(selected, results, acceptable, fallback) ==
    AggregateFailDominant(selected, results, acceptable,
                          FallbackAccepted(fallback, selected, results, acceptable))
=============================================================================
