------------------------------ MODULE Evidence ------------------------------
(***************************************************************************)
(* Evidence items: what one obligation contributes to the bundle.           *)
(* Translated from ovk/core/evidence_from_execution.py,                     *)
(* compilation_evidence.py, adapter_runtime.py (the untrusted-metadata      *)
(* override) and the legacy lane evaluators' decisions.                     *)
(*                                                                         *)
(* An item is an item of module Decision plus origin: "control_plane",      *)
(* "legacy" or "compiler", the producer of its claims.                      *)
(***************************************************************************)
EXTENDS Aggregation

EvidenceItem(id, origin, claims, state, recommendation) ==
    [id |-> id, origin |-> origin, claims |-> claims,
     state |-> state, recommendation |-> recommendation]

Claim(backend, status, required) ==
    [backend |-> backend, status |-> status, required |-> required]

\* A record without results still claims: an unknown, required, by nobody.
ClaimsOf(selected, results) ==
    IF results = {} THEN {Claim("none", "unknown", TRUE)}
    ELSE {Claim(r.backend, r.status, r.backend \in RequiredBackends(selected)) : r \in results}

\* execution_record_to_evidence: an aggregate that allows is kept only when the
\* coverage of the obligation permits a strict allow.  The two vocabularies are
\* reconciled last: a recommendation to allow forces the state, an allow state
\* without it is read back from the recommendation.
ProjectedDecision(aggregate, coveragePermits) ==
    LET gated == /\ "allow" \in {aggregate.state, aggregate.recommendation}
                 /\ ~coveragePermits
        state == IF gated THEN "needs_review" ELSE aggregate.state
        recommendation == IF gated THEN "require_human_review" ELSE aggregate.recommendation
    IN  [state |-> CASE recommendation = "allow"                   -> "allow"
                     [] recommendation # "allow" /\ state = "allow" -> LegacyToState(recommendation)
                     [] OTHER                                       -> state,
         recommendation |-> recommendation]

ExecutionRecordToEvidence(id, selected, results, aggregate, coveragePermits) ==
    LET decision == ProjectedDecision(aggregate, coveragePermits)
    IN  EvidenceItem(id, "control_plane", ClaimsOf(selected, results),
                     decision.state, decision.recommendation)

\* Under enforcement, self-protection evidence over untrusted metadata has its
\* recommendation withdrawn.  decision_state is not part of the update.
WithdrawUntrustedAllow(e) ==
    IF e.recommendation = "allow"
    THEN [e EXCEPT !.recommendation = "require_human_review"]
    ELSE e

\* A legacy lane evaluator writes a recommendation and no decision_state.
LegacyRecommendation(status) ==
    CASE status = "pass" -> "allow"
      [] status = "fail" -> "block"
      [] OTHER           -> "require_human_review"

LegacyEvidence(id, status) ==
    EvidenceItem(id, "legacy", {Claim("legacy", status, TRUE)}, Absent, LegacyRecommendation(status))

\* The single item of a run whose change compiles to no obligation.
CompilationFailure ==
    EvidenceItem("compilation", "compiler", {Claim("ovk", "unknown", TRUE)},
                 Absent, "require_human_review")
=============================================================================
