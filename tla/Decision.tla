------------------------------ MODULE Decision ------------------------------
(***************************************************************************)
(* The merge-decision lattice: how checker claims and evidence-level        *)
(* decisions become one decision.  Translated from ovk/core/decision.py.    *)
(* Constant operators only: no state, no recursion, so every module of the  *)
(* project, and the proofs, can use them.                                   *)
(*                                                                         *)
(* A finding is [id, status, required]; a collection of findings is a set,  *)
(* its members told apart by id.  The code's lists are sorted or scanned    *)
(* only for extrema and membership, so their order carries nothing.         *)
(***************************************************************************)
EXTENDS Integers, FiniteSets

VerificationStatus == {"pass", "skipped", "unknown", "error", "fail"}
DecisionState == {"allow", "needs_review", "skipped", "unknown", "error", "block"}
MergeRecommendation ==
    {"allow", "block", "require_human_review", "require_stronger_check", "allow_with_warning"}

ClaimSeverity == [pass |-> 0, skipped |-> 1, unknown |-> 2, error |-> 3, fail |-> 4]

DecisionSeverity ==
    [allow |-> 0, needs_review |-> 1, skipped |-> 2, unknown |-> 3, error |-> 4, block |-> 5]

AtLeast(s, t) == DecisionSeverity[s] >= DecisionSeverity[t]

\* Recommendation published beside a state.
StateToLegacy(s) == IF s \in {"allow", "block"} THEN s ELSE "require_human_review"

\* A stored token read back: members of the lattice are themselves, and every
\* alias or unrecognised token asks for review.
LegacyToState(token) == IF token \in DecisionState THEN token ELSE "needs_review"

(***************************************************************************)
(* A policy is [mode, on_unknown, on_skip], normalised: only the value      *)
(* "block" differs from the default.                                        *)
(***************************************************************************)
Mode == {"strict", "advisory"}
Policy == [mode : Mode, on_unknown : {"needs_review", "block"}, on_skip : {"skipped", "block"}]
StrictDefault == [mode |-> "strict", on_unknown |-> "needs_review", on_skip |-> "skipped"]

ApplyStrictPolicy(s, policy) ==
    CASE s = "unknown" -> policy.on_unknown
      [] s = "skipped" -> policy.on_skip
      [] OTHER         -> s

\* The same overlay read by mode: advisory keeps the honest state.
Overlay(s, policy) ==
    IF policy.mode = "strict" THEN ApplyStrictPolicy(s, policy) ELSE s

-----------------------------------------------------------------------------
Required(findings)  == {f \in findings : f.required}
\* Mutant: only required failures count.
Failures_RequiredOnly(findings) == {f \in Required(findings) : f.status = "fail"}
Failures(findings)  == {f \in findings : f.status = "fail"}
\* Mutant: an error of a required claim is tolerated.
Shortfall_ToleratesErrors(findings) ==
    {f \in Required(findings) : f.status \notin {"pass", "error"}}
Shortfall(findings) == {f \in Required(findings) : f.status # "pass"}

\* The findings whose status is the most severe of the set.
Worst(findings) ==
    {f \in findings : \A g \in findings : ClaimSeverity[g.status] <= ClaimSeverity[f.status]}

BaseState(status) ==
    CASE status = "fail" -> "block"
      [] status = "pass" -> "allow"
      [] OTHER           -> status

Ids(findings) == {f.id : f \in findings}

Outcome(state, original, controlling) ==
    [state |-> state, original |-> original, controlling |-> controlling]

\* aggregate_decision: fail dominates, then the worst required shortfall, then
\* "nothing required was checked", and only then allow.
AggregateDecision(findings, policy) ==
    LET failed == Failures(findings)
        short  == Shortfall(findings)
    IN  CASE failed # {} ->
               Outcome("block", "block", Ids(failed))
          [] failed = {} /\ short # {} ->
               LET f == CHOOSE f \in Worst(short) : TRUE
                   original == BaseState(f.status)
               IN  Outcome(Overlay(original, policy), original, Ids(Worst(short)))
          [] failed = {} /\ short = {} /\ Required(findings) = {} ->
               Outcome("needs_review", "needs_review", {})
          [] OTHER ->
               Outcome("allow", "allow", Ids(Required(findings)))

-----------------------------------------------------------------------------
(***************************************************************************)
(* Evidence items: [id, claims, state, recommendation].  claims is a set of *)
(* [backend, status, required]; state is the item's decision_state or       *)
(* Absent; recommendation its merge_recommendation or Absent.               *)
(***************************************************************************)
Absent == "absent"

FindingsFromBundle(bundle) ==
    UNION { { [id |-> <<e.id, c.backend>>, status |-> c.status, required |-> c.required]
                : c \in e.claims } : e \in bundle }

RawEvidenceState(e) ==
    CASE e.state # Absent                                -> LegacyToState(e.state)
      [] e.state = Absent /\ e.recommendation # Absent   -> LegacyToState(e.recommendation)
      [] OTHER                                           -> "needs_review"

\* The state below which one item of evidence does not let the bundle fall.
EvidenceFloor(e, policy) == Overlay(RawEvidenceState(e), policy)

\* The items whose floor is the most restrictive of the bundle.
TightestEvidence(bundle, policy) ==
    {e \in bundle : \A o \in bundle : AtLeast(EvidenceFloor(e, policy), EvidenceFloor(o, policy))}

DecisionId(e) == <<e.id, "decision">>

\* The most severe member of a non-empty set of states.
MostSevere(states) == CHOOSE s \in states : \A t \in states : AtLeast(s, t)

BundleOutcome(state, original, controlling, recommendation) ==
    [state |-> state, original |-> original, controlling |-> controlling,
     recommendation |-> recommendation]

\* Mutant: the evidence-level decisions are not consulted.
AggregateBundleDecision_ClaimsOnly(bundle, policy) ==
    LET claims == AggregateDecision(FindingsFromBundle(bundle), policy)
    IN  BundleOutcome(claims.state, claims.original, claims.controlling,
                      StateToLegacy(claims.state))

AggregateBundleDecision(bundle, policy) ==
    LET claims   == AggregateDecision(FindingsFromBundle(bundle), policy)
        tightest == TightestEvidence(bundle, policy)
        floors   == {EvidenceFloor(e, policy) : e \in bundle}
    IN  IF \A s \in floors : AtLeast(claims.state, s)
        THEN BundleOutcome(claims.state, claims.original, claims.controlling,
                           StateToLegacy(claims.state))
        ELSE LET state == MostSevere(floors)
                 stronger == /\ state = "needs_review"
                             /\ \E e \in tightest : e.recommendation = "require_stronger_check"
             IN  BundleOutcome(
                   state,
                   MostSevere({claims.original} \cup {RawEvidenceState(e) : e \in tightest}),
                   claims.controlling \cup {DecisionId(e) : e \in tightest},
                   IF stronger THEN "require_stronger_check" ELSE StateToLegacy(state))

=============================================================================
