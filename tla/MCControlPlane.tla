--------------------------- MODULE MCControlPlane ---------------------------
(***************************************************************************)
(* Small instances of ControlPlane.  "pr" is an obligation of the           *)
(* self_protection lane, "auth" and "raw" are authorization obligations,    *)
(* "raw" over an abstraction whose coverage permits no strict allow.  What  *)
(* they are executed by is what Router makes of the adapters' assessments.  *)
(***************************************************************************)
EXTENDS ControlPlane, Router, TLC

MCBackend == {"det", "opa", "z3"}
MCKindOf == ("det" :> "deterministic") @@ ("opa" :> "opa") @@ ("z3" :> "z3")

\* "det" and "opa" evaluate policies; "z3" gives an SMT result.
MCGuaranteeOf == ("det" :> "policy_evaluation") @@ ("opa" :> "policy_evaluation") @@ ("z3" :> "smt")

MCAcceptable == [o \in Obligation |-> {"policy_evaluation", "smt"}]

\* can_handle of the adapters of the self_protection and authorization registries.
Assessment(b, place, score, covered) ==
    [backend |-> b, place |-> place, deterministic |-> TRUE, support |-> "supported",
     score |-> score, guarantee |-> MCGuaranteeOf[b], material |-> TRUE,
     coverage |-> covered, fits |-> TRUE]

Det(score, covered) == Assessment("det", 1, score, covered)
Opa == Assessment("opa", 2, 92, TRUE)
Z3(covered) == Assessment("z3", 3, 95, covered)
Missing(a) == [a EXCEPT !.support = "unavailable", !.score = -100]

\* The assessments of an obligation by the adapters that are installed and admitted by
\* the budget.
Assessments(o, installed) ==
    LET registry == IF o = "pr" THEN {Det(80, TRUE), Opa}
                    ELSE {Det(75, o # "raw"), Z3(o # "raw")}
    IN  {IF a.backend \in installed THEN a ELSE Missing(a) : a \in registry}

\* A policy that enforces every lane, routed over the installed adapters.
EnforcedPolicy(id, installed, most, acceptPartial) ==
    [mode |-> "enforced", enforced |-> Obligation, aggregation |-> "fail_dominant",
     allow_fallback |-> FALSE, on_unknown |-> "needs_review", routing_id |-> id,
     selected |->
        [o \in Obligation |->
            Selected(Qualified(Assessments(o, installed), TRUE, o \in Covered), Acceptable[o],
                     [accept_partial_primary |-> acceptPartial, prefer_deterministic |-> FALSE,
                      max_selected |-> most])]]

LegacyPolicy ==
    [EnforcedPolicy("legacy", MCBackend, 2, FALSE) EXCEPT !.mode = "legacy", !.enforced = {}]

\* Two backends for an obligation where there are two, one at most, and what is left
\* without z3 and opa.
Pair == EnforcedPolicy("pair", MCBackend, 2, FALSE)
Full == EnforcedPolicy("full", {"det", "opa"}, 2, TRUE)
Single == EnforcedPolicy("single", MCBackend, 1, FALSE)
Lean == EnforcedPolicy("lean", {"det"}, 2, FALSE)

\* One run: every interleaving of the two threads, unknown blocking or not, a
\* lane left to its legacy evaluator, obligations with one backend or with none, a
\* policy with an aggregation that does not exist and one that allows the broad
\* fallback.
GatePolicies ==
    {Full, [Full EXCEPT !.on_unknown = "block"],
     [Full EXCEPT !.enforced = {"auth", "raw"}, !.mode = "shadow"],
     Single, [Full EXCEPT !.aggregation = "other"], [Full EXCEPT !.allow_fallback = TRUE]}

\* Runs one after another over shared caches: two routes, legacy before enforced, and a
\* lane added to enforced_lanes while the mode still reads legacy.
ReplayPolicies == {Single, Pair, LegacyPolicy, [Lean EXCEPT !.mode = "legacy"]}

LeanPolicy == {Lean}
=============================================================================
