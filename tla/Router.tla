------------------------------- MODULE Router -------------------------------
(***************************************************************************)
(* The route of one obligation: which of its backends are executed, and     *)
(* which one of them must pass.  Translated from ovk/core/router.py         *)
(* (select_primary_with_optional_corroboration) and coverage_contract.py.   *)
(*                                                                         *)
(* An assessment is what an adapter says of an obligation: [backend, place, *)
(* deterministic, support, score, guarantee, material, coverage, fits].     *)
(* place is the rank of the backend's name, score is in hundredths, fits    *)
(* says whether the execution budget admits the backend.  A configuration   *)
(* is [accept_partial_primary, prefer_deterministic, max_selected].         *)
(***************************************************************************)
EXTENDS Integers, FiniteSets

Executable(a) == a.support \notin {"unsupported", "unavailable"} /\ a.material

\* qualify_coverage: under enforcement the coverage must permit a strict allow for a
\* backend to become the required primary, whatever the adapter says.
Qualify(a, enforced, strictCoverage) ==
    [a EXCEPT !.coverage = Executable(a) /\ a.coverage /\ (enforced => strictCoverage)]

Qualified(assessments, enforced, strictCoverage) ==
    {Qualify(a, enforced, strictCoverage) : a \in assessments}

\* A backend whose coverage is incomplete is let in, if at all, before its guarantee
\* and its budget are looked at.
Eligible(assessments, acceptable, config) ==
    {a \in assessments :
        /\ Executable(a) /\ a.score >= 0
        /\ \/ ~a.coverage /\ config.accept_partial_primary
           \/ /\ a.coverage /\ a.fits
              /\ acceptable = {} \/ a.guarantee \in acceptable}

AdjustedScore(a, config) ==
    CASE a.deterministic /\ config.prefer_deterministic  -> a.score + 30
      [] a.deterministic /\ ~config.prefer_deterministic -> a.score - 15
      [] OTHER                                           -> a.score

Ahead(a, b, config) ==
    LET s == AdjustedScore(a, config)
        t == AdjustedScore(b, config)
    IN  s > t \/ (s = t /\ a.place <= b.place)

\* The first of some candidates, as a set: empty when there is none.
First(candidates, config) ==
    {a \in candidates : \A b \in candidates : Ahead(a, b, config)}

Supported(eligible) == {a \in eligible : a.support = "supported" /\ a.coverage}

PrimaryCandidates(eligible, config) ==
    IF Supported(eligible) = {} /\ config.accept_partial_primary
    THEN {a \in eligible : a.coverage}
    ELSE Supported(eligible)

Primary(eligible, config) == First(PrimaryCandidates(eligible, config), config)

\* At most one corroborator, however many backends may be selected.
Corroborator(eligible, config) ==
    LET primary == Primary(eligible, config)
    IN  IF Cardinality(primary) < config.max_selected
        THEN First(eligible \ primary, config)
        ELSE {}

Selected(assessments, acceptable, config) ==
    LET eligible == Eligible(assessments, acceptable, config)
    IN  {[backend |-> a.backend, required |-> TRUE] : a \in Primary(eligible, config)}
            \cup {[backend |-> a.backend, required |-> FALSE] : a \in Corroborator(eligible, config)}
=============================================================================
