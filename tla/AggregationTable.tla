-------------------------- MODULE AggregationTable --------------------------
(***************************************************************************)
(* The aggregation of one obligation on its own, as execute() and the       *)
(* offline verifier call it: an obligation has selections, acceptable       *)
(* guarantees and a fallback policy, and the results of its backends arrive *)
(* one at a time.  ControlPlane only meets the selections the router makes; *)
(* here a required backend may give a guarantee that is not acceptable, and *)
(* a recorded execution may hold a result nobody selected.                  *)
(***************************************************************************)
EXTENDS Aggregation

CONSTANTS
    Selections,   \* the selections an obligation may have
    Fallbacks     \* the fallback policies it may run under

VARIABLES
    obligation,   \* [selected, acceptable, fallback]
    delivered     \* the results so far

tableVars == <<obligation, delivered>>

TableInit ==
    /\ obligation \in [selected : Selections, fallback : Fallbacks,
                       acceptable : SUBSET {GuaranteeOf[b] : b \in Backend}]
    /\ delivered = {}

\* A backend's run was normalised; the result joins those of the obligation.
Deliver(b, report) ==
    /\ b \notin BackendsOf(delivered)
    /\ delivered' = delivered \cup {[backend |-> b, status |-> report.status,
                                     guarantee |-> GuaranteeOf[b],
                                     termination |-> report.termination]}
    /\ UNCHANGED obligation

TableNext == \E b \in Backend : \E report \in Reports[KindOf[b]] : Deliver(b, report)

TableSpec == TableInit /\ [][TableNext]_tableVars
-----------------------------------------------------------------------------
(* Properties *)

OutcomeOf(selected, results) ==
    AggregateResults(selected, results, obligation.acceptable, obligation.fallback)

RequiredDelivered == RequiredResults(obligation.selected, delivered)

AllDelivered == BackendsOf(delivered) = BackendsOf(obligation.selected)

\* An allow rests on every selected backend and no other, on a required one, and
\* on required passes that are acceptable, or that the fallback policy admits one
\* by one (the decision table of aggregate_fail_dominant_v1, INV-017).
AllowIsSupported ==
    OutcomeOf(obligation.selected, delivered).state = "allow" =>
        /\ AllDelivered
        /\ RequiredBackends(obligation.selected) # {}
        /\ \A r \in delivered : r.status # "fail"
        /\ \A r \in RequiredDelivered :
              /\ r.status = "pass"
              /\ \/ obligation.acceptable = {} \/ r.guarantee \in obligation.acceptable
                 \/ /\ obligation.fallback.allow
                    /\ obligation.fallback.backends = {}
                         \/ r.backend \in obligation.fallback.backends

\* Corroborators only make the outcome more restrictive: it is at least as severe
\* as what the required backends alone would give ("optional pass cannot upgrade
\* required unknown").
OptionalNeverHelps ==
    AllDelivered =>
        AtLeast(OutcomeOf(obligation.selected, delivered).state,
                OutcomeOf(Required(obligation.selected), RequiredDelivered).state)
=============================================================================
