------------------------------ MODULE Integrity ------------------------------
(***************************************************************************)
(* Whether one protected effect is authorised, as a function of its guards  *)
(* and their structural evidence.  Translated from                          *)
(* ovk/core/protected_effect_integrity (compile_protected_effect_integrity) *)
(* and ovk/core/protected_effect_evaluation, for an effect on one path      *)
(* whose guards carry no condition atoms, which is what the FastAPI binder  *)
(* produces.                                                                *)
(*                                                                         *)
(* A guard is [id, effective, exact, binding, evidence]: is its             *)
(* effectiveness established; does it authorise the very resource acted on; *)
(* else the verdict of its resource binding, "none" without one; and its    *)
(* dominance evidence, or NoDominanceEvidence.                              *)
(***************************************************************************)
EXTENDS FiniteSets

NoDominanceEvidence == [complete |-> FALSE, bound |-> FALSE, dominates |-> FALSE, present |-> FALSE]

\* A guard without evidence needs no condition, so it dominates; with evidence,
\* only complete coverage and a bound guard decide.
DominanceStatus(guard) ==
    CASE ~guard.evidence.present -> "established"
      [] guard.evidence.present /\ ~(guard.evidence.complete /\ guard.evidence.bound) -> "unknown"
      [] OTHER -> IF guard.evidence.dominates THEN "established" ELSE "violated"

\* A member of a collective cut: effective, for the resource itself, and bound to
\* the graph under complete coverage.
Qualifies(guard) ==
    /\ guard.effective /\ guard.exact
    /\ guard.evidence.present => guard.evidence.complete /\ guard.evidence.bound

\* The cut is taken whole or not at all.
CollectiveCut(guards, cut) ==
    LET members == {g \in guards : g.id \in cut.guards}
    IN  IF cut.covers /\ \A g \in members : Qualifies(g) THEN members ELSE {}

Dominating(guards, cut) ==
    LET alone == {g \in guards : DominanceStatus(g) = "established"}
    IN  IF alone # {} THEN alone ELSE CollectiveCut(guards, cut)

GuardPresence(guards, cut, complete) ==
    CASE Dominating(guards, cut) # {} -> "established"
      [] Dominating(guards, cut) = {}
           /\ (\/ \E g \in guards : DominanceStatus(g) = "unknown"
               \/ guards = {} /\ ~complete) -> "unknown"
      [] OTHER -> "violated"

\* Mutant: a guard that is present is taken to be effective.
GuardEffectiveness_Present(dominating) ==
    IF dominating # {} THEN "established" ELSE "unknown"

GuardEffectiveness(dominating) ==
    IF \E g \in dominating : g.effective THEN "established" ELSE "unknown"

\* Among alternatives one established binding is enough; all refuted, a violation.
ResourceBinding(dominating) ==
    LET bindings == {g.binding : g \in {h \in dominating : h.binding # "none"}}
    IN  CASE dominating = {} -> "unknown"
          [] \E g \in dominating : g.exact -> "established"
          [] (\A g \in dominating : ~g.exact) /\ "pass" \in bindings -> "established"
          [] /\ dominating # {} /\ \A g \in dominating : ~g.exact
             /\ bindings \subseteq {"fail"} -> "violated"
          [] OTHER -> "unknown"

\* _overall_status: a violation fails; nothing passes on partial coverage.
OverallStatus(guards, cut, complete) ==
    LET dominating == Dominating(guards, cut)
        checks == {GuardPresence(guards, cut, complete), GuardEffectiveness(dominating),
                   ResourceBinding(dominating)}
    IN  CASE "violated" \in checks -> "fail"
          [] "violated" \notin checks /\ (~complete \/ "unknown" \in checks) -> "unknown"
          [] OTHER -> "pass"
=============================================================================
