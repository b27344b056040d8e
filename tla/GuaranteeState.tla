---------------------------- MODULE GuaranteeState ----------------------------
(***************************************************************************)
(* The state of durable guarantees at one revision: a manifest binds each   *)
(* guarantee to the one protected effect its selector matches, evidence of  *)
(* that effect is admitted or not, and a guarantee is established only with *)
(* the guarantees it depends on.  Translated from guarantee_graph.py and    *)
(* guarantee_assurance_state.py.                                            *)
(*                                                                         *)
(* A manifest is a function from guarantee ids to                           *)
(*   matches  effects its selector matches where they occur                 *)
(*   needs    guarantees it depends on                                      *)
(***************************************************************************)
EXTENDS AssuranceIR

Transitive(manifest, g) ==
    LET Within[n \in 0..Cardinality(DOMAIN manifest)] ==
            IF n = 0 THEN {g}
            ELSE Within[n - 1] \cup UNION {manifest[h].needs : h \in Within[n - 1]}
    IN  Within[Cardinality(DOMAIN manifest)]

\* _validate_guarantee_specs: dependencies are known and there is no cycle.
ValidManifest(manifest) ==
    /\ \A g \in DOMAIN manifest : manifest[g].needs \subseteq DOMAIN manifest
    /\ \A g \in DOMAIN manifest : \A h \in manifest[g].needs : g \notin Transitive(manifest, h)

\* bind_guarantee: bound when its selector matches exactly one effect.
Matched(manifest, ir, g) == manifest[g].matches \cap Effects(ir)

\* _admit_evidence: sealed for this revision, slice and policy.  Neither the age nor a
\* revocation of the prior of a reissued record is looked at.
Admitted(x, ir, rev, e, policy) ==
    x.rev = rev /\ x.slice = SemanticSlice(ir, e) /\ x.policy = policy

StatusOf(claim) ==
    CASE claim = "pass" -> "established" [] claim = "fail" -> "violated" [] OTHER -> "unknown"

\* The status a guarantee has by itself; exactly one record of its effect is expected.
LocalStatus(manifest, ir, rev, evidence, policy, g) ==
    LET matched == Matched(manifest, ir, g)
        records == {x \in evidence : x.effect \in matched}
    IN  IF Cardinality(matched) # 1 THEN "unbound"
        ELSE IF Cardinality(records) # 1 THEN "invalid_evidence"
        ELSE LET x == CHOOSE y \in records : TRUE
             IN  IF Admitted(x, ir, rev, x.effect, policy) THEN StatusOf(x.status)
                 ELSE "invalid_evidence"

\* Mutant: a dependency counts by its local status.
Resolve_Local(manifest, local) ==
    [g \in DOMAIN manifest |->
        IF local[g] = "established" /\ \E h \in manifest[g].needs : local[h] # "established"
        THEN "dependency_unestablished" ELSE local[g]]
\* resolve: a dependency counts by its final status, so that a loss reaches every
\* guarantee above it.
Resolve(manifest, local) ==
    LET Round[n \in 0..Cardinality(DOMAIN manifest)] ==
            IF n = 0 THEN local
            ELSE [g \in DOMAIN manifest |->
                    IF local[g] = "established"
                       /\ \E h \in manifest[g].needs : Round[n - 1][h] # "established"
                    THEN "dependency_unestablished" ELSE local[g]]
    IN  Round[Cardinality(DOMAIN manifest)]

\* build_guarantee_assurance_snapshot: one state for each guarantee of the manifest.
Snapshot(manifest, ir, rev, evidence, policy) ==
    Resolve(manifest, [g \in DOMAIN manifest |->
                          LocalStatus(manifest, ir, rev, evidence, policy, g)])
=============================================================================
