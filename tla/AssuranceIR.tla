------------------------------ MODULE AssuranceIR ------------------------------
(***************************************************************************)
(* What incremental assurance compares of two revisions: the protected      *)
(* effects with what supports them, and the contracts of the functions they *)
(* rely on.  Translated from incremental_assurance.py and                   *)
(* contract_impact.py.                                                      *)
(*                                                                         *)
(* The Assurance IR of a revision is a record:                              *)
(*   slice     [Effect -> the part of the IR the semantic slice holds, or   *)
(*             Absent]: paths, guards, bindings, conditions, resources,     *)
(*             principals, coverage, extractor                              *)
(*   beyond    [Effect -> the evidence about guards that the evaluator reads*)
(*             too]: CFG dominance, authorization cut sets, control points, *)
(*             bypass authority, interpretation compatibility               *)
(*   contract  [Contract -> its version, or Absent]                         *)
(*   depends   [Contract -> contracts it depends on]                        *)
(*   uses      [Effect -> contracts its paths use]                          *)
(***************************************************************************)
EXTENDS FiniteSets, Integers

CONSTANTS
    Effect,    \* protected effect ids
    Contract,  \* qualified names of functions with a contract
    Absent

Effects(ir) == {e \in Effect : ir.slice[e] # Absent}
Contracts(ir) == {c \in Contract : ir.contract[c] # Absent}

\* protected_effect_semantic_digest: the supporting facts, with the uses of contracts on
\* the paths, and the versions of the contracts used directly.
SemanticSlice(ir, e) ==
    [facts |-> ir.slice[e], uses |-> ir.uses[e],
     contracts |-> {<<c, ir.contract[c]>> : c \in ir.uses[e] \cap Contracts(ir)}]
-----------------------------------------------------------------------------
(* Contract impact *)

\* diff_function_contracts: added, removed, or of another version.
ChangedContracts(base, head) == {c \in Contract : base.contract[c] # head.contract[c]}

DependentsOf(ir, changed) == {c \in Contracts(ir) : ir.depends[c] \cap changed # {}}

\* contract_dependency_closure: the seeds this revision has, and whatever depends
\* on them, directly or not.
DependencyClosure(ir, seeds) ==
    LET Within[n \in 0..Cardinality(Contract)] ==
            IF n = 0 THEN seeds \cap Contracts(ir)
            ELSE Within[n - 1] \cup DependentsOf(ir, Within[n - 1])
    IN  Within[Cardinality(Contract)]

\* compute_contract_impact: effects on whose paths an affected contract is used.
ImpactedEffects(ir, seeds) ==
    {e \in Effects(ir) : ir.uses[e] \cap DependencyClosure(ir, seeds) # {}}

\* Mutant: only the head revision's graph is searched.
ContractAffected_HeadOnly(base, head) == ImpactedEffects(head, ChangedContracts(base, head))
\* compute_contract_delta_impact: over both revisions' graphs.
ContractAffected(base, head) ==
    LET changed == ChangedContracts(base, head)
    IN  ImpactedEffects(base, changed) \cup ImpactedEffects(head, changed)
-----------------------------------------------------------------------------
(* plan_incremental_assurance *)

NewEffects(base, head) == Effects(head) \ Effects(base)

ChangedEffects(base, head) ==
    {e \in Effects(base) \cap Effects(head) : SemanticSlice(base, e) # SemanticSlice(head, e)}

ReverifyEffects(base, head) ==
    NewEffects(base, head) \cup ChangedEffects(base, head)
        \cup (ContractAffected(base, head) \cap Effects(head))

ReuseCandidates(base, head) == Effects(head) \ ReverifyEffects(base, head)
-----------------------------------------------------------------------------
(* What a planner promises, stated forwards: the contracts an effect relies on *)

ReliesOn(ir, e) ==
    LET Within[n \in 0..Cardinality(Contract)] ==
            IF n = 0 THEN ir.uses[e]
            ELSE Within[n - 1] \cup UNION {ir.depends[c] : c \in Within[n - 1] \cap Contracts(ir)}
    IN  Within[Cardinality(Contract)]
=============================================================================
