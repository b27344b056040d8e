------------------------- MODULE MCAggregationTable -------------------------
(***************************************************************************)
(* Three backends with three guarantees; an obligation may require one or   *)
(* two of them, or none.                                                    *)
(***************************************************************************)
EXTENDS AggregationTable, TLC

MCBackend == {"det", "opa", "z3"}
MCKindOf == ("det" :> "deterministic") @@ ("opa" :> "opa") @@ ("z3" :> "z3")
MCGuaranteeOf == ("det" :> "pattern") @@ ("opa" :> "policy_evaluation") @@ ("z3" :> "smt")

Primary(b)      == [backend |-> b, required |-> TRUE]
Corroborator(b) == [backend |-> b, required |-> FALSE]

MCSelections ==
    {{Primary("det")},
     {Primary("det"), Corroborator("z3")},
     {Primary("opa"), Corroborator("det"), Corroborator("z3")},
     {Primary("det"), Primary("z3"), Corroborator("opa")},
     {Corroborator("opa"), Corroborator("z3")}}

\* No fallback, any fallback, any but by an unavailable tool, and one for a single
\* backend and guarantee.
MCFallbacks ==
    {FallbackOff,
     [FallbackOff EXCEPT !.allow = TRUE],
     [FallbackOff EXCEPT !.allow = TRUE, !.hard = {"tool_unavailable"}],
     [FallbackOff EXCEPT !.allow = TRUE, !.backends = {"det"},
                         !.guarantees = {"pattern"}]}
=============================================================================
