-------------------------- MODULE MCGuaranteeLedger --------------------------
(***************************************************************************)
(* Two effects.  "plain" passes; "worse" lacks a contract the first effect  *)
(* relies on indirectly and fails the second effect; "moved" has the facts  *)
(* of "plain" but no evidence that the first effect's guard dominates it.   *)
(***************************************************************************)
EXTENDS GuaranteeLedger, TLC

None == "none"

Plain ==
    [slice |-> [e \in Effect |-> "ok"],
     beyond |-> [e \in Effect |-> "dominates"],
     contract |-> [c \in Contract |-> "v1"],
     depends |-> [c \in Contract |-> IF c = "c1" THEN {"c2"} ELSE {}],
     uses |-> [e \in Effect |-> IF e = "e1" THEN {"c1"} ELSE {}]]

MCIR ==
    [r \in Revision |->
        CASE r = "plain" -> Plain
          [] r = "worse" -> [Plain EXCEPT !.contract["c2"] = None, !.slice["e2"] = "bad"]
          [] r = "moved" -> [Plain EXCEPT !.beyond["e1"] = "none"]]

MCVerdict ==
    ("ok" :> (("dominates" :> "pass") @@ ("none" :> "unknown")))
        @@ ("bad" :> (("dominates" :> "fail") @@ ("none" :> "fail")))

\* g1 needs g2, g2 needs g3.
MCManifest ==
    [p \in Policy |->
        ("g1" :> [matches |-> {"e1"}, needs |-> {"g2"}])
            @@ ("g2" :> [matches |-> {"e1"}, needs |-> {"g3"}])
            @@ ("g3" :> [matches |-> {"e2"}, needs |-> {}])]
=============================================================================
