----------------------------- MODULE MCGitHubApp -----------------------------
(***************************************************************************)
(* One installation: two pushes, another event, the removal of the          *)
(* installation and a delivery that is malformed, each of which may come    *)
(* any number of times; one thread asks for tokens.                         *)
(***************************************************************************)
EXTENDS GitHubApp, TLC

MCEventOf == ("push" :> "push") @@ ("again" :> "push") @@ ("added" :> "other") @@ ("gone" :> "deleted") @@ ("bad" :> "malformed")
MCForOf == [d \in Delivery |-> "i1"]
=============================================================================
