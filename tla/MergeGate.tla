------------------------------ MODULE MergeGate ------------------------------
(***************************************************************************)
(* What a kernel run promises to the merge queue, without saying how it     *)
(* comes to it: obligations are cleared one at a time, and the run ends     *)
(* with "allow" only if it had obligations and all of them were cleared.    *)
(* It may refuse for any reason, and it may refuse before it starts.        *)
(***************************************************************************)
CONSTANT Obligation

VARIABLES phase, active, cleared, verdict

vars == <<phase, active, cleared, verdict>>

Init ==
    /\ phase = "idle" /\ verdict = "none"
    /\ active = {} /\ cleared = {}

Start(change) ==
    /\ phase # "executing"
    /\ active' = change /\ cleared' = {}
    /\ \/ phase' = "executing" /\ verdict' = "none"
       \/ phase' = "finished" /\ verdict' = "refused"

Clear(o) ==
    /\ phase = "executing" /\ o \in active \ cleared
    /\ cleared' = cleared \cup {o}
    /\ UNCHANGED <<phase, active, verdict>>

Allow ==
    /\ phase = "executing" /\ active # {} /\ cleared = active
    /\ phase' = "finished" /\ verdict' = "allow"
    /\ UNCHANGED <<active, cleared>>

Refuse ==
    /\ phase = "executing"
    /\ phase' = "finished" /\ verdict' = "refused"
    /\ UNCHANGED <<active, cleared>>

Next ==
    \/ \E change \in SUBSET Obligation : Start(change)
    \/ \E o \in Obligation : Clear(o)
    \/ Allow
    \/ Refuse

Spec == Init /\ [][Next]_vars
=============================================================================
