--------------------------- MODULE GuaranteeLedger ---------------------------
(***************************************************************************)
(* The ledger of guarantee snapshots.  After a review its snapshot may be   *)
(* sealed into an entry that links to a predecessor; a chain of entries is  *)
(* verified later by somebody who has only the entries.  Translated from    *)
(* guarantee_assurance_ledger.py, composed with the jobs that make the      *)
(* evidence.                                                                *)
(*                                                                         *)
(* An entry's digest is its index in ledger: entries carry a time, so no two*)
(* have the same content.  Signatures cannot be forged and are left out;    *)
(* what a holder of genuine entries may present, in any order, is not.      *)
(***************************************************************************)
EXTENDS IncrementalAssurance, GuaranteeState, Sequences

CONSTANTS
    Manifest,   \* [Policy -> manifest]: the policy digest covers the manifest's
    MaxEntries  \* bound

ASSUME LedgerAssumption ==
    /\ MaxEntries \in Nat
    /\ \A p \in Policy : IsFiniteSet(DOMAIN Manifest[p]) /\ ValidManifest(Manifest[p])

VARIABLE ledger

vars == <<cache, job, clock, ledger>>

Genesis == 0

Guarantees(entry) == DOMAIN entry.states

Holds(entry, g) == g \in Guarantees(entry) /\ entry.states[g] = "established"

\* Mutant: a violation is reported before a loss.
DeltaKind_ViolationFirst(old, new) ==
    IF old = "absent" THEN "new_guarantee"
    ELSE IF new = "absent" THEN "removed_guarantee"
    ELSE IF old # "violated" /\ new = "violated" THEN "violation_observed"
    ELSE IF old = "established" /\ new = "established" THEN "current_established"
    ELSE IF old # "established" /\ new = "established" THEN "assurance_established"
    ELSE IF old = "established" THEN "assurance_lost"
    ELSE IF old = "violated" /\ new # "violated" THEN "violation_no_longer_observed"
    ELSE IF old = new THEN "status_unchanged"
    ELSE "status_changed"
\* _delta_kind, whose order decides where two kinds fit; fresh and reused establishment
\* are one kind here.
DeltaKind(old, new) ==
    IF old = "absent" THEN "new_guarantee"
    ELSE IF new = "absent" THEN "removed_guarantee"
    ELSE IF old = "established" /\ new = "established" THEN "current_established"
    ELSE IF old # "established" /\ new = "established" THEN "assurance_established"
    ELSE IF old = "established" /\ new # "established" THEN "assurance_lost"
    ELSE IF old # "violated" /\ new = "violated" THEN "violation_observed"
    ELSE IF old = "violated" /\ new # "violated" THEN "violation_no_longer_observed"
    ELSE IF old = new THEN "status_unchanged"
    ELSE "status_changed"

StateIn(states, g) == IF g \in DOMAIN states THEN states[g] ELSE "absent"

\* compute_guarantee_assurance_deltas
Deltas(old, new) ==
    [g \in DOMAIN old \cup DOMAIN new |-> DeltaKind(StateIn(old, g), StateIn(new, g))]
-----------------------------------------------------------------------------
(* Building *)

\* Who calls for a snapshot hands over the evidence: that of the head, or all of it.
Offered(j) ==
    LET base == {job[j].baseEvidence[e] : e \in DOMAIN job[j].baseEvidence}
        head == {job[j].headEvidence[e] : e \in DOMAIN job[j].headEvidence}
    IN  {head, base, base \cup head}

\* Mutant: the predecessor need not end where this review began.
MayFollow_Anything(base, previous) == TRUE
\* An entry links to a predecessor only when its base is that one's head.
MayFollow(base, previous) == previous # Genesis => ledger[previous].head = base

\* build_guarantee_assurance_ledger_entry: any entry may be the predecessor, also one
\* that has a successor already.
Seal(j) ==
    /\ job[j].stage = "complete"
    /\ Len(ledger) < MaxEntries
    /\ \E evidence \in Offered(j), previous \in 0..Len(ledger) :
        LET r == job[j].head
            p == job[j].policy
            states == Snapshot(Manifest[p], IR[r], r, evidence, p)
            old == IF previous = Genesis THEN <<>> ELSE ledger[previous].states
        IN  /\ MayFollow(job[j].base, previous)
            /\ ledger' = Append(ledger,
                 [sequence |-> IF previous = Genesis THEN 0 ELSE ledger[previous].sequence + 1,
                  previous |-> previous, base |-> job[j].base, head |-> r,
                  states |-> states, deltas |-> Deltas(old, states)])
    /\ UNCHANGED assuranceVars

-----------------------------------------------------------------------------
(* Verifying *)

\* Mutant: the predecessor's digest is not compared.
LinksTo_ByRevision(entry, previous) ==
    entry.sequence = ledger[previous].sequence + 1 /\ entry.base = ledger[previous].head
\* verify_guarantee_assurance_ledger_entry, for an entry that is given a predecessor.
LinksTo(entry, previous) ==
    /\ entry.sequence = ledger[previous].sequence + 1
    /\ entry.previous = previous
    /\ entry.base = ledger[previous].head

\* verify_guarantee_assurance_ledger_chain: entries in the order they are presented.
ChainVerifies(chain) ==
    /\ chain # <<>>
    /\ ledger[chain[1]].sequence = 0
    /\ \A i \in DOMAIN chain :
        IF i = 1 THEN ledger[chain[i]].deltas = Deltas(<<>>, ledger[chain[i]].states)
        ELSE /\ LinksTo(ledger[chain[i]], chain[i - 1])
             /\ ledger[chain[i]].deltas
                    = Deltas(ledger[chain[i - 1]].states, ledger[chain[i]].states)

Chains == UNION {[1..n -> DOMAIN ledger] : n \in 1..Len(ledger)}

\* The entry and its predecessors, first to last.
History(i) ==
    LET Back[n \in DOMAIN ledger] ==
            IF ledger[n].previous = Genesis THEN <<n>> ELSE Append(Back[ledger[n].previous], n)
    IN  Back[i]
-----------------------------------------------------------------------------
Init == AssuranceInit /\ ledger = <<>>

Next ==
    \/ AssuranceNext /\ UNCHANGED ledger
    \/ \E j \in Job : Seal(j)

Spec == Init /\ [][Next]_vars
-----------------------------------------------------------------------------
\* A guarantee the ledger calls established rests, with every guarantee below it, on an
\* evaluation that passed: of the one effect its selector matches in that entry's head
\* revision, on that revision's slice, by that entry's policy, whether the evidence was
\* fresh or reused, and whatever other evidence was offered.
EstablishedIsGrounded ==
    \A j \in Job : job[j].stage = "complete" =>
        \A evidence \in Offered(j) :
            LET r == job[j].head
                manifest == Manifest[job[j].policy]
                states == Snapshot(manifest, IR[r], r, evidence, job[j].policy)
            IN  \A g \in DOMAIN manifest : states[g] = "established" =>
                    \A h \in Transitive(manifest, g) :
                        \E e \in Effects(IR[r]) :
                            /\ Matched(manifest, IR[r], h) = {e}
                            /\ \E s \in Revision :
                                /\ SemanticSlice(IR[s], e) = SemanticSlice(IR[r], e)
                                /\ VerdictOn(IR[s], e) = "pass"
                            /\ {x.rev : x \in {y \in evidence : y.effect = e}} = {r}

\* What was built can be verified: an entry with its predecessors is a chain that
\* verifies, on whichever entry it was built and however the ledger forked.
BuiltChainVerifies == \A i \in DOMAIN ledger : ChainVerifies(History(i))

\* The last entry commits to the whole history: of all the orders in which a holder may
\* present genuine entries, with forks among them, one and only one verifies for it.
LastEntryCommits ==
    \A chain \in Chains : ChainVerifies(chain) => chain = History(chain[Len(chain)])

\* No guarantee silently stops being established along a chain that verifies: between an
\* entry where it holds and one where it does not, some entry reports the loss.
LossIsRecorded ==
    \A chain \in Chains : ChainVerifies(chain) =>
        \A i, k \in DOMAIN chain : \A g \in Guarantees(ledger[chain[i]]) :
            i < k /\ Holds(ledger[chain[i]], g) /\ ~ Holds(ledger[chain[k]], g) =>
                \E m \in (i + 1)..k :
                    /\ g \in DOMAIN ledger[chain[m]].deltas
                    /\ ledger[chain[m]].deltas[g] \in {"assurance_lost", "removed_guarantee"}
=============================================================================
