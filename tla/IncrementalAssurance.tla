------------------------- MODULE IncrementalAssurance -------------------------
(***************************************************************************)
(* Assurance of pull requests that share a cache of sealed evidence.  A job *)
(* materialises the evidence of the base revision, then assures the head,   *)
(* reusing a sealed pass where the plan, the key and its age allow it.      *)
(* Translated from automatic_pr_assurance.py,                               *)
(* incremental_protected_effect_execution.py and                            *)
(* protected_effect_evidence.py.                                            *)
(*                                                                         *)
(* A record stands for its digest: two records are equal when their digests *)
(* are.  The cache is an atomic map here; ResultCache models its files.     *)
(***************************************************************************)
EXTENDS AssuranceIR

CONSTANTS
    Revision,   \* commits a pull request may have as base or head
    IR,         \* [Revision -> Assurance IR compiled from it]
    Verdict,    \* [facts -> [guard evidence -> pass, fail or unknown]]: the evaluator
    Policy,     \* digests of verification policy, manifest and profile
    Runtime,    \* fingerprints of worker image, tools and environment
    NoRuntime,  \* OVK_WORKER_IMAGE_DIGEST is not set
    NoPrior,    \* freshly evaluated evidence refers to no earlier evidence
    Job,        \* runs that share the cache
    MaxAge,     \* max_age_seconds of ProtectedEffectReusePolicy
    MaxClock    \* bound

VerdictOn(ir, e) == Verdict[ir.slice[e]][ir.beyond[e]]

Slices == {SemanticSlice(IR[r], e) : r \in Revision, e \in Effect}

\* Sealed evidence, by what its prior may be.
Sealed(priors) ==
    [effect : Effect, rev : Revision, slice : Slices, policy : Policy,
     runtime : Runtime \cup {NoRuntime}, status : {"pass", "fail", "unknown"},
     at : 0..MaxClock, prior : priors]

ASSUME IncrementalAssumption ==
    /\ NoRuntime \notin Runtime
    /\ NoPrior \notin Sealed({NoPrior})
    /\ MaxAge \in Nat /\ MaxClock \in Nat
    /\ Revision # {} /\ Policy # {}
    /\ \A r \in Revision : \A e \in Effects(IR[r]) :
            VerdictOn(IR[r], e) \in {"pass", "fail", "unknown"}

\* A contract_id digests the contract_id of the callee it was composed from.
ASSUME ContractAssumption ==
    /\ IsFiniteSet(Effect) /\ IsFiniteSet(Contract)
    /\ \A r \in Revision :
        /\ \A e \in Effects(IR[r]) : IR[r].uses[e] \subseteq Contract
        /\ \A c \in Contracts(IR[r]) : IR[r].depends[c] \subseteq Contract
    /\ \A r, s \in Revision : \A c \in Contracts(IR[r]) :
            IR[r].contract[c] = IR[s].contract[c] => IR[r].depends[c] = IR[s].depends[c]

VARIABLES
    cache,  \* sealed passes stored by any job
    job,    \* what each job is about and the evidence it has so far
    clock

assuranceVars == <<cache, job, clock>>

Stage == {"idle", "base", "head", "complete", "error"}

NoEvidence == <<>>

\* What a job holds is fresh, or reissued once.
EvidenceTyped(evidence) ==
    \E effects \in SUBSET Effect :
        evidence \in [effects -> Sealed({NoPrior} \cup Sealed({NoPrior}))]

\* Only fresh evidence of a known runtime is ever stored.
TypeOK ==
    /\ \A x \in cache : x \in Sealed({NoPrior}) /\ x.runtime # NoRuntime
    /\ \A j \in Job :
        /\ job[j].stage \in Stage
        /\ {job[j].base, job[j].head} \subseteq Revision
        /\ job[j].policy \in Policy /\ job[j].runtime \in Runtime \cup {NoRuntime}
        /\ EvidenceTyped(job[j].baseEvidence) /\ EvidenceTyped(job[j].headEvidence)
        /\ job[j].reused \subseteq Effect
    /\ clock \in 0..MaxClock

\* A review without evidence so far.
Review(stage, base, head, p, rt) ==
    [stage |-> stage, base |-> base, head |-> head, policy |-> p, runtime |-> rt,
     baseEvidence |-> NoEvidence, headEvidence |-> NoEvidence, reused |-> {}]
-----------------------------------------------------------------------------
(* Evidence *)

\* protected_effect_evaluation_to_evidence, sealed now.
Fresh(e, r, p, rt) ==
    [effect |-> e, rev |-> r, slice |-> SemanticSlice(IR[r], e), policy |-> p,
     runtime |-> rt, status |-> VerdictOn(IR[r], e), at |-> clock, prior |-> NoPrior]

\* reissue_reused_protected_effect_evidence: a new record of the head that names the prior.
Reissue(prior, r) ==
    [effect |-> prior.effect, rev |-> r, slice |-> prior.slice, policy |-> prior.policy,
     runtime |-> prior.runtime, status |-> prior.status, at |-> clock, prior |-> prior]

\* build_protected_effect_cache_components: neither revision nor time.
CacheKey(x) == <<x.effect, x.slice, x.policy, x.runtime>>

\* Mutant: the age is not looked at, the time to live of the cache being trusted.
Eligible_AnyAge(prior) == prior.status = "pass"
\* evaluate_protected_effect_evidence_reuse, for what a found record may still differ in.
Eligible(prior) == prior.status = "pass" /\ clock - prior.at <= MaxAge

\* reuse_for_head: the record of the head's key, when there is one and it is eligible.
Reusable(e, r, p, rt) ==
    {x \in cache : /\ CacheKey(x) = <<e, SemanticSlice(IR[r], e), p, rt>>
                   /\ Eligible(x)}

\* Mutant: evidence of an unknown environment is stored.
Stores_AnyRuntime(x) == x.status = "pass" /\ x.prior = NoPrior
\* Only fresh passes with an execution fingerprint are put.
Stores(x) == x.status = "pass" /\ x.runtime # NoRuntime /\ x.prior = NoPrior

\* cache.put replaces the record of the same key; a failing put is tolerated.
Put(stored) == {x \in cache : \A y \in stored : CacheKey(y) # CacheKey(x)} \cup stored

\* Evidence of revision r: reissued for the effects in candidates that have a reusable
\* record, fresh for the others.
Evidence(r, p, rt, candidates) ==
    [e \in Effects(IR[r]) |->
        IF rt # NoRuntime /\ e \in candidates /\ Reusable(e, r, p, rt) # {}
        THEN Reissue(CHOOSE x \in Reusable(e, r, p, rt) : TRUE, r)
        ELSE Fresh(e, r, p, rt)]

Reused(evidence) == {e \in DOMAIN evidence : evidence[e].prior # NoPrior}
-----------------------------------------------------------------------------
(* One job *)

\* build_automatic_pull_request_assurance is called for a pull request.
Open(j) ==
    /\ job[j].stage \in {"idle", "complete", "error"}
    /\ \E base, head \in Revision, p \in Policy, rt \in Runtime \cup {NoRuntime} :
        /\ base # head
        /\ job' = [job EXCEPT ![j] = Review("base", base, head, p, rt)]
    /\ UNCHANGED <<cache, clock>>

\* The job's evidence becomes known; any of what should be stored is.
Keep(j, evidence) ==
    \E stored \in SUBSET {x \in {evidence[e] : e \in DOMAIN evidence} : Stores(x)} :
        cache' = Put(stored)

\* _materialize_current_ir_evidence: every effect of the base is a candidate, whatever
\* changed in the contracts since the prior evidence.
MaterializeBase(j) ==
    /\ job[j].stage = "base"
    /\ LET evidence == Evidence(job[j].base, job[j].policy, job[j].runtime,
                                Effects(IR[job[j].base]))
       IN  /\ job' = [job EXCEPT ![j].stage = "head", ![j].baseEvidence = evidence]
           /\ Keep(j, evidence)
    /\ UNCHANGED clock

\* execute_incremental_protected_effect_assurance: only the plan's candidates.
AssureHead(j) ==
    /\ job[j].stage = "head"
    /\ LET evidence == Evidence(job[j].head, job[j].policy, job[j].runtime,
                                ReuseCandidates(IR[job[j].base], IR[job[j].head]))
       IN  /\ job' = [job EXCEPT ![j].stage = "complete", ![j].headEvidence = evidence,
                                 ![j].reused = Reused(evidence)]
           /\ Keep(j, evidence)
    /\ UNCHANGED clock

\* Any exception of the two steps ends the review without snapshots; what the base
\* stored stays stored.
Raise(j) ==
    /\ job[j].stage \in {"base", "head"}
    /\ job' = [job EXCEPT ![j] =
                    Review("error", job[j].base, job[j].base, job[j].policy, NoRuntime)]
    /\ UNCHANGED <<cache, clock>>

Tick ==
    /\ clock < MaxClock
    /\ clock' = clock + 1
    /\ UNCHANGED <<cache, job>>

AssuranceInit ==
    /\ cache = {}
    /\ LET r == CHOOSE s \in Revision : TRUE
       IN  job = [j \in Job |-> Review("idle", r, r, CHOOSE p \in Policy : TRUE, NoRuntime)]
    /\ clock = 0

AssuranceNext ==
    \/ \E j \in Job : Open(j) \/ MaterializeBase(j) \/ AssureHead(j) \/ Raise(j)
    \/ Tick
-----------------------------------------------------------------------------
(* What reuse promises *)

ReusedBy(j) ==
    {job[j].baseEvidence[e] : e \in Reused(job[j].baseEvidence)}
        \cup {job[j].headEvidence[e] : e \in Reused(job[j].headEvidence)}

\* Evidence that is handed out again rests on an evaluation, by this policy and runtime,
\* that passed on the very slice of the revision it is handed out for, no longer ago
\* than MaxAge: handing out never makes a record younger, however often and by whichever
\* job it is repeated (evaluate_protected_effect_evidence_reuse, reissue).
ReuseIsSupported ==
    \A j \in Job : \A x \in ReusedBy(j) :
        /\ x.prior.prior = NoPrior
        /\ x.at - x.prior.at <= MaxAge
        /\ VerdictOn(IR[x.prior.rev], x.effect) = "pass"
        /\ SemanticSlice(IR[x.prior.rev], x.effect) = SemanticSlice(IR[x.rev], x.effect)
        /\ x.prior.policy = job[j].policy /\ x.prior.runtime = job[j].runtime

\* A head effect reuses evidence only when no contract it relies on in base or head,
\* however indirectly, was added, removed or given another version in between
\* (plan_incremental_assurance, contract_impact).
ContractChangesReverify ==
    \A j \in Job : job[j].stage = "complete" =>
        \A e \in job[j].reused :
            (ReliesOn(IR[job[j].base], e) \cup ReliesOn(IR[job[j].head], e))
                \cap ChangedContracts(IR[job[j].base], IR[job[j].head]) = {}

\* Violated: reused evidence says what the evaluator would say of the head now.
ReusedMatchesFresh ==
    \A j \in Job : job[j].stage = "complete" =>
        \A e \in job[j].reused : VerdictOn(IR[job[j].head], e) = job[j].headEvidence[e].status
=============================================================================
