-------------------------- MODULE IncrementalProofs --------------------------
(***************************************************************************)
(* Reuse of sealed evidence is supported, the plan reverifies what a change *)
(* of contracts reaches, snapshots are grounded, and the ledger of them     *)
(* commits to its history: for all revisions, evaluators, policies,         *)
(* runtimes and manifests, any number of jobs over one cache, any MaxAge    *)
(* and any length of the ledger.                                            *)
(***************************************************************************)
EXTENDS GuaranteeLedger, GraphProofs

FreshEvidence == Sealed({NoPrior})
AnyEvidence == Sealed({NoPrior} \cup FreshEvidence)

Evidences == UNION {[effects -> AnyEvidence] : effects \in SUBSET Effect}

Reviews ==
    [stage : Stage, base : Revision, head : Revision, policy : Policy,
     runtime : Runtime \cup {NoRuntime}, baseEvidence : Evidences,
     headEvidence : Evidences, reused : SUBSET Effect]

\* What the evaluator says of the slice the record is sealed for.
Genuine(x) ==
    /\ x \in FreshEvidence
    /\ x.slice = SemanticSlice(IR[x.rev], x.effect)
    /\ x.status = VerdictOn(IR[x.rev], x.effect)

Storable(x) == Genuine(x) /\ x.status = "pass" /\ x.runtime # NoRuntime

Supported(x, p, rt) ==
    /\ x.prior.prior = NoPrior
    /\ x.at - x.prior.at <= MaxAge
    /\ VerdictOn(IR[x.prior.rev], x.effect) = "pass"
    /\ SemanticSlice(IR[x.prior.rev], x.effect) = SemanticSlice(IR[x.rev], x.effect)
    /\ x.prior.policy = p /\ x.prior.runtime = rt

\* Evidence of an effect says what the evaluator says of it, now or in its prior.
Sound(evidence, p, rt) ==
    \A e \in DOMAIN evidence :
        /\ evidence[e].effect = e
        /\ evidence[e].prior = NoPrior => Genuine(evidence[e])
        /\ evidence[e].prior # NoPrior => Supported(evidence[e], p, rt)

Planned(review) ==
    review.stage = "complete" =>
        review.reused \subseteq ReuseCandidates(IR[review.base], IR[review.head])

ReviewOK(review) ==
    /\ Sound(review.baseEvidence, review.policy, review.runtime)
    /\ Sound(review.headEvidence, review.policy, review.runtime)
    /\ Planned(review)

IInv ==
    /\ clock \in 0..MaxClock
    /\ \A x \in cache : Storable(x)
    /\ job \in [Job -> Reviews]
    /\ \A j \in Job : ReviewOK(job[j])
-----------------------------------------------------------------------------
(* One record *)

\* A fresh record says what the evaluator says.
LEMMA FreshIsGenuine ==
    ASSUME clock \in 0..MaxClock, NEW r \in Revision, NEW e \in Effects(IR[r]),
           NEW p \in Policy, NEW rt \in Runtime \cup {NoRuntime}
    PROVE  Genuine(Fresh(e, r, p, rt)) /\ Fresh(e, r, p, rt).prior = NoPrior
<1>1. e \in Effect
  BY DEF Effects
<1>2. VerdictOn(IR[r], e) \in {"pass", "fail", "unknown"}
  BY IncrementalAssumption
<1>3. SemanticSlice(IR[r], e) \in Slices
  BY <1>1 DEF Slices
<1> QED BY <1>1, <1>2, <1>3 DEF Genuine, FreshEvidence, Sealed, Fresh

\* A reissued record keeps what its prior says, and is supported by it.
LEMMA ReissueIsSupported ==
    ASSUME clock \in 0..MaxClock, \A x \in cache : Storable(x), NEW r \in Revision,
           NEW e \in Effects(IR[r]), NEW p \in Policy, NEW rt \in Runtime \cup {NoRuntime},
           NEW prior \in Reusable(e, r, p, rt)
    PROVE  /\ Reissue(prior, r) \in AnyEvidence
           /\ Reissue(prior, r).prior # NoPrior /\ Reissue(prior, r).effect = e
           /\ Supported(Reissue(prior, r), p, rt)
<1>1. prior \in cache /\ CacheKey(prior) = <<e, SemanticSlice(IR[r], e), p, rt>> /\ Eligible(prior)
  BY DEF Reusable
<1>2. /\ prior.effect = e /\ prior.slice = SemanticSlice(IR[r], e)
      /\ prior.policy = p /\ prior.runtime = rt
  BY <1>1 DEF CacheKey
<1>3. Genuine(prior) /\ prior.status = "pass"
  BY <1>1 DEF Storable
<1>4. prior \in FreshEvidence /\ prior # NoPrior
  BY <1>3, IncrementalAssumption DEF Genuine, FreshEvidence
<1>5. prior.prior = NoPrior
  BY <1>4 DEF FreshEvidence, Sealed
<1>6. /\ prior.effect \in Effect /\ prior.policy \in Policy
      /\ prior.slice \in Slices
      /\ prior.runtime \in Runtime \cup {NoRuntime}
      /\ prior.status \in {"pass", "fail", "unknown"}
  BY <1>4 DEF FreshEvidence, Sealed
<1>7. Reissue(prior, r) \in AnyEvidence
  BY <1>4, <1>6 DEF AnyEvidence, Sealed, Reissue
<1>8. /\ VerdictOn(IR[prior.rev], e) = "pass"
      /\ SemanticSlice(IR[prior.rev], e) = SemanticSlice(IR[r], e)
  BY <1>2, <1>3 DEF Genuine
<1>9. Supported(Reissue(prior, r), p, rt)
  BY <1>1, <1>2, <1>5, <1>8 DEF Supported, Eligible, Reissue
<1> QED BY <1>2, <1>4, <1>7, <1>9 DEF Reissue
-----------------------------------------------------------------------------
(* The evidence of one revision *)

LEMMA EvidenceIsSupported ==
    ASSUME clock \in 0..MaxClock, \A x \in cache : Storable(x), NEW r \in Revision,
           NEW p \in Policy, NEW rt \in Runtime \cup {NoRuntime}, NEW candidates
    PROVE  LET evidence == Evidence(r, p, rt, candidates)
           IN  /\ evidence \in Evidences
               /\ Sound(evidence, p, rt)
               /\ Reused(evidence) \subseteq candidates \cap Effects(IR[r])
               /\ \A e \in DOMAIN evidence : Stores(evidence[e]) => Storable(evidence[e])
<1> DEFINE evidence == Evidence(r, p, rt, candidates)
<1>1. DOMAIN evidence = Effects(IR[r]) /\ Effects(IR[r]) \in SUBSET Effect
  BY DEF Evidence, Effects
<1>2. ASSUME NEW e \in Effects(IR[r])
      PROVE  /\ evidence[e] \in AnyEvidence
             /\ evidence[e].effect = e
             /\ evidence[e].prior = NoPrior => Genuine(evidence[e])
             /\ evidence[e].prior # NoPrior => e \in candidates /\ Supported(evidence[e], p, rt)
             /\ Stores(evidence[e]) => Storable(evidence[e])
  <2>1. CASE rt # NoRuntime /\ e \in candidates /\ Reusable(e, r, p, rt) # {}
    <3>1. PICK prior \in Reusable(e, r, p, rt) : evidence[e] = Reissue(prior, r)
      BY <2>1 DEF Evidence
    <3> QED BY <2>1, <3>1, ReissueIsSupported DEF Stores
  <2>2. CASE ~ (rt # NoRuntime /\ e \in candidates /\ Reusable(e, r, p, rt) # {})
    <3>1. evidence[e] = Fresh(e, r, p, rt)
      BY <2>2 DEF Evidence
    <3>2. /\ Genuine(evidence[e]) /\ evidence[e].prior = NoPrior
          /\ evidence[e].effect = e
      BY <3>1, FreshIsGenuine DEF Fresh
    <3>3. evidence[e] \in AnyEvidence
      BY <3>2 DEF Genuine, FreshEvidence, AnyEvidence, Sealed
    <3> QED BY <3>2, <3>3 DEF Stores, Storable
  <2> QED BY <2>1, <2>2
<1>3. evidence \in [Effects(IR[r]) -> AnyEvidence]
  <2>1. evidence = [e \in Effects(IR[r]) |-> evidence[e]]
    BY DEF Evidence
  <2> HIDE DEF evidence
  <2> QED BY <1>2, <2>1
<1> HIDE DEF evidence
<1>4. evidence \in Evidences
  BY <1>1, <1>3 DEF Evidences
<1> QED BY <1>1, <1>2, <1>4 DEF evidence, Sound, Reused

\* Keeping any of it leaves only storable records.
LEMMA KeepIsStorable ==
    ASSUME \A x \in cache : Storable(x), NEW j, NEW evidence, Keep(j, evidence),
           \A e \in DOMAIN evidence : Stores(evidence[e]) => Storable(evidence[e])
    PROVE  \A x \in cache' : Storable(x)
BY DEF Keep, Put
-----------------------------------------------------------------------------
(* Every step *)

LEMMA InitIInv == Init => IInv
<1> SUFFICES ASSUME Init PROVE IInv
  OBVIOUS
<1>1. NoEvidence \in Evidences /\ DOMAIN NoEvidence = {}
  <2>1. NoEvidence \in [{} -> AnyEvidence] /\ DOMAIN NoEvidence = {}
    BY DEF NoEvidence
  <2> QED BY <2>1 DEF Evidences
<1>2. (CHOOSE r \in Revision : TRUE) \in Revision /\ (CHOOSE p \in Policy : TRUE) \in Policy
  BY IncrementalAssumption
<1>3. ASSUME NEW j \in Job PROVE job[j] \in Reviews
  BY <1>1, <1>2, <1>3 DEF Init, AssuranceInit, Review, Reviews, Stage
<1>4. job \in [Job -> Reviews]
  BY <1>3 DEF Init, AssuranceInit
<1>5. ASSUME NEW j \in Job
      PROVE job[j].baseEvidence = NoEvidence /\ job[j].headEvidence = NoEvidence
  BY DEF Init, AssuranceInit, Review
<1>6. clock \in 0..MaxClock /\ cache = {}
  BY IncrementalAssumption DEF Init, AssuranceInit
<1>7. ASSUME NEW j \in Job PROVE ReviewOK(job[j])
  <2>1. job[j].stage = "idle"
    BY DEF Init, AssuranceInit, Review
  <2> QED BY <1>1, <1>5, <2>1 DEF ReviewOK, Sound, Planned
<1> QED BY <1>4, <1>6, <1>7 DEF IInv

\* A step that sets the records of one job sets them to reviews.
LEMMA JobStep ==
    ASSUME job \in [Job -> Reviews], NEW j \in Job, NEW review \in Reviews,
           \A i \in Job : ReviewOK(job[i]), ReviewOK(review),
           job' = [job EXCEPT ![j] = review]
    PROVE  job' \in [Job -> Reviews] /\ \A i \in Job : ReviewOK(job'[i])
<1>1. ASSUME NEW i \in Job PROVE job'[i] = IF i = j THEN review ELSE job[i]
  OBVIOUS
<1>2. job' \in [Job -> Reviews]
  OBVIOUS
<1> QED BY <1>1, <1>2

LEMMA NextIInv == IInv /\ [Next]_vars => IInv'
<1> SUFFICES ASSUME IInv, [Next]_vars PROVE IInv'
  OBVIOUS
<1>0. NoEvidence \in Evidences /\ DOMAIN NoEvidence = {}
  <2>1. NoEvidence \in [{} -> AnyEvidence] /\ DOMAIN NoEvidence = {}
    BY DEF NoEvidence
  <2> QED BY <2>1 DEF Evidences
<1>1. ASSUME NEW j \in Job, Open(j) PROVE IInv'
  <2>1. PICK base \in Revision, head \in Revision, p \in Policy, rt \in Runtime \cup {NoRuntime} :
          job' = [job EXCEPT ![j] = Review("base", base, head, p, rt)]
    BY <1>1 DEF Open
  <2> DEFINE review == Review("base", base, head, p, rt)
  <2>2. review \in Reviews
    BY <1>0 DEF Reviews, Review, Stage
  <2>3. ReviewOK(review)
    BY <1>0 DEF ReviewOK, Sound, Planned, Review
  <2> HIDE DEF review
  <2> QED BY <1>1, <2>1, <2>2, <2>3, JobStep DEF IInv, Open, review, Storable, Genuine
<1>2. ASSUME NEW j \in Job, MaterializeBase(j) PROVE IInv'
  <2> DEFINE evidence == Evidence(job[j].base, job[j].policy, job[j].runtime,
                                  Effects(IR[job[j].base]))
             review == [job[j] EXCEPT !.stage = "head", !.baseEvidence = evidence]
  <2>1. /\ job[j] \in Reviews /\ job[j].base \in Revision /\ job[j].policy \in Policy
        /\ job[j].runtime \in Runtime \cup {NoRuntime}
    BY DEF IInv, Reviews
  <2>2. /\ evidence \in Evidences
        /\ Sound(evidence, job[j].policy, job[j].runtime)
        /\ \A e \in DOMAIN evidence : Stores(evidence[e]) => Storable(evidence[e])
    BY <2>1, EvidenceIsSupported DEF IInv
  <2>3. job' = [job EXCEPT ![j] = review] /\ Keep(j, evidence) /\ UNCHANGED clock
    BY <1>2 DEF MaterializeBase
  <2> HIDE DEF evidence
  <2>4. /\ review \in Reviews /\ review.baseEvidence = evidence
        /\ review.headEvidence = job[j].headEvidence
        /\ review.policy = job[j].policy /\ review.runtime = job[j].runtime
        /\ review.stage = "head"
    BY <2>1, <2>2 DEF Reviews, Stage
  <2> HIDE DEF review
  <2>5. \A x \in cache' : Storable(x)
    BY <2>2, <2>3, KeepIsStorable DEF IInv
  <2>6. job' \in [Job -> Reviews] /\ \A i \in Job : ReviewOK(job'[i])
    <3>1. ReviewOK(review)
      BY <2>2, <2>4 DEF IInv, ReviewOK, Planned
    <3> QED BY <2>3, <2>4, <3>1, JobStep DEF IInv
  <2> QED BY <2>3, <2>5, <2>6 DEF IInv, Storable, Genuine
<1>3. ASSUME NEW j \in Job, AssureHead(j) PROVE IInv'
  <2> DEFINE evidence == Evidence(job[j].head, job[j].policy, job[j].runtime,
                                  ReuseCandidates(IR[job[j].base], IR[job[j].head]))
             review == [job[j] EXCEPT !.stage = "complete", !.headEvidence = evidence,
                                      !.reused = Reused(evidence)]
  <2>1. /\ job[j] \in Reviews /\ job[j].head \in Revision /\ job[j].policy \in Policy
        /\ job[j].runtime \in Runtime \cup {NoRuntime}
    BY DEF IInv, Reviews
  <2>2. /\ evidence \in Evidences
        /\ Sound(evidence, job[j].policy, job[j].runtime)
        /\ Reused(evidence)
             \subseteq ReuseCandidates(IR[job[j].base], IR[job[j].head]) \cap Effects(IR[job[j].head])
        /\ \A e \in DOMAIN evidence : Stores(evidence[e]) => Storable(evidence[e])
    BY <2>1, EvidenceIsSupported DEF IInv
  <2>3. job' = [job EXCEPT ![j] = review] /\ Keep(j, evidence) /\ UNCHANGED clock
    BY <1>3 DEF AssureHead
  <2>4. Reused(evidence) \subseteq Effect
    BY DEF Reused, Evidence, Effects
  <2> HIDE DEF evidence
  <2>5. /\ review \in Reviews /\ review.headEvidence = evidence
        /\ review.baseEvidence = job[j].baseEvidence
        /\ review.policy = job[j].policy /\ review.runtime = job[j].runtime
        /\ review.base = job[j].base /\ review.head = job[j].head
        /\ review.reused = Reused(evidence)
    BY <2>1, <2>2, <2>4 DEF Reviews, Stage
  <2> HIDE DEF review
  <2>6. \A x \in cache' : Storable(x)
    BY <2>2, <2>3, KeepIsStorable DEF IInv
  <2>7. job' \in [Job -> Reviews] /\ \A i \in Job : ReviewOK(job'[i])
    <3>1. ReviewOK(review)
      BY <2>2, <2>5 DEF IInv, ReviewOK, Planned
    <3> QED BY <2>3, <2>5, <3>1, JobStep DEF IInv
  <2> QED BY <2>3, <2>6, <2>7 DEF IInv, Storable, Genuine
<1>4. ASSUME NEW j \in Job, Raise(j) PROVE IInv'
  <2> DEFINE review == Review("error", job[j].base, job[j].base, job[j].policy, NoRuntime)
  <2>1. job[j].base \in Revision /\ job[j].policy \in Policy
    BY DEF IInv, Reviews
  <2>2. review \in Reviews
    BY <1>0, <2>1 DEF Reviews, Review, Stage
  <2>3. ReviewOK(review)
    BY <1>0 DEF ReviewOK, Sound, Planned, Review
  <2>4. job' = [job EXCEPT ![j] = review] /\ UNCHANGED <<cache, clock>>
    BY <1>4 DEF Raise
  <2> HIDE DEF review
  <2> QED BY <2>2, <2>3, <2>4, JobStep DEF IInv, Storable, Genuine
<1>5. CASE Tick
  BY <1>5, IncrementalAssumption DEF Tick, IInv, Storable, Genuine
<1>6. ASSUME NEW j \in Job, Seal(j) PROVE IInv'
  BY <1>6 DEF Seal, assuranceVars, IInv, Storable, Genuine
<1>7. CASE UNCHANGED vars
  BY <1>7 DEF vars, IInv, Storable, Genuine
<1> QED BY <1>1, <1>2, <1>3, <1>4, <1>5, <1>6, <1>7 DEF Next, AssuranceNext

LEMMA Invariance == Spec => []IInv
BY InitIInv, NextIInv, PTL DEF Spec
-----------------------------------------------------------------------------
(* Theorems *)

\* The cache, the evidence of every job and the clock keep their types; in particular
\* only fresh evidence of a known runtime is ever stored.
THEOREM IncrementalTypeCorrect == Spec => []TypeOK
<1>1. IInv => TypeOK
  <2> SUFFICES ASSUME IInv PROVE TypeOK
    OBVIOUS
  <2>1. ASSUME NEW x \in cache PROVE x \in Sealed({NoPrior}) /\ x.runtime # NoRuntime
    BY DEF IInv, Storable, Genuine, FreshEvidence
  <2>2. ASSUME NEW j \in Job
        PROVE  /\ job[j].stage \in Stage
               /\ {job[j].base, job[j].head} \subseteq Revision
               /\ job[j].policy \in Policy /\ job[j].runtime \in Runtime \cup {NoRuntime}
               /\ EvidenceTyped(job[j].baseEvidence) /\ EvidenceTyped(job[j].headEvidence)
               /\ job[j].reused \subseteq Effect
    <3>1. job[j] \in Reviews
      BY DEF IInv
    <3>2. \A f \in Evidences : EvidenceTyped(f)
      BY DEF Evidences, EvidenceTyped, AnyEvidence, FreshEvidence
    <3> QED BY <3>1, <3>2 DEF Reviews
  <2> QED BY <2>1, <2>2 DEF IInv, TypeOK
<1> QED BY <1>1, Invariance, PTL

\* Evidence that is handed out again rests on an evaluation that passed on the same slice,
\* by the same policy and runtime, no longer ago than MaxAge, however many jobs share the
\* cache and whatever they store in between (protected_effect_evidence.py).
THEOREM ReuseCorrect == Spec => []ReuseIsSupported
<1>1. IInv => ReuseIsSupported
  <2> SUFFICES ASSUME IInv, NEW j \in Job, NEW x \in ReusedBy(j)
               PROVE  /\ x.prior.prior = NoPrior
                      /\ x.at - x.prior.at <= MaxAge
                      /\ VerdictOn(IR[x.prior.rev], x.effect) = "pass"
                      /\ SemanticSlice(IR[x.prior.rev], x.effect) = SemanticSlice(IR[x.rev], x.effect)
                      /\ x.prior.policy = job[j].policy /\ x.prior.runtime = job[j].runtime
    BY DEF ReuseIsSupported
  <2>1. Sound(job[j].baseEvidence, job[j].policy, job[j].runtime)
          /\ Sound(job[j].headEvidence, job[j].policy, job[j].runtime)
    BY DEF IInv, ReviewOK
  <2>2. Supported(x, job[j].policy, job[j].runtime)
    <3>1. CASE x \in {job[j].baseEvidence[e] : e \in Reused(job[j].baseEvidence)}
      BY <2>1, <3>1, Zenon DEF Reused, Sound
    <3>2. CASE x \in {job[j].headEvidence[e] : e \in Reused(job[j].headEvidence)}
      BY <2>1, <3>2, Zenon DEF Reused, Sound
    <3> QED BY <3>1, <3>2 DEF ReusedBy
  <2> QED BY <2>2, Zenon DEF Supported
<1> QED BY <1>1, Invariance, PTL
-----------------------------------------------------------------------------
(* Contract impact *)

\* contract_dependency_closure is closed: it has the seeds this revision has, and every
\* contract that depends on one of its own.
LEMMA DependencyClosureIsClosed ==
    ASSUME NEW ir, NEW seeds
    PROVE  LET closure == DependencyClosure(ir, seeds)
           IN  /\ seeds \cap Contracts(ir) \subseteq closure
               /\ closure \subseteq Contracts(ir)
               /\ DependentsOf(ir, closure) \subseteq closure
<1> DEFINE N == Cardinality(Contract)
           C == Contracts(ir)
           IsWithin(W) == W = [n \in 0..N |->
                IF n = 0 THEN seeds \cap C ELSE W[n - 1] \cup DependentsOf(ir, W[n - 1])]
           Within == CHOOSE W : IsWithin(W)
<1>0. IsFiniteSet(Contract) /\ N \in Nat /\ C \subseteq Contract
  BY ContractAssumption, FS_CardinalityType DEF Contracts
<1>1. \A A : DependentsOf(ir, A) \subseteq C
  BY DEF DependentsOf
<1>2. DependencyClosure(ir, seeds) = Within[N]
  BY DEF DependencyClosure
<1> HIDE DEF N, C
<1>3. IsWithin(Within)
  <2> DEFINE X == SUBSET C
             f == [A \in X |-> A \cup DependentsOf(ir, A)]
  <2>1. f \in [X -> X] /\ seeds \cap C \in X
    BY <1>1
  <2>2. \A A \in X : f[A] = A \cup DependentsOf(ir, A)
    OBVIOUS
  <2> HIDE DEF X, f
  <2>3. PICK W : W \in Iterations(X, N, seeds \cap C, f)
    BY <1>0, <2>1, IterationExists
  <2>4. W \in [0..N -> X] /\ W[0] = seeds \cap C /\ \A n \in 1..N : W[n] = f[W[n - 1]]
    BY <2>3 DEF Iterations
  <2>5. ASSUME NEW n \in 1..N PROVE W[n] = W[n - 1] \cup DependentsOf(ir, W[n - 1])
    <3>1. n - 1 \in 0..N /\ W[n] = f[W[n - 1]]
      BY <1>0, <2>4
    <3>2. W[n - 1] \in X
      BY <2>4, <3>1
    <3> QED BY <2>2, <3>1, <3>2
  <2>6. IsWithin(W)
    BY <1>0, <2>4, <2>5
  <2> HIDE DEF IsWithin
  <2> QED BY <2>6
<1> HIDE DEF Within
<1>4. Within[0] = seeds \cap C
  BY <1>0, <1>3
<1>5. \A n \in 1..N : Within[n] = Within[n - 1] \cup DependentsOf(ir, Within[n - 1])
  <2> TAKE n \in 1..N
  <2>1. n \in 0..N /\ n # 0
    BY <1>0
  <2> QED BY <1>3, <2>1
<1> HIDE DEF IsWithin
<1> DEFINE T == {n \in Nat : n <= N => seeds \cap C \subseteq Within[n] /\ Within[n] \subseteq C}
<1>6. Nat \subseteq T
  <2>1. 0 \in T
    BY <1>4
  <2>2. ASSUME NEW n \in Nat, n \in T, n + 1 <= N
        PROVE seeds \cap C \subseteq Within[n + 1] /\ Within[n + 1] \subseteq C
    <3>1. n + 1 \in 1..N /\ (n + 1) - 1 = n
      BY <1>0, <2>2
    <3>2. Within[n + 1] = Within[n] \cup DependentsOf(ir, Within[n])
      BY <1>5, <3>1
    <3> QED BY <1>1, <2>2, <3>2, <1>0
  <2>3. \A n \in Nat : n \in T => n + 1 \in T
    BY <2>2
  <2> HIDE DEF T
  <2> QED BY <2>1, <2>3, NaturalInduction
<1>7. \A n \in 0..N : seeds \cap C \subseteq Within[n] /\ Within[n] \subseteq C
  BY <1>6
<1> DEFINE Closed == {n \in 0..N : DependentsOf(ir, Within[n]) \subseteq Within[n]}
<1>8. ASSUME NEW n \in 1..N
      PROVE  /\ Within[n - 1] \subseteq Within[n]
             /\ Within[n - 1] = Within[n] => n - 1 \in Closed
             /\ n - 1 \in Closed => n \in Closed
  <2>1. n \in 0..N /\ n - 1 \in 0..N
    BY <1>0
  <2>2. Within[n] = Within[n - 1] \cup DependentsOf(ir, Within[n - 1])
    BY <1>5
  <2>3. n - 1 \in Closed => Within[n] = Within[n - 1]
    BY <2>2
  <2> QED BY <2>1, <2>2, <2>3
<1>9. Within[N] = Contract => N \in Closed
  BY <1>0, <1>1
<1>10. \A n \in 0..N : Within[n] \subseteq Contract
  BY <1>0, <1>7
<1> HIDE DEF Closed
<1>11. N \in Closed
  BY <1>0, <1>8, <1>9, <1>10, GrowingCloses DEF N
<1> QED BY <1>0, <1>2, <1>7, <1>11 DEF Closed, C

\* What an effect relies on is in every set that has its uses and, with a contract, its
\* dependencies.
LEMMA ReliesOnIsLeast ==
    ASSUME NEW ir, NEW e, NEW P, ir.uses[e] \subseteq P,
           \A c \in P \cap Contracts(ir) : ir.depends[c] \subseteq P
    PROVE  ReliesOn(ir, e) \subseteq P
<1> DEFINE N == Cardinality(Contract)
           Next1(A) == A \cup UNION {ir.depends[c] : c \in A \cap Contracts(ir)}
           IsWithin(W) == W = [n \in 0..N |->
                IF n = 0 THEN ir.uses[e]
                ELSE W[n - 1] \cup UNION {ir.depends[c] : c \in W[n - 1] \cap Contracts(ir)}]
           Within == CHOOSE W : IsWithin(W)
<1>0. N \in Nat
  BY ContractAssumption, FS_CardinalityType
<1>1. ReliesOn(ir, e) = Within[N]
  BY DEF ReliesOn
<1> HIDE DEF N
<1>2. ASSUME NEW A \in SUBSET P PROVE Next1(A) \subseteq P
  OBVIOUS
<1>3. IsWithin(Within)
  <2> DEFINE X == SUBSET P
             f == [A \in X |-> Next1(A)]
  <2>1. f \in [X -> X] /\ ir.uses[e] \in X
    BY <1>2
  <2>2. \A A \in X : f[A] = Next1(A)
    OBVIOUS
  <2> HIDE DEF X, f, Next1
  <2>3. PICK W : W \in Iterations(X, N, ir.uses[e], f)
    BY <1>0, <2>1, IterationExists
  <2>4. W \in [0..N -> X] /\ W[0] = ir.uses[e] /\ \A n \in 1..N : W[n] = f[W[n - 1]]
    BY <2>3 DEF Iterations
  <2>5. ASSUME NEW n \in 1..N PROVE W[n] = Next1(W[n - 1])
    <3>1. n - 1 \in 0..N /\ W[n] = f[W[n - 1]]
      BY <1>0, <2>4
    <3>2. W[n - 1] \in X
      BY <2>4, <3>1
    <3> QED BY <2>2, <3>1, <3>2
  <2>6. IsWithin(W)
    BY <1>0, <2>4, <2>5 DEF Next1
  <2> HIDE DEF IsWithin
  <2> QED BY <2>6
<1> HIDE DEF Within
<1>4. Within[0] = ir.uses[e] /\ \A n \in 1..N : Within[n] = Next1(Within[n - 1])
  BY <1>0, <1>3
<1> HIDE DEF IsWithin, Next1
<1> DEFINE T == {n \in Nat : n <= N => Within[n] \subseteq P}
<1>5. 0 \in T
  BY <1>4
<1>6. ASSUME NEW n \in Nat, n \in T PROVE n + 1 \in T
  <2>1. n + 1 <= N => Within[n + 1] = Next1(Within[n]) /\ Within[n] \subseteq P
    BY <1>0, <1>4, <1>6
  <2> QED BY <1>2, <2>1
<1> HIDE DEF T
<1>7. N \in T
  BY <1>0, <1>5, <1>6, NaturalInduction
<1> QED BY <1>0, <1>1, <1>7 DEF T

\* Whatever a reuse candidate relies on, in either revision, has kept its version.
LEMMA CandidatesRelyOnUnchanged ==
    ASSUME NEW b \in Revision, NEW h \in Revision, NEW e \in ReuseCandidates(IR[b], IR[h])
    PROVE  (ReliesOn(IR[b], e) \cup ReliesOn(IR[h], e)) \cap ChangedContracts(IR[b], IR[h]) = {}
<1> DEFINE base == IR[b]
           head == IR[h]
           changed == ChangedContracts(base, head)
           B == DependencyClosure(base, changed)
           H == DependencyClosure(head, changed)
           P == {c \in Contract : c \notin changed /\ c \notin B /\ c \notin H}
<1>1. e \in Effects(base) /\ e \in Effects(head) /\ SemanticSlice(base, e) = SemanticSlice(head, e)
  BY DEF ReuseCandidates, ReverifyEffects, NewEffects, ChangedEffects
<1>2. base.uses[e] \cap B = {} /\ head.uses[e] \cap H = {}
  <2>1. e \notin ContractAffected(base, head)
    BY <1>1 DEF ReuseCandidates, ReverifyEffects
  <2> QED BY <1>1, <2>1 DEF ContractAffected, ImpactedEffects
<1>3. base.uses[e] = head.uses[e]
  BY <1>1 DEF SemanticSlice
<1>4. /\ changed \cap Contracts(base) \subseteq B /\ DependentsOf(base, B) \subseteq B
      /\ changed \cap Contracts(head) \subseteq H /\ DependentsOf(head, H) \subseteq H
  BY DependencyClosureIsClosed
<1> HIDE DEF B, H
<1>5. ASSUME NEW c \in Contract, c \notin B, c \notin H PROVE c \in P
  <2>1. c \in changed => c \in Contracts(base) \/ c \in Contracts(head)
    BY DEF ChangedContracts, Contracts
  <2> QED BY <1>4, <1>5, <2>1
<1>6. base.uses[e] \subseteq P
  BY <1>1, <1>2, <1>3, <1>5, ContractAssumption
<1>7. ASSUME NEW c \in P, c \in Contracts(base) \/ c \in Contracts(head)
      PROVE  base.depends[c] \subseteq P /\ head.depends[c] \subseteq P
  <2>1. base.contract[c] = head.contract[c]
    BY DEF ChangedContracts
  <2>2. c \in Contracts(base) /\ c \in Contracts(head)
    BY <1>7, <2>1 DEF Contracts
  <2>3. base.depends[c] = head.depends[c] /\ base.depends[c] \subseteq Contract
    BY <2>1, <2>2, ContractAssumption
  <2>4. base.depends[c] \cap B = {} /\ head.depends[c] \cap H = {}
    BY <1>4, <2>2 DEF DependentsOf
  <2> QED BY <1>5, <2>3, <2>4
<1> HIDE DEF P
<1>8. ReliesOn(base, e) \subseteq P /\ ReliesOn(head, e) \subseteq P
  BY <1>3, <1>6, <1>7, ReliesOnIsLeast
<1> QED BY <1>8 DEF P

\* Evidence is reused only for effects that rely, in base and head, on contracts that kept
\* their versions, for dependency graphs of any size and shape (contract_impact.py).
THEOREM ReverificationCorrect == Spec => []ContractChangesReverify
<1>1. IInv => ContractChangesReverify
  <2> SUFFICES ASSUME IInv, NEW j \in Job, job[j].stage = "complete", NEW e \in job[j].reused
               PROVE  (ReliesOn(IR[job[j].base], e) \cup ReliesOn(IR[job[j].head], e))
                          \cap ChangedContracts(IR[job[j].base], IR[job[j].head]) = {}
    BY DEF ContractChangesReverify
  <2>1. job[j].base \in Revision /\ job[j].head \in Revision
    BY DEF IInv, Reviews
  <2>2. e \in ReuseCandidates(IR[job[j].base], IR[job[j].head])
    BY DEF IInv, ReviewOK, Planned
  <2> QED BY <2>1, <2>2, CandidatesRelyOnUnchanged
<1> QED BY <1>1, Invariance, PTL
-----------------------------------------------------------------------------
(* Snapshots *)

\* A guarantee that is established after the rounds has established itself, and so has every
\* one below it.
LEMMA ResolvedIsDeep ==
    ASSUME NEW manifest, IsFiniteSet(DOMAIN manifest),
           \A g \in DOMAIN manifest : manifest[g].needs \subseteq DOMAIN manifest,
           NEW V, NEW local \in [DOMAIN manifest -> V],
           NEW g \in DOMAIN manifest, Resolve(manifest, local)[g] = "established"
    PROVE  \A h \in Transitive(manifest, g) : h \in DOMAIN manifest /\ local[h] = "established"
<1> DEFINE D == DOMAIN manifest
           N == Cardinality(D)
           Resolved(x) == [i \in D |->
                IF local[i] = "established" /\ \E h \in manifest[i].needs : x[h] # "established"
                THEN "dependency_unestablished" ELSE local[i]]
           IsRound(R) == R = [n \in 0..N |-> IF n = 0 THEN local ELSE Resolved(R[n - 1])]
           Round == CHOOSE R : IsRound(R)
           Needs(A) == UNION {manifest[h].needs : h \in A}
           IsWithin(W) == W = [n \in 0..N |->
                IF n = 0 THEN {g} ELSE W[n - 1] \cup UNION {manifest[h].needs : h \in W[n - 1]}]
           Within == CHOOSE W : IsWithin(W)
<1>0. N \in Nat
  BY FS_CardinalityType
<1>1. Resolve(manifest, local) = Round[N]
  BY DEF Resolve
<1>2. Transitive(manifest, g) = Within[N]
  BY DEF Transitive
<1> HIDE DEF N
<1>3. IsRound(Round)
  <2> DEFINE X == [D -> V \cup {"dependency_unestablished"}]
             f == [x \in X |-> Resolved(x)]
  <2>1. ASSUME NEW x \in X PROVE Resolved(x) \in X
    OBVIOUS
  <2>2. local \in X
    OBVIOUS
  <2> HIDE DEF X, Resolved
  <2>3. f \in [X -> X]
    BY <2>1
  <2>4. \A x \in X : f[x] = Resolved(x)
    OBVIOUS
  <2> HIDE DEF f
  <2>5. PICK R : R \in Iterations(X, N, local, f)
    BY <1>0, <2>2, <2>3, IterationExists
  <2>6. R \in [0..N -> X] /\ R[0] = local /\ \A n \in 1..N : R[n] = f[R[n - 1]]
    BY <2>5 DEF Iterations
  <2>7. ASSUME NEW n \in 1..N PROVE R[n] = Resolved(R[n - 1])
    <3>1. n - 1 \in 0..N /\ R[n] = f[R[n - 1]]
      BY <1>0, <2>6
    <3> QED BY <2>4, <2>6, <3>1
  <2>8. IsRound(R)
    BY <1>0, <2>6, <2>7
  <2> HIDE DEF IsRound
  <2> QED BY <2>8
<1>4. IsWithin(Within)
  <2> DEFINE X == SUBSET D
             f == [A \in X |-> A \cup Needs(A)]
  <2>1. f \in [X -> X] /\ {g} \in X
    OBVIOUS
  <2>2. \A A \in X : f[A] = A \cup Needs(A)
    OBVIOUS
  <2> HIDE DEF X, f, Needs
  <2>3. PICK W : W \in Iterations(X, N, {g}, f)
    BY <1>0, <2>1, IterationExists
  <2>4. W \in [0..N -> X] /\ W[0] = {g} /\ \A n \in 1..N : W[n] = f[W[n - 1]]
    BY <2>3 DEF Iterations
  <2>5. ASSUME NEW n \in 1..N PROVE W[n] = W[n - 1] \cup Needs(W[n - 1])
    <3>1. n - 1 \in 0..N /\ W[n] = f[W[n - 1]]
      BY <1>0, <2>4
    <3> QED BY <2>2, <2>4, <3>1
  <2>6. IsWithin(W)
    BY <1>0, <2>4, <2>5 DEF Needs
  <2> HIDE DEF IsWithin
  <2> QED BY <2>6
<1> HIDE DEF Round, Within
<1>5. ASSUME NEW n \in 0..N, n # 0, NEW i \in D, Round[n][i] = "established"
      PROVE  local[i] = "established" /\ \A h \in manifest[i].needs : Round[n - 1][h] = "established"
  <2>1. Round[n][i] =
          IF local[i] = "established" /\ \E h \in manifest[i].needs : Round[n - 1][h] # "established"
          THEN "dependency_unestablished" ELSE local[i]
    <3>1. Round = [k \in 0..N |-> IF k = 0 THEN local ELSE Resolved(Round[k - 1])]
      BY <1>3
    <3> HIDE DEF Resolved
    <3>2. Round[n] = Resolved(Round[n - 1])
      BY <1>5, <3>1
    <3> USE DEF Resolved
    <3>3. Resolved(Round[n - 1])[i] =
            IF local[i] = "established" /\ \E h \in manifest[i].needs : Round[n - 1][h] # "established"
            THEN "dependency_unestablished" ELSE local[i]
      OBVIOUS
    <3> QED BY <3>2, <3>3, Zenon
  <2> QED BY <1>5, <2>1
<1>6. Round[0] = local
  BY <1>0, <1>3
<1>7. Within[0] = {g}
  BY <1>0, <1>4
<1>8. ASSUME NEW n \in 1..N PROVE Within[n] = Within[n - 1] \cup Needs(Within[n - 1])
  <2>1. n \in 0..N /\ n # 0
    BY <1>0
  <2> QED BY <1>4, <2>1
<1> HIDE DEF IsRound, IsWithin
<1> DEFINE Reached(k) == \A h \in Within[k] :
                h \in D /\ \E i \in 0..k : Round[N - i][h] = "established"
           T == {k \in Nat : k <= N => Reached(k)}
<1>9. 0 \in T
  <2>1. Round[N - 0][g] = "established"
    BY <1>0, <1>1
  <2> QED BY <1>7, <2>1
<1>10. ASSUME NEW k \in Nat, k \in T, k + 1 <= N PROVE Reached(k + 1)
  <2>1. Within[k + 1] = Within[k] \cup Needs(Within[k])
    <3>1. k + 1 \in 1..N /\ (k + 1) - 1 = k
      BY <1>0, <1>10
    <3> QED BY <1>8, <3>1
  <2>2. Reached(k)
    BY <1>0, <1>10
  <2>3. ASSUME NEW h \in Within[k]
        PROVE h \in D /\ \E i \in 0..(k + 1) : Round[N - i][h] = "established"
    BY <2>2
  <2>4. ASSUME NEW c \in Within[k], NEW h \in manifest[c].needs
        PROVE h \in D /\ \E i \in 0..(k + 1) : Round[N - i][h] = "established"
    <3>1. PICK i \in 0..k : Round[N - i][c] = "established"
      BY <2>2
    <3>2. N - i \in 0..N /\ N - i # 0 /\ (N - i) - 1 = N - (i + 1) /\ i + 1 \in 0..(k + 1)
      BY <1>0, <1>10
    <3>3. c \in D
      BY <2>2
    <3>4. Round[N - (i + 1)][h] = "established"
      BY <1>5, <3>1, <3>2, <3>3
    <3> QED BY <3>2, <3>3, <3>4
  <2> QED BY <2>1, <2>3, <2>4
<1> HIDE DEF Reached
<1>11. \A k \in Nat : k \in T => k + 1 \in T
  BY <1>10
<1>12. N \in T
  <2> HIDE DEF T
  <2> QED BY <1>0, <1>9, <1>11, NaturalInduction
<1>13. ASSUME NEW h \in Within[N] PROVE h \in D /\ local[h] = "established"
  <2>1. PICK i \in 0..N : Round[N - i][h] = "established" /\ h \in D
    BY <1>0, <1>12 DEF Reached
  <2>2. N - i \in 0..N
    BY <1>0
  <2> QED BY <1>5, <1>6, <2>1, <2>2
<1> QED BY <1>2, <1>13

-----------------------------------------------------------------------------
(* Evidence offered for a snapshot *)

\* What may be offered of a complete review is finite and sound.
LEMMA OfferedIsSound ==
    ASSUME IInv, NEW j \in Job, NEW evidence \in Offered(j)
    PROVE  /\ IsFiniteSet(evidence)
           /\ \A x \in evidence :
                /\ x.rev \in Revision
                /\ \/ Genuine(x)
                   \/ Supported(x, job[j].policy, job[j].runtime) /\ x.prior.rev \in Revision
<1> DEFINE Values(f) == {f[e] : e \in DOMAIN f}
           OK(x) == /\ x.rev \in Revision
                    /\ \/ Genuine(x)
                       \/ Supported(x, job[j].policy, job[j].runtime) /\ x.prior.rev \in Revision
<1>1. ASSUME NEW f \in Evidences, Sound(f, job[j].policy, job[j].runtime)
      PROVE  IsFiniteSet(Values(f)) /\ \A x \in Values(f) : OK(x)
  <2>1. PICK effects \in SUBSET Effect : f \in [effects -> AnyEvidence]
    BY <1>1 DEF Evidences
  <2>2. IsFiniteSet(effects)
    BY ContractAssumption, FS_Subset
  <2>3. f \in Surjection(effects, Values(f))
    BY <2>1 DEF Surjection
  <2>4. IsFiniteSet(Values(f))
    BY <2>2, <2>3, FS_Surjection
  <2>5. ASSUME NEW e \in effects PROVE OK(f[e])
    <3>1. f[e] \in AnyEvidence /\ e \in DOMAIN f
      BY <2>1
    <3>2. f[e].rev \in Revision /\ f[e].prior \in {NoPrior} \cup FreshEvidence
      BY <3>1 DEF AnyEvidence, Sealed
    <3>3. f[e].prior # NoPrior => f[e].prior.rev \in Revision
      BY <3>2 DEF FreshEvidence, Sealed
    <3> QED BY <1>1, <3>1, <3>2, <3>3 DEF Sound
  <2> HIDE DEF OK
  <2> QED BY <2>1, <2>4, <2>5
<1>2. /\ job[j].baseEvidence \in Evidences /\ job[j].headEvidence \in Evidences
      /\ Sound(job[j].baseEvidence, job[j].policy, job[j].runtime)
      /\ Sound(job[j].headEvidence, job[j].policy, job[j].runtime)
  BY DEF IInv, ReviewOK, Reviews
<1> DEFINE B == Values(job[j].baseEvidence)
           H == Values(job[j].headEvidence)
<1>3. evidence \in {H, B, B \cup H}
  BY DEF Offered
<1>4. IsFiniteSet(B) /\ IsFiniteSet(H) /\ \A x \in B \cup H : OK(x)
  BY <1>1, <1>2
<1> HIDE DEF B, H, OK
<1>5. IsFiniteSet(B \cup H)
  BY <1>4, FS_Union
<1>6. IsFiniteSet(evidence) /\ \A x \in evidence : OK(x)
  BY <1>3, <1>4, <1>5
<1> QED BY <1>6 DEF OK

\* The guarantee matches one effect, some evaluation of whose slice passed, and the
\* evidence of it is of this revision.
Grounded(manifest, r, evidence, h) ==
    \E e \in Effects(IR[r]) :
        /\ Matched(manifest, IR[r], h) = {e}
        /\ \E s \in Revision :
            /\ SemanticSlice(IR[s], e) = SemanticSlice(IR[r], e)
            /\ VerdictOn(IR[s], e) = "pass"
        /\ {x.rev : x \in {y \in evidence : y.effect = e}} = {r}

\* A guarantee is established by itself only through one passing record of its one effect.
LEMMA LocalIsGrounded ==
    ASSUME IInv, NEW j \in Job, NEW evidence \in Offered(j), NEW manifest, NEW h,
           NEW r \in Revision, NEW p,
           LocalStatus(manifest, IR[r], r, evidence, p, h) = "established"
    PROVE  Grounded(manifest, r, evidence, h)
<1> DEFINE matched == Matched(manifest, IR[r], h)
           records == {x \in evidence : x.effect \in matched}
           chosen == CHOOSE y \in records : TRUE
<1>1. /\ Cardinality(matched) = 1 /\ Cardinality(records) = 1
      /\ Admitted(chosen, IR[r], r, chosen.effect, p) /\ StatusOf(chosen.status) = "established"
  BY DEF LocalStatus
<1>2. IsFiniteSet(matched) /\ matched \subseteq Effects(IR[r])
  BY ContractAssumption, FS_Subset DEF Matched, Effects
<1>3. PICK e : matched = {e}
  BY <1>1, <1>2, FS_Singleton
<1>4. IsFiniteSet(records)
  BY OfferedIsSound, FS_Subset
<1>5. PICK x : records = {x}
  BY <1>1, <1>4, FS_Singleton
<1>6. chosen = x /\ x \in evidence /\ x.effect = e
  BY <1>3, <1>5
<1>7. x.rev = r /\ x.slice = SemanticSlice(IR[r], e) /\ x.status = "pass"
  BY <1>1, <1>6 DEF Admitted, StatusOf
<1>8. \E s \in Revision :
        /\ SemanticSlice(IR[s], e) = SemanticSlice(IR[r], e)
        /\ VerdictOn(IR[s], e) = "pass"
  <2>1. CASE Genuine(x)
    BY <1>6, <1>7, <2>1 DEF Genuine
  <2>2. CASE Supported(x, job[j].policy, job[j].runtime) /\ x.prior.rev \in Revision
    BY <1>6, <1>7, <2>2 DEF Supported
  <2> QED BY <1>6, <2>1, <2>2, OfferedIsSound
<1>9. {y \in evidence : y.effect = e} = {x}
  BY <1>3, <1>5
<1>10. {y.rev : y \in {z \in evidence : z.effect = e}} = {r}
  BY <1>7, <1>9
<1>11. e \in Effects(IR[r])
  BY <1>2, <1>3
<1> QED BY <1>3, <1>8, <1>10, <1>11 DEF Grounded

LEMMA GroundedHolds == IInv => EstablishedIsGrounded
<1> SUFFICES ASSUME IInv, NEW j \in Job, job[j].stage = "complete", NEW evidence \in Offered(j),
                    NEW g \in DOMAIN Manifest[job[j].policy],
                    Snapshot(Manifest[job[j].policy], IR[job[j].head], job[j].head, evidence,
                             job[j].policy)[g] = "established",
                    NEW h \in Transitive(Manifest[job[j].policy], g)
             PROVE  Grounded(Manifest[job[j].policy], job[j].head, evidence, h)
  BY DEF EstablishedIsGrounded, Grounded
<1> DEFINE r == job[j].head
           p == job[j].policy
           manifest == Manifest[p]
           Local(i) == LocalStatus(manifest, IR[r], r, evidence, p, i)
           local == [i \in DOMAIN manifest |-> Local(i)]
<1>1. r \in Revision /\ p \in Policy
  BY DEF IInv, Reviews
<1>2. /\ IsFiniteSet(DOMAIN manifest)
      /\ \A i \in DOMAIN manifest : manifest[i].needs \subseteq DOMAIN manifest
  BY <1>1, LedgerAssumption DEF ValidManifest
<1>3. Resolve(manifest, local)[g] = "established"
  BY DEF Snapshot
<1> DEFINE V == {Local(i) : i \in DOMAIN manifest}
<1>4. local \in [DOMAIN manifest -> V]
  OBVIOUS
<1> HIDE DEF local, V, manifest
<1>5. h \in DOMAIN manifest /\ local[h] = "established"
  BY <1>2, <1>3, <1>4, ResolvedIsDeep DEF manifest
<1>6. Local(h) = "established"
  BY <1>5 DEF local
<1>7. LocalStatus(manifest, IR[r], r, evidence, p, h) = "established"
  BY <1>6
<1>8. Grounded(manifest, r, evidence, h)
  BY <1>1, <1>7, LocalIsGrounded
<1> QED BY <1>8 DEF manifest

\* A snapshot calls a guarantee established only on evaluations that passed, of the one
\* effect that it and each guarantee below it matches, for manifests of any depth and any
\* evidence a review offers (guarantee_assurance_state.py).
THEOREM SnapshotCorrect == Spec => []EstablishedIsGrounded
BY GroundedHolds, Invariance, PTL
-----------------------------------------------------------------------------
(* The ledger *)

\* An entry commits to its predecessor, which is an earlier one, as it was built.
Linked(n) ==
    LET entry == ledger[n]
        before == IF entry.previous = Genesis THEN <<>> ELSE ledger[entry.previous].states
    IN  /\ entry.previous \in 0..(n - 1)
        /\ entry.sequence \in Nat
        /\ entry.sequence = IF entry.previous = Genesis THEN 0
                            ELSE ledger[entry.previous].sequence + 1
        /\ entry.previous # Genesis => entry.base = ledger[entry.previous].head
        /\ entry.deltas = Deltas(before, entry.states)

LedgerInv ==
    /\ \E entries : ledger \in Seq(entries)
    /\ \A n \in DOMAIN ledger : Linked(n)

\* Appending to a sequence that is known by its length and elements.
LEMMA AppendStep ==
    ASSUME NEW S, NEW s \in Seq(S), NEW x
    PROVE  /\ Append(s, x) \in Seq(S \cup {x})
           /\ Len(Append(s, x)) = Len(s) + 1
           /\ DOMAIN Append(s, x) = 1..(Len(s) + 1)
           /\ \A n \in 1..Len(s) : Append(s, x)[n] = s[n]
           /\ Append(s, x)[Len(s) + 1] = x
<1>1. s \in Seq(S \cup {x})
  OBVIOUS
<1> QED BY <1>1

LEMMA InitLedger == Init => LedgerInv
<1>1. <<>> \in Seq({}) /\ DOMAIN <<>> = {}
  OBVIOUS
<1> QED BY <1>1 DEF Init, LedgerInv

LEMMA SealLedger ==
    ASSUME LedgerInv, NEW j \in Job, Seal(j)
    PROVE  LedgerInv'
<1> DEFINE r == job[j].head
           p == job[j].policy
<1>1. PICK evidence \in Offered(j), previous \in 0..Len(ledger) :
        LET states == Snapshot(Manifest[p], IR[r], r, evidence, p)
            old == IF previous = Genesis THEN <<>> ELSE ledger[previous].states
        IN  /\ MayFollow(job[j].base, previous)
            /\ ledger' = Append(ledger,
                 [sequence |-> IF previous = Genesis THEN 0 ELSE ledger[previous].sequence + 1,
                  previous |-> previous, base |-> job[j].base, head |-> r,
                  states |-> states, deltas |-> Deltas(old, states)])
  BY DEF Seal
<1> DEFINE states == Snapshot(Manifest[p], IR[r], r, evidence, p)
           old == IF previous = Genesis THEN <<>> ELSE ledger[previous].states
           entry == [sequence |-> IF previous = Genesis THEN 0 ELSE ledger[previous].sequence + 1,
                     previous |-> previous, base |-> job[j].base, head |-> r,
                     states |-> states, deltas |-> Deltas(old, states)]
<1>2. ledger' = Append(ledger, entry) /\ MayFollow(job[j].base, previous)
  BY <1>1
<1>3. /\ entry.sequence = IF previous = Genesis THEN 0 ELSE ledger[previous].sequence + 1
      /\ entry.previous = previous /\ entry.base = job[j].base /\ entry.states = states
      /\ entry.deltas = Deltas(old, entry.states)
  OBVIOUS
<1> HIDE DEF entry, states, r, p
<1>4. PICK S : ledger \in Seq(S)
  BY DEF LedgerInv
<1> PICK N \in Nat : N = Len(ledger)
  BY <1>4
<1>5. /\ DOMAIN ledger = 1..N
      /\ ledger' \in Seq(S \cup {entry})
      /\ DOMAIN ledger' = 1..(N + 1)
      /\ \A n \in 1..N : ledger'[n] = ledger[n]
      /\ ledger'[N + 1] = entry
  BY <1>2, <1>4, AppendStep
<1>6. previous \in 0..N /\ (previous # Genesis => previous \in 1..N)
  BY <1>5 DEF Genesis
<1>7. ASSUME NEW n \in 1..N PROVE Linked(n)'
  <2>1. Linked(n)
    BY <1>5 DEF LedgerInv
  <2>2. ledger[n].previous \in 0..(n - 1)
    BY <2>1 DEF Linked
  <2>3. ledger'[n] = ledger[n]
    BY <1>5
  <2>4. ledger[n].previous # Genesis => ledger'[ledger[n].previous] = ledger[ledger[n].previous]
    BY <1>5, <2>2 DEF Genesis
  <2> QED BY <2>1, <2>3, <2>4 DEF Linked
<1>8. Linked(N + 1)'
  <2>1. previous # Genesis => ledger'[previous] = ledger[previous] /\ Linked(previous)
    BY <1>5, <1>6 DEF LedgerInv
  <2>2. entry.sequence \in Nat
    BY <1>3, <2>1 DEF Linked
  <2>3. previous # Genesis => entry.base = ledger[previous].head
    BY <1>2, <1>3 DEF MayFollow
  <2>4. previous \in 0..((N + 1) - 1)
    BY <1>5, <1>6
  <2> QED BY <1>3, <1>5, <2>1, <2>2, <2>3, <2>4 DEF Linked
<1>9. \A n \in DOMAIN ledger' : Linked(n)'
  <2>1. \A n \in 1..(N + 1) : n \in 1..N \/ n = N + 1
    BY <1>5
  <2> QED BY <1>5, <1>7, <1>8, <2>1
<1> QED BY <1>5, <1>9 DEF LedgerInv

LEMMA NextLedger == LedgerInv /\ [Next]_vars => LedgerInv'
<1> SUFFICES ASSUME LedgerInv, [Next]_vars PROVE LedgerInv'
  OBVIOUS
<1>1. CASE UNCHANGED ledger
  BY <1>1 DEF LedgerInv, Linked
<1>2. CASE \E j \in Job : Seal(j)
  BY <1>2, SealLedger
<1> QED BY <1>1, <1>2 DEF Next, vars
-----------------------------------------------------------------------------
IsHistory(B) ==
    B = [n \in DOMAIN ledger |->
            IF ledger[n].previous = Genesis THEN <<n>> ELSE Append(B[ledger[n].previous], n)]

LEMMA BackExists ==
    ASSUME LedgerInv
    PROVE  \E B : IsHistory(B)
<1> DEFINE N == Len(ledger)
           D(k) == {n \in DOMAIN ledger : n <= k}
           Good(k, B) == B = [n \in D(k) |->
                IF ledger[n].previous = Genesis THEN <<n>> ELSE Append(B[ledger[n].previous], n)]
           T == {k \in Nat : \E B : Good(k, B)}
<1>0. N \in Nat /\ DOMAIN ledger = 1..N
  BY DEF LedgerInv
<1>1. 0 \in T
  <2>1. D(0) = {}
    BY <1>0
  <2>2. Good(0, [n \in {} |-> n])
    BY <2>1
  <2> QED BY <2>2
<1>2. ASSUME NEW k \in Nat, k \in T PROVE k + 1 \in T
  <2>1. PICK B : Good(k, B)
    BY <1>2
  <2> DEFINE last == IF ledger[k + 1].previous = Genesis THEN <<k + 1>>
                     ELSE Append(B[ledger[k + 1].previous], k + 1)
             C == [n \in D(k + 1) |-> IF n = k + 1 THEN last ELSE B[n]]
  <2>2. ASSUME NEW n \in D(k + 1)
        PROVE  C[n] = IF ledger[n].previous = Genesis THEN <<n>>
                      ELSE Append(C[ledger[n].previous], n)
    <3>1. Linked(n) /\ n \in Nat
      BY <1>0 DEF LedgerInv
    <3>2. ledger[n].previous \in 0..(n - 1)
      BY <3>1 DEF Linked
    <3>3. ledger[n].previous # Genesis => ledger[n].previous \in D(k + 1)
                /\ C[ledger[n].previous] = B[ledger[n].previous]
      BY <1>0, <1>2, <3>1, <3>2 DEF Genesis
    <3>4. CASE n = k + 1
      BY <3>3, <3>4
    <3>5. CASE n # k + 1
      <4>1. n \in D(k) /\ C[n] = B[n]
        BY <1>0, <1>2, <3>1, <3>5
      <4>2. B[n] = IF ledger[n].previous = Genesis THEN <<n>>
                   ELSE Append(B[ledger[n].previous], n)
        BY <2>1, <4>1
      <4> QED BY <3>3, <4>1, <4>2
    <3> QED BY <3>4, <3>5
  <2>3. Good(k + 1, C)
    BY <2>2
  <2> HIDE DEF C, Good
  <2> QED BY <1>2, <2>3
<1> HIDE DEF T
<1>3. N \in T
  BY <1>0, <1>1, <1>2, NaturalInduction
<1>4. PICK B : Good(N, B)
  BY <1>3 DEF T
<1>5. D(N) = DOMAIN ledger
  BY <1>0
<1> QED BY <1>4, <1>5 DEF IsHistory

LEMMA HistoryStep ==
    ASSUME LedgerInv, NEW i \in DOMAIN ledger
    PROVE  History(i) = IF ledger[i].previous = Genesis THEN <<i>>
                        ELSE Append(History(ledger[i].previous), i)
<1> DEFINE B == CHOOSE C : IsHistory(C)
<1>1. IsHistory(B)
  BY BackExists
<1>2. \A n : History(n) = B[n]
  BY DEF History, IsHistory
<1> HIDE DEF B
<1> QED BY <1>1, <1>2 DEF IsHistory
-----------------------------------------------------------------------------
\* An entry with its predecessors is a chain that verifies, and ends with the entry.
LEMMA HistoryVerifies ==
    ASSUME LedgerInv
    PROVE  \A i \in DOMAIN ledger :
                /\ History(i) \in Seq(DOMAIN ledger) /\ History(i) # <<>>
                /\ History(i)[Len(History(i))] = i
                /\ ChainVerifies(History(i))
<1> DEFINE Good(i) == /\ History(i) \in Seq(DOMAIN ledger) /\ History(i) # <<>>
                      /\ History(i)[Len(History(i))] = i
                      /\ ChainVerifies(History(i))
           T == {i \in Nat : i \in DOMAIN ledger => Good(i)}
<1>0. Len(ledger) \in Nat /\ DOMAIN ledger = 1..Len(ledger)
  BY DEF LedgerInv
<1>1. ASSUME NEW i \in Nat, \A m \in Nat : m < i => m \in T, i \in DOMAIN ledger
      PROVE  Good(i)
  <2>0. Linked(i)
    BY <1>1 DEF LedgerInv
  <2>1. CASE ledger[i].previous = Genesis
    <3>1. History(i) = <<i>>
      BY <1>1, <2>1, HistoryStep
    <3>2. ledger[i].sequence = 0 /\ ledger[i].deltas = Deltas(<<>>, ledger[i].states)
      BY <2>0, <2>1 DEF Linked
    <3>3. ChainVerifies(<<i>>)
      BY <3>2 DEF ChainVerifies
    <3> QED BY <1>1, <3>1, <3>3
  <2>2. CASE ledger[i].previous # Genesis
    <3> DEFINE p == ledger[i].previous
               h == History(p)
    <3>1. p \in Nat /\ p < i /\ p \in DOMAIN ledger
      BY <1>0, <1>1, <2>0, <2>2 DEF Linked, Genesis
    <3>2. Good(p)
      BY <1>1, <3>1
    <3>3. History(i) = Append(h, i)
      BY <1>1, <2>2, HistoryStep
    <3>4. /\ ledger[i].sequence = ledger[p].sequence + 1 /\ ledger[i].base = ledger[p].head
          /\ ledger[i].deltas = Deltas(ledger[p].states, ledger[i].states)
      BY <2>0, <2>2 DEF Linked
    <3> HIDE DEF h, p
    <3>5. h \in Seq(DOMAIN ledger) /\ h # <<>> /\ h[Len(h)] = p /\ ChainVerifies(h)
      BY <3>2 DEF h
    <3>6. PICK N \in Nat : N = Len(h) /\ N >= 1
      BY <3>5
    <3>7. /\ Append(h, i) \in Seq(DOMAIN ledger \cup {i})
          /\ Len(Append(h, i)) = N + 1 /\ DOMAIN Append(h, i) = 1..(N + 1)
          /\ \A n \in 1..N : Append(h, i)[n] = h[n]
          /\ Append(h, i)[N + 1] = i
      BY <3>5, <3>6, AppendStep
    <3>8. DOMAIN ledger \cup {i} = DOMAIN ledger
      BY <1>1
    <3>9. ASSUME NEW n \in 1..(N + 1), n # 1
          PROVE  /\ LinksTo(ledger[Append(h, i)[n]], Append(h, i)[n - 1])
                 /\ ledger[Append(h, i)[n]].deltas
                      = Deltas(ledger[Append(h, i)[n - 1]].states, ledger[Append(h, i)[n]].states)
      <4>1. CASE n = N + 1
        <5>1. Append(h, i)[n] = i /\ Append(h, i)[n - 1] = p
          BY <3>5, <3>6, <3>7, <4>1
        <5>2. LinksTo(ledger[i], p)
          BY <3>4 DEF LinksTo, p
        <5> QED BY <3>4, <5>1, <5>2
      <4>2. CASE n # N + 1
        <5>1. n \in 1..N /\ n - 1 \in 1..N /\ DOMAIN h = 1..N
          BY <3>5, <3>6, <3>9, <4>2
        <5>2. Append(h, i)[n] = h[n] /\ Append(h, i)[n - 1] = h[n - 1]
          BY <3>7, <5>1
        <5> QED BY <3>5, <3>9, <5>1, <5>2 DEF ChainVerifies
      <4> QED BY <4>1, <4>2
    <3>10. /\ Append(h, i)[1] = h[1] /\ 1 \in DOMAIN h
      BY <3>5, <3>6, <3>7
    <3>11. /\ ledger[h[1]].sequence = 0
           /\ ledger[h[1]].deltas = Deltas(<<>>, ledger[h[1]].states)
      BY <3>5, <3>10 DEF ChainVerifies
    <3>12. Append(h, i) # <<>>
      BY <3>7
    <3>13. ChainVerifies(Append(h, i))
      BY <3>7, <3>9, <3>10, <3>11, <3>12 DEF ChainVerifies
    <3> QED BY <3>3, <3>7, <3>8, <3>12, <3>13
  <2> QED BY <2>1, <2>2
<1> HIDE DEF Good
<1>2. Nat \subseteq T
  <2>1. \A i \in Nat : (\A m \in Nat : m < i => m \in T) => i \in T
    BY <1>1
  <2> HIDE DEF T
  <2> QED BY <2>1, StrongInduction
<1> QED BY <1>0, <1>2 DEF Good

\* A chain that verifies is its last entry with its predecessors.
LEMMA VerifiedIsHistory ==
    ASSUME LedgerInv, NEW n \in Nat \ {0}, NEW chain \in [1..n -> DOMAIN ledger],
           ChainVerifies(chain)
    PROVE  chain = History(chain[n])
<1> DEFINE Prefix(k) == [m \in 1..k |-> chain[m]]
           T == {k \in Nat : k \in 1..n => History(chain[k]) = Prefix(k)}
<1>0. Len(ledger) \in Nat /\ DOMAIN ledger = 1..Len(ledger)
  BY DEF LedgerInv
<1>1. 0 \in T
  OBVIOUS
<1>2. ASSUME NEW k \in Nat, k \in T, k + 1 \in 1..n
      PROVE  History(chain[k + 1]) = Prefix(k + 1)
  <2>0. chain[k + 1] \in DOMAIN ledger /\ Linked(chain[k + 1])
    BY <1>2 DEF LedgerInv
  <2>1. CASE k = 0
    <3>1. ledger[chain[1]].sequence = 0
      BY DEF ChainVerifies
    <3>2. ledger[chain[1]].previous = Genesis
      <4> DEFINE p == ledger[chain[1]].previous
      <4>1. ASSUME p # Genesis PROVE FALSE
        <5>1. p \in DOMAIN ledger
          BY <1>0, <2>0, <2>1, <4>1 DEF Linked, Genesis
        <5>2. ledger[p].sequence \in Nat
          BY <5>1 DEF LedgerInv, Linked
        <5>3. ledger[chain[1]].sequence = ledger[p].sequence + 1
          BY <2>0, <2>1, <4>1 DEF Linked
        <5> QED BY <3>1, <5>2, <5>3
      <4> QED BY <4>1
    <3>3. History(chain[1]) = <<chain[1]>>
      BY <2>0, <2>1, <3>2, HistoryStep
    <3>4. Prefix(1) = <<chain[1]>>
      OBVIOUS
    <3> QED BY <2>1, <3>3, <3>4
  <2>2. CASE k # 0
    <3>1. k \in 1..n /\ k + 1 \in DOMAIN chain /\ k + 1 # 1 /\ (k + 1) - 1 = k
      BY <1>2, <2>2
    <3>2. ledger[chain[k + 1]].previous = chain[k]
      BY <3>1 DEF ChainVerifies, LinksTo
    <3>3. chain[k] # Genesis
      <4>1. chain[k] \in DOMAIN ledger
        BY <3>1
      <4> QED BY <1>0, <4>1 DEF Genesis
    <3>4. History(chain[k + 1]) = Append(History(chain[k]), chain[k + 1])
      BY <2>0, <3>2, <3>3, HistoryStep
    <3>5. History(chain[k]) = Prefix(k)
      BY <1>2, <3>1
    <3>6. Prefix(k) \in Seq(DOMAIN ledger) /\ Len(Prefix(k)) = k
      BY <3>1
    <3>7. Append(Prefix(k), chain[k + 1]) = Prefix(k + 1)
      BY <3>1, <3>6
    <3> QED BY <3>4, <3>5, <3>7
  <2> QED BY <2>1, <2>2
<1>3. \A k \in Nat : k \in T => k + 1 \in T
  BY <1>2
<1> HIDE DEF T
<1>4. n \in T
  BY <1>1, <1>3, NaturalInduction
<1>5. History(chain[n]) = [m \in 1..n |-> chain[m]]
  BY <1>4 DEF T
<1> QED BY <1>5

LEMMA LossIsFound ==
    ASSUME NEW n \in Nat, NEW chain \in [1..n -> DOMAIN ledger], ChainVerifies(chain),
           NEW i \in 1..n, NEW k \in 1..n, NEW g, i < k,
           Holds(ledger[chain[i]], g), ~ Holds(ledger[chain[k]], g)
    PROVE  \E m \in (i + 1)..k :
                /\ g \in DOMAIN ledger[chain[m]].deltas
                /\ ledger[chain[m]].deltas[g] \in {"assurance_lost", "removed_guarantee"}
<1> DEFINE Lost == {m \in (i + 1)..k : ~ Holds(ledger[chain[m]], g)}
<1>1. Lost \in SUBSET Nat /\ k \in Lost
  OBVIOUS
<1>2. PICK m \in Lost : \A l \in Lost : m <= l
  <2> HIDE DEF Lost
  <2> QED BY <1>1, LeastNatural
<1>3. /\ m \in (i + 1)..k /\ m \in DOMAIN chain /\ m # 1
      /\ ~ Holds(ledger[chain[m]], g) /\ Holds(ledger[chain[m - 1]], g)
  <2>1. m \in (i + 1)..k /\ ~ Holds(ledger[chain[m]], g)
    BY <1>2
  <2>2. CASE m = i + 1
    BY <2>1, <2>2
  <2>3. CASE m # i + 1
    <3>1. m - 1 \in (i + 1)..k /\ ~ (m <= m - 1)
      BY <2>1, <2>3
    <3>2. m - 1 \notin Lost
      BY <1>2, <3>1
    <3> QED BY <2>1, <3>1, <3>2
  <2> QED BY <2>2, <2>3
<1> DEFINE old == ledger[chain[m - 1]].states
           new == ledger[chain[m]].states
<1>4. ledger[chain[m]].deltas = Deltas(old, new)
  BY <1>3 DEF ChainVerifies
<1>5. g \in DOMAIN old /\ old[g] = "established"
  BY <1>3 DEF Holds, Guarantees
<1>6. g \in DOMAIN new => new[g] # "established"
  BY <1>3 DEF Holds, Guarantees
<1> HIDE DEF old, new
<1>7. /\ g \in DOMAIN Deltas(old, new)
      /\ Deltas(old, new)[g] \in {"assurance_lost", "removed_guarantee"}
  <2>1. StateIn(old, g) = "established" /\ StateIn(new, g) # "established"
    BY <1>5, <1>6 DEF StateIn
  <2>2. /\ g \in DOMAIN Deltas(old, new)
        /\ Deltas(old, new)[g] = DeltaKind(StateIn(old, g), StateIn(new, g))
    BY <1>5 DEF Deltas
  <2>3. DeltaKind(StateIn(old, g), StateIn(new, g)) \in {"assurance_lost", "removed_guarantee"}
    BY <2>1 DEF DeltaKind
  <2> QED BY <2>2, <2>3
<1> QED BY <1>3, <1>4, <1>7

LEMMA LedgerInvariance == Spec => []LedgerInv
BY InitLedger, NextLedger, PTL DEF Spec

\* Every entry, on whichever one it was built, verifies with its predecessors, in ledgers of
\* any length with any forks (guarantee_assurance_ledger.py).
THEOREM LedgerVerifies == Spec => []BuiltChainVerifies
<1>1. LedgerInv => BuiltChainVerifies
  BY HistoryVerifies DEF BuiltChainVerifies
<1> QED BY <1>1, LedgerInvariance, PTL

\* Only one order of genuine entries verifies for a last entry: its own history.
THEOREM LedgerCommits == Spec => []LastEntryCommits
<1>1. LedgerInv => LastEntryCommits
  <2> SUFFICES ASSUME LedgerInv, NEW chain \in Chains, ChainVerifies(chain)
               PROVE  chain = History(chain[Len(chain)])
    BY DEF LastEntryCommits
  <2>1. PICK n \in 1..Len(ledger) : chain \in [1..n -> DOMAIN ledger]
    BY DEF Chains
  <2>2. n \in Nat \ {0} /\ Len(chain) = n
    BY <2>1 DEF LedgerInv
  <2> QED BY <2>1, <2>2, VerifiedIsHistory
<1> QED BY <1>1, LedgerInvariance, PTL

\* Along any chain that verifies, some entry reports a guarantee that is no longer
\* established.
THEOREM LossCorrect == Spec => []LossIsRecorded
<1>1. LedgerInv => LossIsRecorded
  <2> SUFFICES ASSUME LedgerInv, NEW chain \in Chains, ChainVerifies(chain),
                      NEW i \in DOMAIN chain, NEW k \in DOMAIN chain, NEW g, i < k,
                      Holds(ledger[chain[i]], g), ~ Holds(ledger[chain[k]], g)
               PROVE  \E m \in (i + 1)..k :
                        /\ g \in DOMAIN ledger[chain[m]].deltas
                        /\ ledger[chain[m]].deltas[g] \in {"assurance_lost", "removed_guarantee"}
    BY DEF LossIsRecorded
  <2>1. PICK n \in 1..Len(ledger) : chain \in [1..n -> DOMAIN ledger]
    BY DEF Chains
  <2>2. n \in Nat /\ DOMAIN chain = 1..n
    BY <2>1 DEF LedgerInv
  <2> QED BY <2>1, <2>2, LossIsFound
<1> QED BY <1>1, LedgerInvariance, PTL
=============================================================================
