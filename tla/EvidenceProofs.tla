--------------------------- MODULE EvidenceProofs ---------------------------
(***************************************************************************)
(* Facts about the decision operators, for every set of findings and every  *)
(* bundle, finite or not: severities take finitely many values, so extrema  *)
(* exist.  Then what adapters report, how the results of one obligation are *)
(* aggregated, and the evidence projected from the aggregate.               *)
(***************************************************************************)
EXTENDS Evidence, TLAPS


IsFinding(f) == f.status \in VerificationStatus /\ f.required \in BOOLEAN

IsItem(e) ==
    /\ \A c \in e.claims : c.status \in VerificationStatus /\ c.required \in BOOLEAN
    /\ e.state \in DecisionState \cup {Absent}
    /\ e.recommendation \in MergeRecommendation

\* Among finitely many severities there is a most severe one.
LEMMA MostSevereExists ==
    ASSUME NEW S \in SUBSET DecisionState, S # {}
    PROVE  \E s \in S : \A t \in S : AtLeast(s, t)
<1>1. CASE "block" \in S
  BY <1>1 DEF AtLeast, DecisionSeverity, DecisionState
<1>2. CASE "block" \notin S /\ "error" \in S
  BY <1>2 DEF AtLeast, DecisionSeverity, DecisionState
<1>3. CASE S \cap {"block", "error"} = {} /\ "unknown" \in S
  BY <1>3 DEF AtLeast, DecisionSeverity, DecisionState
<1>4. CASE S \cap {"block", "error", "unknown"} = {} /\ "skipped" \in S
  BY <1>4 DEF AtLeast, DecisionSeverity, DecisionState
<1>5. CASE S \cap {"block", "error", "unknown", "skipped"} = {} /\ "needs_review" \in S
  BY <1>5 DEF AtLeast, DecisionSeverity, DecisionState
<1>6. CASE S = {"allow"}
  BY <1>6 DEF AtLeast, DecisionSeverity, DecisionState
<1>7. QED
  BY <1>1, <1>2, <1>3, <1>4, <1>5, <1>6 DEF DecisionState

\* MostSevere picks a member of the set that dominates it.
LEMMA MostSevereDominates ==
    ASSUME NEW S \in SUBSET DecisionState, S # {}
    PROVE  MostSevere(S) \in S /\ \A t \in S : AtLeast(MostSevere(S), t)
BY MostSevereExists DEF MostSevere

\* A non-empty set of findings has a member with the worst status.
LEMMA WorstExists ==
    ASSUME NEW F, F # {}, \A f \in F : f.status \in VerificationStatus
    PROVE  Worst(F) # {}
<1> DEFINE Has(st) == \E f \in F : f.status = st
<1>1. CASE Has("fail")
  BY <1>1 DEF Worst, ClaimSeverity, VerificationStatus
<1>2. CASE ~Has("fail") /\ Has("error")
  BY <1>2 DEF Worst, ClaimSeverity, VerificationStatus
<1>3. CASE ~Has("fail") /\ ~Has("error") /\ Has("unknown")
  BY <1>3 DEF Worst, ClaimSeverity, VerificationStatus
<1>4. CASE ~Has("fail") /\ ~Has("error") /\ ~Has("unknown") /\ Has("skipped")
  BY <1>4 DEF Worst, ClaimSeverity, VerificationStatus
<1>5. CASE \A f \in F : f.status = "pass"
  BY <1>5 DEF Worst, ClaimSeverity, VerificationStatus
<1>6. QED
  BY <1>1, <1>2, <1>3, <1>4, <1>5 DEF VerificationStatus

-----------------------------------------------------------------------------
\* The claim-level decision is a member of the lattice, and so is the decision
\* before the policy overlay.
LEMMA AggregateDecisionType ==
    ASSUME NEW F, \A f \in F : IsFinding(f), NEW policy \in Policy
    PROVE  /\ AggregateDecision(F, policy).state \in DecisionState
           /\ AggregateDecision(F, policy).original \in DecisionState
<1> DEFINE short == Shortfall(F)
           f == CHOOSE g \in Worst(short) : TRUE
<1>1. CASE Failures(F) # {}
  BY <1>1 DEF AggregateDecision, Outcome, DecisionState
<1>2. CASE Failures(F) = {} /\ short # {}
  <2>1. f \in short
    BY <1>2, WorstExists DEF Worst, Shortfall, Required, IsFinding
  <2>2. f.status \in VerificationStatus \ {"pass", "fail"}
    BY <2>1, <1>2 DEF Shortfall, Required, Failures, IsFinding
  <2>3. BaseState(f.status) \in {"skipped", "unknown", "error"}
    BY <2>2 DEF BaseState, VerificationStatus
  <2>4. Overlay(BaseState(f.status), policy) \in DecisionState
    BY <2>3 DEF Overlay, ApplyStrictPolicy, Policy, DecisionState
  <2>5. AggregateDecision(F, policy)
          = Outcome(Overlay(BaseState(f.status), policy), BaseState(f.status), Ids(Worst(short)))
    BY <1>2 DEF AggregateDecision
  <2>6. QED
    BY <2>3, <2>4, <2>5 DEF Outcome, DecisionState
<1>3. CASE Failures(F) = {} /\ short = {}
  BY <1>3 DEF AggregateDecision, Outcome, DecisionState
<1>4. QED
  BY <1>1, <1>2, <1>3

\* The claim-level decision allows exactly what it should: no failure, no
\* required shortfall, and something required.
LEMMA AggregateDecisionAllows ==
    ASSUME NEW F, \A f \in F : IsFinding(f), NEW policy \in Policy,
           AggregateDecision(F, policy).state = "allow"
    PROVE  Failures(F) = {} /\ Shortfall(F) = {} /\ Required(F) # {}
<1> DEFINE short == Shortfall(F)
           f == CHOOSE g \in Worst(short) : TRUE
<1>1. Failures(F) = {}
  BY DEF AggregateDecision, Outcome
<1>2. CASE short # {}
  <2>1. f \in short
    BY <1>2, WorstExists DEF Worst, Shortfall, Required, IsFinding
  <2>2. f.status \in VerificationStatus \ {"pass", "fail"}
    BY <2>1, <1>1 DEF Shortfall, Required, Failures, IsFinding
  <2>3. BaseState(f.status) \in {"skipped", "unknown", "error"}
    BY <2>2 DEF BaseState, VerificationStatus
  <2>4. Overlay(BaseState(f.status), policy) # "allow"
    BY <2>3 DEF Overlay, ApplyStrictPolicy, Policy
  <2>5. AggregateDecision(F, policy).state = Overlay(BaseState(f.status), policy)
    BY <1>1, <1>2 DEF AggregateDecision, Outcome
  <2>6. QED
    BY <2>4, <2>5
<1>3. CASE short = {} /\ Required(F) = {}
  BY <1>1, <1>3 DEF AggregateDecision, Outcome
<1>4. QED
  BY <1>1, <1>2, <1>3

\* A failure among the findings is the whole outcome.
LEMMA AggregateDecisionFails ==
    ASSUME NEW F, NEW policy, Failures(F) # {}
    PROVE  AggregateDecision(F, policy).state = "block"
BY DEF AggregateDecision, Outcome

-----------------------------------------------------------------------------
\* The findings of typed items are findings.
LEMMA BundleFindings ==
    ASSUME NEW bundle, \A e \in bundle : IsItem(e)
    PROVE  \A f \in FindingsFromBundle(bundle) : IsFinding(f)
BY DEF FindingsFromBundle, IsItem, IsFinding

\* The stored decision of an item, read conservatively, is in the lattice.
LEMMA RawStateType ==
    ASSUME NEW e
    PROVE  RawEvidenceState(e) \in DecisionState
<1>1. \A t : LegacyToState(t) \in DecisionState
  BY DEF LegacyToState, DecisionState
<1>2. "needs_review" \in DecisionState
  BY DEF DecisionState
<1>3. CASE e.state # Absent
  BY <1>1, <1>3 DEF RawEvidenceState
<1>4. CASE e.state = Absent /\ e.recommendation # Absent
  BY <1>1, <1>4 DEF RawEvidenceState
<1>5. CASE e.state = Absent /\ e.recommendation = Absent
  BY <1>2, <1>5 DEF RawEvidenceState
<1>6. QED
  BY <1>3, <1>4, <1>5

\* The overlay stays in the lattice, and turns nothing into an allow.
LEMMA OverlayType ==
    ASSUME NEW s \in DecisionState, NEW policy \in Policy
    PROVE  /\ Overlay(s, policy) \in DecisionState
           /\ Overlay(s, policy) = "allow" => s = "allow"
<1>1. CASE s = "unknown"
  BY <1>1 DEF Overlay, ApplyStrictPolicy, Policy, DecisionState
<1>2. CASE s = "skipped"
  BY <1>2 DEF Overlay, ApplyStrictPolicy, Policy, DecisionState
<1>3. CASE s \notin {"unknown", "skipped"}
  BY <1>3 DEF Overlay, ApplyStrictPolicy, DecisionState
<1>4. QED
  BY <1>1, <1>2, <1>3

\* The floor an item sets is in the lattice.
LEMMA FloorType ==
    ASSUME NEW e, NEW policy \in Policy
    PROVE  EvidenceFloor(e, policy) \in DecisionState
BY RawStateType, OverlayType DEF EvidenceFloor

\* The decision of a bundle is never more permissive than the decision of an
\* item in it, whatever the bundle and the policy.
THEOREM BundleDominatesItems ==
    ASSUME NEW bundle, \A e \in bundle : IsItem(e), NEW policy \in Policy
    PROVE  /\ AggregateBundleDecision(bundle, policy).state \in DecisionState
           /\ \A e \in bundle :
                AtLeast(AggregateBundleDecision(bundle, policy).state, EvidenceFloor(e, policy))
<1> DEFINE claims == AggregateDecision(FindingsFromBundle(bundle), policy)
           floors == {EvidenceFloor(e, policy) : e \in bundle}
<1>1. claims.state \in DecisionState
  BY BundleFindings, AggregateDecisionType
<1>2. floors \in SUBSET DecisionState
  BY FloorType
<1>3. CASE \A s \in floors : AtLeast(claims.state, s)
  <2>1. AggregateBundleDecision(bundle, policy).state = claims.state
    BY <1>3 DEF AggregateBundleDecision, BundleOutcome
  <2>2. QED
    BY <1>1, <1>3, <2>1
<1>4. CASE ~ \A s \in floors : AtLeast(claims.state, s)
  <2>1. AggregateBundleDecision(bundle, policy).state = MostSevere(floors)
    BY <1>4 DEF AggregateBundleDecision, BundleOutcome
  <2>2. floors # {}
    BY <1>4
  <2>3. MostSevere(floors) \in floors /\ \A t \in floors : AtLeast(MostSevere(floors), t)
    BY <1>2, <2>2, MostSevereDominates
  <2>4. QED
    BY <1>2, <2>1, <2>3
<1>5. QED
  BY <1>3, <1>4

\* Only a bundle all of whose items allow, with no failed claim, no required
\* shortfall and something required, is allowed.
THEOREM BundleAllows ==
    ASSUME NEW bundle, \A e \in bundle : IsItem(e), NEW policy \in Policy,
           AggregateBundleDecision(bundle, policy).state = "allow"
    PROVE  /\ \A e \in bundle : RawEvidenceState(e) = "allow"
           /\ Failures(FindingsFromBundle(bundle)) = {}
           /\ Shortfall(FindingsFromBundle(bundle)) = {}
           /\ Required(FindingsFromBundle(bundle)) # {}
<1> DEFINE F == FindingsFromBundle(bundle)
           claims == AggregateDecision(F, policy)
           floors == {EvidenceFloor(e, policy) : e \in bundle}
<1>1. claims.state \in DecisionState
  BY BundleFindings, AggregateDecisionType
<1>2. \A e \in bundle : AtLeast("allow", EvidenceFloor(e, policy))
  BY BundleDominatesItems
<1>3. \A e \in bundle : EvidenceFloor(e, policy) = "allow"
  BY <1>2, FloorType DEF AtLeast, DecisionSeverity, DecisionState
<1>4. \A e \in bundle : RawEvidenceState(e) = "allow"
  BY <1>3, RawStateType, OverlayType DEF EvidenceFloor
<1>5. AtLeast(claims.state, "allow")
  BY <1>1 DEF AtLeast, DecisionSeverity, DecisionState
<1>6. \A s \in floors : AtLeast(claims.state, s)
  BY <1>3, <1>5
<1>7. claims.state = "allow"
  BY <1>6 DEF AggregateBundleDecision, BundleOutcome
<1>8. QED
  BY <1>4, <1>7, BundleFindings, AggregateDecisionAllows

\* A failed claim in a bundle blocks, whatever else is in it and whatever the
\* policy.
THEOREM BundleFails ==
    ASSUME NEW bundle, NEW policy \in Policy,
           Failures(FindingsFromBundle(bundle)) # {}
    PROVE  AggregateBundleDecision(bundle, policy).state = "block"
<1> DEFINE claims == AggregateDecision(FindingsFromBundle(bundle), policy)
<1>1. claims.state = "block"
  BY AggregateDecisionFails
<1>2. \A e \in bundle : AtLeast(claims.state, EvidenceFloor(e, policy))
  BY <1>1, FloorType DEF AtLeast, DecisionSeverity, DecisionState
<1>3. QED
  BY <1>1, <1>2 DEF AggregateBundleDecision, BundleOutcome
-----------------------------------------------------------------------------
(* Results and evidence *)


IsRaw(raw) ==
    /\ raw.status \in VerificationStatus
    /\ raw.termination \in TerminationKind
    /\ raw.envelope \in BOOLEAN

\* A raw result made of known parts is one.
LEMMA RawType ==
    ASSUME NEW t \in TerminationKind, NEW s \in VerificationStatus, NEW b \in BOOLEAN
    PROVE  IsRaw(Raw(t, s, b))
BY Zenon DEF IsRaw, Raw

\* However an execution ends, its raw result is made of known parts.
LEMMA RawExecutionType ==
    ASSUME NEW kind, NEW raw \in RawExecution(kind)
    PROVE  IsRaw(raw)
<1> DEFINE Made(x) == \E t \in TerminationKind, s \in VerificationStatus, b \in BOOLEAN :
                         x = Raw(t, s, b)
<1>1. \A e \in EvaluatorEnvelope : Made(e)
  BY DEF EvaluatorEnvelope, VerificationStatus, TerminationKind
<1>2. \A e \in OpaExecution : Made(e)
  BY DEF OpaExecution, VerificationStatus, TerminationKind
<1>3. \A end \in SilentEnd : Made(RawOfSilentEnd(end))
  BY DEF SilentEnd, RawOfSilentEnd, VerificationStatus, TerminationKind
<1>4. Made(raw)
  BY <1>1, <1>2, <1>3 DEF RawExecution
<1>5. QED
  BY <1>4, RawType

\* Every adapter hands the control plane a verification status and a termination.
LEMMA ReportType ==
    ASSUME NEW kind \in AdapterKind, NEW report \in Reports[kind]
    PROVE  /\ report.status \in VerificationStatus
           /\ report.termination \in TerminationKind
           /\ report.envelope \in BOOLEAN
<1>1. PICK raw \in RawExecution(kind) : report = Report(kind, raw)
  BY DEF Reports
<1>2. IsRaw(raw)
  BY RawExecutionType
<1>3. Normalize(kind, raw) \in VerificationStatus
  BY <1>2 DEF IsRaw, Normalize, VerificationStatus
<1>4. QED
  BY <1>1, <1>2, <1>3, Zenon DEF IsRaw, Report

-----------------------------------------------------------------------------
\* The policy the aggregation of an obligation fixes is a policy.
LEMMA StrictDefaultIsPolicy == StrictDefault \in Policy
BY DEF StrictDefault, Policy, Mode

\* A finding says of a result what it is, and every result has its finding.
LEMMA FindingOfResult ==
    ASSUME NEW selected, NEW results, NEW f \in ResultFindings(selected, results)
    PROVE  \E r \in results : /\ f.status = r.status
                             /\ f.required = (r.backend \in RequiredBackends(selected))
<1>1. PICK r \in results :
        f = [id |-> r.backend, status |-> r.status,
             required |-> r.backend \in RequiredBackends(selected)]
  BY Zenon DEF ResultFindings
<1>2. f.status = r.status
  BY <1>1, Zenon
<1>3. f.required = (r.backend \in RequiredBackends(selected))
  BY <1>1, Zenon
<1>4. QED
  BY <1>2, <1>3

\* Every result has its finding, and the finding has its status.
LEMMA ResultHasFinding ==
    ASSUME NEW selected, NEW results, NEW r \in results
    PROVE  \E f \in ResultFindings(selected, results) :
              f.status = r.status /\ (f.required <=> r.backend \in RequiredBackends(selected))
<1> DEFINE f == [id |-> r.backend, status |-> r.status,
                 required |-> r.backend \in RequiredBackends(selected)]
<1>1. f \in ResultFindings(selected, results)
  BY Zenon DEF ResultFindings
<1>2. f.status = r.status
  BY Zenon
<1>3. f.required <=> r.backend \in RequiredBackends(selected)
  BY Zenon
<1>4. QED
  BY <1>1, <1>2, <1>3, Zenon

\* The findings of typed results are findings.
LEMMA ResultFindingsType ==
    ASSUME NEW selected, NEW results, \A r \in results : r.status \in VerificationStatus
    PROVE  \A f \in ResultFindings(selected, results) : IsFinding(f)
<1>1. TAKE f \in ResultFindings(selected, results)
<1>2. PICK r \in results : /\ f.status = r.status
                           /\ f.required = (r.backend \in RequiredBackends(selected))
  BY FindingOfResult
<1>3. f.status \in VerificationStatus
  BY <1>2
<1>4. f.required \in BOOLEAN
  <2>1. (r.backend \in RequiredBackends(selected)) \in BOOLEAN
    OBVIOUS
  <2>2. QED
    BY <1>2, <2>1, Zenon
<1>5. QED
  BY <1>3, <1>4 DEF IsFinding

\* The recommendation of a state is one of the vocabulary.
LEMMA StateToLegacyType ==
    ASSUME NEW s \in DecisionState
    PROVE  /\ StateToLegacy(s) \in MergeRecommendation
           /\ StateToLegacy(s) = "allow" => s = "allow"
BY DEF StateToLegacy, MergeRecommendation, DecisionState

\* The aggregate of typed results is a state of the lattice with a recommendation
\* of the vocabulary.
LEMMA AggregateType ==
    ASSUME NEW selected, NEW results, NEW acceptable, NEW accepted,
           \A r \in results : r.status \in VerificationStatus
    PROVE  LET a == AggregateFailDominant(selected, results, acceptable, accepted)
           IN  a.state \in DecisionState /\ a.recommendation \in MergeRecommendation
<1> DEFINE lattice == AggregateDecision(ResultFindings(selected, results), StrictDefault)
           a == AggregateFailDominant(selected, results, acceptable, accepted)
<1>1. lattice.state \in DecisionState
  BY ResultFindingsType, StrictDefaultIsPolicy, AggregateDecisionType
<1>2. StateToLegacy(lattice.state) \in MergeRecommendation
  BY <1>1, StateToLegacyType
<1>3. \/ a = Aggregate("needs_review", "needs_review", {}, "require_human_review", TRUE)
      \/ a = Aggregate("needs_review", "needs_review",
                       BackendsOf(RequiredResults(selected, results)),
                       "require_stronger_check", FALSE)
      \/ a = Aggregate(lattice.state, lattice.original, lattice.controlling,
                       StateToLegacy(lattice.state), FALSE)
  BY DEF AggregateFailDominant
<1>4. QED
  BY <1>1, <1>2, <1>3 DEF Aggregate, DecisionState, MergeRecommendation

\* An aggregate that recommends allow rests on every selected backend, on a
\* required one, and on passes of all the required ones.
LEMMA AggregateAllows ==
    ASSUME NEW selected, NEW results, NEW acceptable, NEW accepted,
           \A r \in results : r.status \in VerificationStatus,
           AggregateFailDominant(selected, results, acceptable, accepted).recommendation = "allow"
    PROVE  /\ BackendsOf(selected) = BackendsOf(results)
           /\ RequiredResults(selected, results) # {}
           /\ \A r \in RequiredResults(selected, results) : r.status = "pass"
           /\ \A r \in results : r.status # "fail"
<1> DEFINE F == ResultFindings(selected, results)
           lattice == AggregateDecision(F, StrictDefault)
           a == AggregateFailDominant(selected, results, acceptable, accepted)
<1>1. /\ BackendsOf(selected) = BackendsOf(results)
      /\ a = Aggregate(lattice.state, lattice.original, lattice.controlling,
                       StateToLegacy(lattice.state), FALSE)
  <2>1. \/ a = Aggregate("needs_review", "needs_review", {}, "require_human_review", TRUE)
        \/ a = Aggregate("needs_review", "needs_review",
                         BackendsOf(RequiredResults(selected, results)),
                         "require_stronger_check", FALSE)
        \/ /\ BackendsOf(selected) = BackendsOf(results)
           /\ a = Aggregate(lattice.state, lattice.original, lattice.controlling,
                            StateToLegacy(lattice.state), FALSE)
    BY DEF AggregateFailDominant
  <2>2. QED
    BY <2>1 DEF Aggregate
<1>2. lattice.state \in DecisionState
  BY ResultFindingsType, StrictDefaultIsPolicy, AggregateDecisionType
<1>3. lattice.state = "allow"
  BY <1>1, <1>2, StateToLegacyType DEF Aggregate
<1>4. Failures(F) = {} /\ Shortfall(F) = {} /\ Required(F) # {}
  BY <1>3, ResultFindingsType, StrictDefaultIsPolicy, AggregateDecisionAllows
<1>5. \A r \in results : r.status # "fail"
  <2>1. TAKE r \in results
  <2>2. PICK f \in F : f.status = r.status
    BY ResultHasFinding
  <2>3. QED
    BY <1>4, <2>2 DEF Failures
<1>6. \A r \in RequiredResults(selected, results) : r.status = "pass"
  <2>1. TAKE r \in RequiredResults(selected, results)
  <2>2. PICK f \in F : f.status = r.status /\ f.required
    BY ResultHasFinding, Zenon DEF RequiredResults
  <2>3. QED
    BY <1>4, <2>2 DEF Shortfall, Required
<1>7. RequiredResults(selected, results) # {}
  <2>1. PICK f \in F : f.required
    BY <1>4 DEF Required
  <2>2. PICK r \in results : f.required = (r.backend \in RequiredBackends(selected))
    BY FindingOfResult
  <2>3. r.backend \in RequiredBackends(selected)
    BY <2>1, <2>2, Zenon
  <2>4. QED
    BY <2>3 DEF RequiredResults
<1>8. QED
  BY <1>1, <1>5, <1>6, <1>7

-----------------------------------------------------------------------------
\* The projected decision of a typed aggregate is typed.
LEMMA ProjectedDecisionType ==
    ASSUME NEW aggregate, NEW permits \in BOOLEAN,
           aggregate.state \in DecisionState, aggregate.recommendation \in MergeRecommendation
    PROVE  LET d == ProjectedDecision(aggregate, permits)
           IN  d.state \in DecisionState /\ d.recommendation \in MergeRecommendation
BY DEF ProjectedDecision, LegacyToState, DecisionState, MergeRecommendation

\* Only a covered aggregate that recommends allow is projected to allow.
LEMMA ProjectedDecisionAllows ==
    ASSUME NEW aggregate, NEW permits \in BOOLEAN,
           ProjectedDecision(aggregate, permits).state = "allow"
    PROVE  permits /\ aggregate.recommendation = "allow"
BY DEF ProjectedDecision, LegacyToState, DecisionState

\* A claim made of known parts is a claim.
LEMMA ClaimType ==
    ASSUME NEW backend, NEW status \in VerificationStatus, NEW required \in BOOLEAN
    PROVE  /\ Claim(backend, status, required).status \in VerificationStatus
           /\ Claim(backend, status, required).required \in BOOLEAN
BY Zenon DEF Claim

\* An evidence item claims typed statuses, whatever the results.
LEMMA ClaimsType ==
    ASSUME NEW selected, NEW results, \A r \in results : r.status \in VerificationStatus
    PROVE  \A c \in ClaimsOf(selected, results) :
              c.status \in VerificationStatus /\ c.required \in BOOLEAN
<1>1. CASE results = {}
  BY <1>1, ClaimType DEF ClaimsOf, VerificationStatus
<1>2. CASE results # {}
  <2>1. TAKE c \in ClaimsOf(selected, results)
  <2>2. PICK r \in results : c = Claim(r.backend, r.status, r.backend \in RequiredBackends(selected))
    BY <1>2, Zenon DEF ClaimsOf
  <2>3. (r.backend \in RequiredBackends(selected)) \in BOOLEAN
    OBVIOUS
  <2>4. QED
    BY <2>2, <2>3, ClaimType, Zenon
<1>3. QED
  BY <1>1, <1>2

\* An item is typed when its claims, state and recommendation are.
LEMMA ItemType ==
    ASSUME NEW id, NEW origin, NEW claims, NEW state, NEW recommendation,
           \A c \in claims : c.status \in VerificationStatus /\ c.required \in BOOLEAN,
           state \in DecisionState \cup {Absent}, recommendation \in MergeRecommendation
    PROVE  IsItem(EvidenceItem(id, origin, claims, state, recommendation))
BY Zenon DEF EvidenceItem, IsItem

\* A legacy evaluator writes a typed item.
LEMMA LegacyEvidenceType ==
    ASSUME NEW id, NEW status \in VerificationStatus
    PROVE  IsItem(LegacyEvidence(id, status))
<1>1. LegacyRecommendation(status) \in MergeRecommendation
  BY DEF LegacyRecommendation, MergeRecommendation
<1>2. \A c \in {Claim("legacy", status, TRUE)} :
        c.status \in VerificationStatus /\ c.required \in BOOLEAN
  BY ClaimType
<1>3. QED
  BY <1>1, <1>2, ItemType DEF LegacyEvidence

\* The item of a change without obligations is typed.
LEMMA CompilationFailureType == IsItem(CompilationFailure)
<1>1. \A c \in {Claim("ovk", "unknown", TRUE)} :
        c.status \in VerificationStatus /\ c.required \in BOOLEAN
  BY ClaimType DEF VerificationStatus
<1>2. QED
  BY <1>1, ItemType DEF CompilationFailure, MergeRecommendation

\* Withdrawing the recommendation leaves a typed item with the same state.
LEMMA WithdrawnItem ==
    ASSUME NEW id, NEW claims, NEW state, NEW recommendation,
           \A c \in claims : c.status \in VerificationStatus /\ c.required \in BOOLEAN,
           state \in DecisionState \cup {Absent}, recommendation \in MergeRecommendation
    PROVE  LET e == EvidenceItem(id, "control_plane", claims, state, recommendation)
           IN  /\ IsItem(WithdrawUntrustedAllow(e))
               /\ WithdrawUntrustedAllow(e).state = state
               /\ WithdrawUntrustedAllow(e).claims = claims
               /\ WithdrawUntrustedAllow(e).origin = "control_plane"
<1> DEFINE e == EvidenceItem(id, "control_plane", claims, state, recommendation)
           w == EvidenceItem(id, "control_plane", claims, state, "require_human_review")
<1>1. WithdrawUntrustedAllow(e) \in {e, w}
  BY DEF WithdrawUntrustedAllow, EvidenceItem
<1>2. IsItem(e) /\ IsItem(w)
  BY ItemType DEF MergeRecommendation
<1>3. QED
  BY <1>1, <1>2 DEF EvidenceItem
-----------------------------------------------------------------------------
(* The aggregate of one obligation *)

\* The stronger-check gate is the only other way out, and it asks for review.
LEMMA StateAllows ==
    ASSUME NEW S, NEW R, NEW A, NEW accepted,
           AggregateFailDominant(S, R, A, accepted).state = "allow"
    PROVE  /\ AggregateFailDominant(S, R, A, accepted).recommendation = "allow"
           /\ (\A r \in RequiredResults(S, R) : r.status = "pass")
                => WeakResults(S, R, A) = {} \/ accepted
<1> DEFINE lattice == AggregateDecision(ResultFindings(S, R), StrictDefault)
           a == AggregateFailDominant(S, R, A, accepted)
<1>1. \/ a = Aggregate("needs_review", "needs_review", {}, "require_human_review", TRUE)
      \/ a = Aggregate("needs_review", "needs_review", BackendsOf(RequiredResults(S, R)),
                       "require_stronger_check", FALSE)
      \/ /\ a = Aggregate(lattice.state, lattice.original, lattice.controlling,
                          StateToLegacy(lattice.state), FALSE)
         /\ ~ (/\ \A r \in RequiredResults(S, R) : r.status = "pass"
               /\ WeakResults(S, R, A) # {} /\ ~accepted)
  BY DEF AggregateFailDominant
<1> HIDE DEF lattice, a
<1>2. /\ a = Aggregate(lattice.state, lattice.original, lattice.controlling,
                       StateToLegacy(lattice.state), FALSE)
      /\ lattice.state = "allow"
  BY <1>1 DEF Aggregate, a
<1> QED BY <1>1, <1>2 DEF Aggregate, StateToLegacy, a

\* Leaving the corroborators out leaves the required part as it is.
LEMMA RequiredPart ==
    ASSUME NEW S, NEW R, NEW A
    PROVE  LET T == Required(S)
               Q == RequiredResults(S, R)
           IN  /\ RequiredBackends(T) = RequiredBackends(S)
               /\ BackendsOf(T) = RequiredBackends(S)
               /\ RequiredResults(T, Q) = Q
               /\ WeakResults(T, Q, A) = WeakResults(S, R, A)
               /\ ResultFindings(T, Q) = Required(ResultFindings(S, R))
               /\ BackendsOf(S) = BackendsOf(R) => BackendsOf(T) = BackendsOf(Q)
<1> DEFINE T == Required(S)
           Q == RequiredResults(S, R)
<1>1. RequiredBackends(T) = RequiredBackends(S) /\ BackendsOf(T) = RequiredBackends(S)
  BY DEF Required, RequiredBackends, BackendsOf
<1>2. RequiredResults(T, Q) = Q
  BY <1>1 DEF RequiredResults
<1>3. WeakResults(T, Q, A) = WeakResults(S, R, A)
  BY <1>2 DEF WeakResults
<1>4. ResultFindings(T, Q) = Required(ResultFindings(S, R))
  <2> DEFINE F(r) == [id |-> r.backend, status |-> r.status,
                      required |-> r.backend \in RequiredBackends(S)]
  <2>1. ResultFindings(T, Q) = {F(r) : r \in Q} /\ ResultFindings(S, R) = {F(r) : r \in R}
    BY <1>1, Zenon DEF ResultFindings
  <2>2. \A r : F(r).required <=> r.backend \in RequiredBackends(S)
    BY Zenon
  <2>3. \A r : r \in Q <=> r \in R /\ r.backend \in RequiredBackends(S)
    BY DEF RequiredResults
  <2> HIDE DEF F, Q
  <2> QED BY <2>1, <2>2, <2>3, Zenon DEF Required
<1>5. ASSUME BackendsOf(S) = BackendsOf(R) PROVE BackendsOf(T) = BackendsOf(Q)
  <2>1. BackendsOf(T) = RequiredBackends(S) /\ RequiredBackends(S) \subseteq BackendsOf(R)
    BY <1>1, <1>5 DEF RequiredBackends, BackendsOf
  <2> QED BY <2>1 DEF BackendsOf, RequiredResults
<1> QED BY <1>1, <1>2, <1>3, <1>4, <1>5

\* Without its optional findings a set that does not fail decides as before.
LEMMA OptionalFindings ==
    ASSUME NEW F, \A f \in F : IsFinding(f)
    PROVE  AtLeast(AggregateDecision(F, StrictDefault).state,
                   AggregateDecision(Required(F), StrictDefault).state)
<1>1. Required(Required(F)) = Required(F) /\ Shortfall(Required(F)) = Shortfall(F)
  BY DEF Required, Shortfall
<1>2. \A f \in Required(F) : IsFinding(f)
  BY DEF Required
<1>3. AggregateDecision(Required(F), StrictDefault).state \in DecisionState
  BY <1>2, StrictDefaultIsPolicy, AggregateDecisionType
<1>4. CASE Failures(F) # {}
  BY <1>3, <1>4, AggregateDecisionFails DEF AtLeast, DecisionSeverity, DecisionState
<1>5. CASE Failures(F) = {}
  <2>1. Failures(Required(F)) = {}
    BY <1>5 DEF Failures, Required
  <2>2. AggregateDecision(F, StrictDefault) = AggregateDecision(Required(F), StrictDefault)
    BY <1>1, <1>5, <2>1 DEF AggregateDecision
  <2> QED BY <1>3, <2>2 DEF AtLeast, DecisionSeverity, DecisionState
<1> QED BY <1>4, <1>5
=============================================================================
