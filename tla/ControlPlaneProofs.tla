------------------------- MODULE ControlPlaneProofs -------------------------
(***************************************************************************)
(* Type correctness and the main safety properties of ControlPlane, for     *)
(* every set of obligations, backends, policies and runs; and the decision  *)
(* table of AggregationTable.                                               *)
(***************************************************************************)
EXTENDS ControlPlane, Router, AggregationTable, EvidenceProofs

\* Threads work for obligations of the run, only while it executes, and a run
\* that has started is counted.
ThreadsOK ==
    /\ phase # "idle" => runs \in 1..MaxRuns
    /\ \A o \in Obligation : pc[o] # "idle" => o \in active
    /\ phase # "executing" => \A o \in Obligation : pc[o] \notin {"queued", "executing"}

\* The evidence of a finished thread is what its results, or its legacy
\* evaluator, make it.
Produced ==
    \A o \in Obligation : pc[o] = "done" =>
        \/ evidence[o] = EvidenceOf(o)
        \/ \E status \in VerificationStatus : evidence[o] = LegacyEvidence(o, status)

\* A decision is the bundle's, and every obligation is in the bundle.
VerdictOK ==
    /\ phase # "finished" => verdict.state = "none"
    /\ Decided => /\ \A o \in active : pc[o] = "done"
                  /\ verdict = AggregateBundleDecision(Bundle, BundlePolicy)

\* What the result cache holds was delivered in an envelope.
CacheIsGenuine ==
    \A e \in resultCache :
        \E rep \in reported : rep.key = e.key /\ rep.status = e.status /\ rep.envelope

\* ReplayIsGenuine, of the obligations outside the run too.
ResultsAreGenuine ==
    \A o \in Obligation : \A r \in results[o] :
        r.status \in {"pass", "fail"} =>
            \E rep \in reported : /\ rep.key = Key(o, r) /\ rep.status = r.status
                                 /\ (rep.run = runs \/ rep.envelope)

\* Only the control plane has results, and a finished thread projected its own.
ResultsAreProjected ==
    \A o \in Obligation : results[o] # {} =>
        \/ pc[o] \in {"executing", "raised"}
        \/ pc[o] = "done" /\ evidence[o] = EvidenceOf(o)

\* What an adapter reported in this run is the result of its backend, or was replaced
\* by an error.
ReportsAreHeld ==
    \A rep \in reported :
        /\ rep.run <= runs
        /\ rep.run = runs =>
              \E r \in results[rep.key.obligation] :
                  r.backend = rep.key.backend /\ r.status \in {rep.status, "error"}

IInv ==
    /\ TypeOK /\ ThreadsOK /\ Produced /\ VerdictOK /\ CacheIsGenuine /\ ResultsAreGenuine
    /\ ResultsAreProjected /\ ReportsAreHeld

-----------------------------------------------------------------------------
\* The decision options of a run are a policy of the lattice.
LEMMA BundlePolicyType ==
    ASSUME policy \in Policies
    PROVE  BundlePolicy \in Policy
BY ControlPlaneAssumption DEF PolicyType, BundlePolicy, Policy, Mode

\* The statuses of an obligation's results are verification statuses.
LEMMA ResultStatuses ==
    ASSUME TypeOK, NEW o \in Obligation
    PROVE  \A r \in results[o] : r.status \in VerificationStatus
BY DEF TypeOK, ResultType

\* The evidence of an executed obligation is a typed item of the control plane,
\* and allows only a covered obligation whose aggregate recommends allow.
LEMMA EvidenceOfType ==
    ASSUME TypeOK, NEW o \in Obligation
    PROVE  /\ IsItem(EvidenceOf(o))
           /\ EvidenceOf(o).origin = "control_plane"
           /\ EvidenceOf(o).claims = ClaimsOf(policy.selected[o], results[o])
           /\ EvidenceOf(o).state # Absent
           /\ EvidenceOf(o).state = "allow" =>
                o \in Covered /\ AggregateOf(o).recommendation = "allow"
<1> DEFINE d == ProjectedDecision(AggregateOf(o), o \in Covered)
           c == ClaimsOf(policy.selected[o], results[o])
           e == EvidenceItem(o, "control_plane", c, d.state, d.recommendation)
<1>0. (o \in Covered) \in BOOLEAN
  OBVIOUS
<1>1. AggregateOf(o).state \in DecisionState /\ AggregateOf(o).recommendation \in MergeRecommendation
  BY ResultStatuses, AggregateType DEF AggregateOf, AggregateResults
<1>2. d.state \in DecisionState /\ d.recommendation \in MergeRecommendation
  BY <1>0, <1>1, ProjectedDecisionType
<1>3. d.state = "allow" => o \in Covered /\ AggregateOf(o).recommendation = "allow"
  BY <1>0, ProjectedDecisionAllows
<1>4. \A x \in c : x.status \in VerificationStatus /\ x.required \in BOOLEAN
  BY ResultStatuses, ClaimsType
<1>5. EvidenceOf(o) \in {e, WithdrawUntrustedAllow(e)}
  BY DEF EvidenceOf, ExecutionRecordToEvidence
<1>6. IsItem(e) /\ e.origin = "control_plane" /\ e.claims = c /\ e.state = d.state
  <2>1. IsItem(e)
    BY <1>2, <1>4, ItemType
  <2>2. QED
    BY <2>1 DEF EvidenceItem
<1>7. /\ IsItem(WithdrawUntrustedAllow(e))
      /\ WithdrawUntrustedAllow(e).origin = "control_plane"
      /\ WithdrawUntrustedAllow(e).claims = c
      /\ WithdrawUntrustedAllow(e).state = d.state
  BY <1>2, <1>4, WithdrawnItem
<1>8. d.state # Absent
  BY <1>2 DEF DecisionState, Absent
<1>9. QED
  BY <1>3, <1>5, <1>6, <1>7, <1>8

\* Every item of the bundle of a run whose threads are done is typed.
LEMMA BundleType ==
    ASSUME TypeOK, Produced, \A o \in active : pc[o] = "done"
    PROVE  \A e \in Bundle : IsItem(e)
<1>1. CASE active = {}
  BY <1>1, CompilationFailureType DEF Bundle
<1>2. CASE active # {}
  <2>1. TAKE e \in Bundle
  <2>2. PICK o \in active : e = evidence[o]
    BY <1>2 DEF Bundle
  <2>3. o \in Obligation /\ pc[o] = "done"
    BY <2>2 DEF TypeOK
  <2>4. QED
    BY <2>2, <2>3, EvidenceOfType, LegacyEvidenceType DEF Produced
<1>3. QED
  BY <1>1, <1>2

-----------------------------------------------------------------------------
\* One selection yields a typed result.
LEMMA ResultIsTyped ==
    ASSUME TypeOK, NEW o \in Obligation, NEW s \in todo[o],
           NEW status \in VerificationStatus, NEW termination \in TerminationKind
    PROVE  Result(s, status, termination) \in ResultType
<1>1. s.backend \in Backend
  BY DEF TypeOK
<1>2. QED
  BY <1>1 DEF Result, ResultType

\* The cache identity of a selection is typed.
LEMMA KeyIsTyped ==
    ASSUME TypeOK, NEW o \in Obligation, NEW s \in todo[o]
    PROVE  Key(o, s) \in KeyType
<1>1. s.backend \in Backend /\ env \in Environment
  BY DEF TypeOK
<1>2. policy.routing_id \in STRING
  BY ControlPlaneAssumption DEF TypeOK, PolicyType
<1>3. QED
  BY <1>1, <1>2 DEF Key, KeyType

\* The initial states are typed.
LEMMA InitType == Init => TypeOK
<1> SUFFICES ASSUME Init PROVE TypeOK
  OBVIOUS
<1>1. verdict.state = "none"
  BY DEF Init, NoVerdict
<1>2. runs \in 0..MaxRuns
  BY ControlPlaneAssumption DEF Init
<1>3. /\ results \in [Obligation -> SUBSET ResultType]
      /\ todo \in [Obligation -> SUBSET [backend : Backend, required : BOOLEAN]]
  BY DEF Init
<1>4. QED
  BY <1>1, <1>2, <1>3 DEF Init, TypeOK

\* The parts of the state that a yielded result leaves typed.
LEMMA YieldType ==
    ASSUME TypeOK, NEW o \in Obligation, NEW s \in todo[o], NEW result \in ResultType,
           Yield(o, s, result)
    PROVE  /\ todo' \in [Obligation -> SUBSET [backend : Backend, required : BOOLEAN]]
           /\ results' \in [Obligation -> SUBSET ResultType]
BY DEF TypeOK, Yield

\* Recording a report keeps the history typed.
LEMMA RecordType ==
    ASSUME TypeOK, ThreadsOK, NEW o \in Obligation, pc[o] = "executing", NEW s \in todo[o],
           NEW kind \in AdapterKind, NEW report \in Reports[kind], Record(o, s, report)
    PROVE  reported' \subseteq [run : 1..MaxRuns, key : KeyType, status : VerificationStatus,
                                termination : TerminationKind, envelope : BOOLEAN]
<1>1. runs \in 1..MaxRuns
  BY DEF TypeOK, ThreadsOK
<1>2. Key(o, s) \in KeyType
  BY KeyIsTyped
<1>3. /\ report.status \in VerificationStatus /\ report.termination \in TerminationKind
      /\ report.envelope \in BOOLEAN
  BY ReportType
<1>4. QED
  BY <1>1, <1>2, <1>3 DEF TypeOK, Record


\* Every step keeps the state typed.
LEMMA TypeStep ==
    ASSUME TypeOK, ThreadsOK, Produced, [Next]_vars
    PROVE  TypeOK'
<1>1. CASE StartRun
  <2>1. runs' \in 0..MaxRuns
    BY <1>1, ControlPlaneAssumption DEF TypeOK, StartRun
  <2>2. active' \in SUBSET Obligation
    BY <1>1, ControlPlaneAssumption DEF StartRun
  <2>3. /\ phase' \in {"executing", "finished"}
        /\ verdict'.state \in {"none", "raised"}
        /\ pc' \in [Obligation -> {"idle", "queued", "executing", "done", "raised"}]
    BY <1>1 DEF StartRun, Raised, NoVerdict
  <2>4. QED
    BY <1>1, <2>1, <2>2, <2>3 DEF TypeOK, StartRun
<1>2. ASSUME NEW o \in Obligation, ReplayFlat(o)
      PROVE  TypeOK'
  BY <1>2 DEF TypeOK, ReplayFlat, run
<1>3. ASSUME NEW o \in Obligation, BeginEnforced(o)
      PROVE  TypeOK'
  <2>1. policy.selected[o] \in SUBSET [backend : Backend, required : BOOLEAN]
    BY ControlPlaneAssumption DEF TypeOK, PolicyType
  <2>2. QED
    BY <1>3, <2>1 DEF TypeOK, BeginEnforced, run
<1>4. ASSUME NEW o \in Obligation, NEW status \in {"pass", "fail", "unknown"},
             EvaluateLegacy(o, status)
      PROVE  TypeOK'
  BY <1>4 DEF TypeOK, EvaluateLegacy, run, VerificationStatus
<1>5. ASSUME NEW o \in Obligation, LegacyRaises(o)
      PROVE  TypeOK'
  BY <1>5 DEF TypeOK, LegacyRaises, run
<1>6. ASSUME NEW o \in Obligation, NEW s \in todo[o], ReplayResult(o, s)
      PROVE  TypeOK'
  <2>1. PICK e \in resultCache : Yield(o, s, Result(s, e.status, e.termination))
    BY <1>6 DEF ReplayResult, Lookup
  <2>2. Result(s, e.status, e.termination) \in ResultType
    BY ResultIsTyped DEF TypeOK, EntryType
  <2>3. QED
    BY <1>6, <2>1, <2>2, YieldType DEF TypeOK, ReplayResult, Yield, run
<1>7. ASSUME NEW o \in Obligation, NEW s \in todo[o],
             NEW report \in Reports[KindOf[s.backend]], Execute(o, s, report)
      PROVE  TypeOK'
  <2>1. KindOf[s.backend] \in AdapterKind
    BY ControlPlaneAssumption, BackendAssumption DEF TypeOK
  <2>2. report.status \in VerificationStatus /\ report.termination \in TerminationKind
    BY <2>1, ReportType
  <2>3. Result(s, report.status, report.termination) \in ResultType
    BY <2>2, ResultIsTyped
  <2>4. Entry(Key(o, s), report) \in EntryType
    BY <2>2, KeyIsTyped DEF Entry, EntryType
  <2>5. resultCache' \subseteq EntryType
    BY <1>7, <2>4 DEF Execute, TypeOK
  <2>6. reported' \subseteq [run : 1..MaxRuns, key : KeyType, status : VerificationStatus,
                             termination : TerminationKind, envelope : BOOLEAN]
    BY <1>7, <2>1, RecordType DEF Execute
  <2>7. QED
    BY <1>7, <2>3, <2>5, <2>6, YieldType DEF TypeOK, Execute, Yield, run
<1>8. ASSUME NEW o \in Obligation, NEW s \in todo[o],
             NEW report \in Reports[KindOf[s.backend]], StoreFails(o, s, report)
      PROVE  TypeOK'
  <2>1. KindOf[s.backend] \in AdapterKind
    BY ControlPlaneAssumption, BackendAssumption DEF TypeOK
  <2>2. Result(s, "error", "tool_error") \in ResultType
    BY ResultIsTyped DEF VerificationStatus, TerminationKind
  <2>3. reported' \subseteq [run : 1..MaxRuns, key : KeyType, status : VerificationStatus,
                             termination : TerminationKind, envelope : BOOLEAN]
    BY <1>8, <2>1, RecordType DEF StoreFails
  <2>4. QED
    BY <1>8, <2>2, <2>3, YieldType DEF TypeOK, StoreFails, Yield, run
<1>9. ASSUME NEW o \in Obligation, NEW s \in todo[o], BoundaryError(o, s)
      PROVE  TypeOK'
  <2>1. Result(s, "error", "tool_error") \in ResultType
    BY ResultIsTyped DEF VerificationStatus, TerminationKind
  <2>2. QED
    BY <1>9, <2>1, YieldType DEF TypeOK, BoundaryError, Yield, run
<1>10. ASSUME NEW o \in Obligation, NEW s \in todo[o], GuaranteeMismatch(o, s)
       PROVE  TypeOK'
  <2>1. Result(s, "unknown", "invalid_output") \in ResultType
    BY ResultIsTyped DEF VerificationStatus, TerminationKind
  <2>2. QED
    BY <1>10, <2>1, YieldType DEF TypeOK, GuaranteeMismatch, Yield, run
<1>11. ASSUME NEW o \in Obligation, Finish(o)
       PROVE  TypeOK'
  BY <1>11 DEF TypeOK, Finish, run
<1>12. CASE Conclude
  <2>1. verdict'.state \in DecisionState \cup {"none", "raised"}
    <3>1. CASE \E o \in active : pc[o] = "raised"
      BY <1>12, <3>1 DEF Conclude, Raised, NoVerdict
    <3>2. CASE ~ \E o \in active : pc[o] = "raised"
      <4>1. \A o \in active : pc[o] = "done"
        BY <1>12, <3>2 DEF Conclude
      <4>2. AggregateBundleDecision(Bundle, BundlePolicy).state \in DecisionState
        BY <4>1, BundleType, BundlePolicyType, BundleDominatesItems DEF TypeOK
      <4>3. QED
        BY <1>12, <3>2, <4>2 DEF Conclude
    <3>3. QED
      BY <3>1, <3>2
  <2>2. QED
    BY <1>12, <2>1 DEF TypeOK, Conclude
<1>13. CASE Evict
  BY <1>13 DEF TypeOK, Evict, run
<1>14. CASE UNCHANGED vars
  BY <1>14 DEF TypeOK, vars, run
<1>15. QED
  BY <1>1, <1>2, <1>3, <1>4, <1>5, <1>6, <1>7, <1>8, <1>9, <1>10, <1>11, <1>12, <1>13, <1>14
     DEF Next, Thread, Begin, Select


-----------------------------------------------------------------------------
\* Every step keeps threads within the run.
LEMMA ThreadsStep ==
    ASSUME TypeOK, ThreadsOK, [Next]_vars
    PROVE  ThreadsOK'
<1>1. CASE StartRun
  BY <1>1, ControlPlaneAssumption DEF TypeOK, ThreadsOK, StartRun
<1>2. ASSUME NEW o \in Obligation, ReplayFlat(o)
      PROVE  ThreadsOK'
  BY <1>2 DEF TypeOK, ThreadsOK, ReplayFlat, MayBegin, run
<1>3. ASSUME NEW o \in Obligation, BeginEnforced(o)
      PROVE  ThreadsOK'
  BY <1>3 DEF TypeOK, ThreadsOK, BeginEnforced, MayBegin, run
<1>4. ASSUME NEW o \in Obligation, NEW status \in {"pass", "fail", "unknown"},
             EvaluateLegacy(o, status)
      PROVE  ThreadsOK'
  BY <1>4 DEF TypeOK, ThreadsOK, EvaluateLegacy, MayBegin, run
<1>5. ASSUME NEW o \in Obligation, LegacyRaises(o)
      PROVE  ThreadsOK'
  BY <1>5 DEF TypeOK, ThreadsOK, LegacyRaises, MayBegin, run
<1>6. ASSUME NEW o \in Obligation, NEW s \in todo[o], Select(o, s)
      PROVE  ThreadsOK'
  BY <1>6 DEF ThreadsOK, Select, ReplayResult, Execute, StoreFails, BoundaryError,
              GuaranteeMismatch, Yield, run
<1>7. ASSUME NEW o \in Obligation, Finish(o)
      PROVE  ThreadsOK'
  BY <1>7 DEF TypeOK, ThreadsOK, Finish, run
<1>8. CASE Conclude
  BY <1>8 DEF TypeOK, ThreadsOK, Conclude
<1>9. CASE Evict
  BY <1>9 DEF ThreadsOK, Evict, run
<1>10. CASE UNCHANGED vars
  BY <1>10 DEF ThreadsOK, vars, run
<1>11. QED
  BY <1>1, <1>2, <1>3, <1>4, <1>5, <1>6, <1>7, <1>8, <1>9, <1>10 DEF Next, Thread, Begin

\* A thread's evidence stays what its results make it when neither changes.
LEMMA ProducedStays ==
    ASSUME NEW o \in Obligation, Produced, pc[o] = "done",
           policy' = policy, trusted' = trusted,
           results'[o] = results[o], evidence'[o] = evidence[o]
    PROVE  \/ evidence'[o] = EvidenceOf(o)'
           \/ \E status \in VerificationStatus : evidence'[o] = LegacyEvidence(o, status)
<1>1. EvidenceOf(o)' = EvidenceOf(o)
  BY DEF EvidenceOf, AggregateOf
<1>2. QED
  BY <1>1 DEF Produced

\* Every step keeps the evidence of finished threads what they produced.
LEMMA ProducedStep ==
    ASSUME TypeOK, ThreadsOK, Produced, [Next]_vars
    PROVE  Produced'
<1>1. CASE StartRun
  BY <1>1 DEF StartRun, Produced
<1>2. ASSUME NEW o \in Obligation, ReplayFlat(o)
      PROVE  Produced'
  <2>1. PICK e \in flatCache : evidence' = [evidence EXCEPT ![o] = LegacyEvidence(o, e.status)]
    BY <1>2 DEF ReplayFlat, FlatHits
  <2>2. e.status \in VerificationStatus
    BY DEF TypeOK
  <2>3. evidence'[o] = LegacyEvidence(o, e.status)
    BY <2>1 DEF TypeOK
  <2>4. \A p \in Obligation \ {o} : /\ evidence'[p] = evidence[p] /\ pc'[p] = pc[p]
                                    /\ results'[p] = results[p]
    BY <1>2, <2>1 DEF TypeOK, ReplayFlat
  <2>5. policy' = policy /\ trusted' = trusted
    BY <1>2 DEF ReplayFlat, run
  <2>6. QED
    BY <2>2, <2>3, <2>4, <2>5, ProducedStays DEF Produced
<1>3. ASSUME NEW o \in Obligation, BeginEnforced(o)
      PROVE  Produced'
  <2>1. \A p \in Obligation : /\ evidence'[p] = evidence[p] /\ results'[p] = results[p]
                              /\ pc'[p] = "done" => pc[p] = "done"
    BY <1>3 DEF TypeOK, BeginEnforced
  <2>2. policy' = policy /\ trusted' = trusted
    BY <1>3 DEF BeginEnforced, run
  <2>3. QED
    BY <2>1, <2>2, ProducedStays DEF Produced
<1>4. ASSUME NEW o \in Obligation, NEW status \in {"pass", "fail", "unknown"},
             EvaluateLegacy(o, status)
      PROVE  Produced'
  <2>1. evidence'[o] = LegacyEvidence(o, status) /\ status \in VerificationStatus
    BY <1>4 DEF TypeOK, EvaluateLegacy, VerificationStatus
  <2>2. \A p \in Obligation \ {o} : /\ evidence'[p] = evidence[p] /\ pc'[p] = pc[p]
                                    /\ results'[p] = results[p]
    BY <1>4 DEF TypeOK, EvaluateLegacy
  <2>3. policy' = policy /\ trusted' = trusted
    BY <1>4 DEF EvaluateLegacy, run
  <2>4. QED
    BY <2>1, <2>2, <2>3, ProducedStays DEF Produced
<1>5. ASSUME NEW o \in Obligation, LegacyRaises(o)
      PROVE  Produced'
  <2>1. \A p \in Obligation : /\ evidence'[p] = evidence[p] /\ results'[p] = results[p]
                              /\ pc'[p] = "done" => pc[p] = "done"
    BY <1>5 DEF TypeOK, LegacyRaises
  <2>2. policy' = policy /\ trusted' = trusted
    BY <1>5 DEF LegacyRaises, run
  <2>3. QED
    BY <2>1, <2>2, ProducedStays DEF Produced
<1>6. ASSUME NEW o \in Obligation, NEW s \in todo[o], Select(o, s)
      PROVE  Produced'
  <2>1. PICK result : Yield(o, s, result)
    BY <1>6 DEF Select, ReplayResult, Execute, StoreFails, BoundaryError, GuaranteeMismatch
  <2>2. pc[o] = "executing"
    BY <1>6 DEF Select, ReplayResult, Execute, StoreFails, BoundaryError, GuaranteeMismatch
  <2>3. /\ pc' = pc /\ evidence' = evidence
        /\ policy' = policy /\ trusted' = trusted
        /\ \A p \in Obligation \ {o} : results'[p] = results[p]
    BY <2>1 DEF TypeOK, Yield, run
  <2>4. QED
    BY <2>2, <2>3, ProducedStays DEF Produced
<1>7. ASSUME NEW o \in Obligation, Finish(o)
      PROVE  Produced'
  <2>1. /\ policy' = policy /\ trusted' = trusted /\ results' = results
        /\ \A p \in Obligation \ {o} : evidence'[p] = evidence[p] /\ pc'[p] = pc[p]
    BY <1>7 DEF TypeOK, Finish, run
  <2>2. pc'[o] = "done" => evidence'[o] = EvidenceOf(o)
    BY <1>7 DEF TypeOK, Finish
  <2>3. EvidenceOf(o)' = EvidenceOf(o)
    BY <2>1 DEF EvidenceOf, AggregateOf
  <2>4. QED
    BY <2>1, <2>2, <2>3, ProducedStays DEF Produced
<1>8. CASE Conclude
  BY <1>8, ProducedStays DEF Conclude, Produced
<1>9. CASE Evict
  BY <1>9, ProducedStays DEF Evict, run, Produced
<1>10. CASE UNCHANGED vars
  BY <1>10, ProducedStays DEF vars, run, Produced
<1>11. QED
  BY <1>1, <1>2, <1>3, <1>4, <1>5, <1>6, <1>7, <1>8, <1>9, <1>10 DEF Next, Thread, Begin


-----------------------------------------------------------------------------
\* While a run executes nothing but Conclude touches phase or verdict.
LEMMA ThreadOfARun ==
    ASSUME ThreadsOK, NEW o \in Obligation, Thread(o)
    PROVE  phase = "executing" /\ phase' = phase /\ verdict' = verdict
<1>1. CASE \/ ReplayFlat(o) \/ BeginEnforced(o) \/ LegacyRaises(o)
           \/ \E status \in {"pass", "fail", "unknown"} : EvaluateLegacy(o, status)
  BY <1>1 DEF ReplayFlat, BeginEnforced, LegacyRaises, EvaluateLegacy, MayBegin, run
<1>2. CASE \E s \in todo[o] : Select(o, s)
  BY <1>2 DEF ThreadsOK, Select, ReplayResult, Execute, StoreFails, BoundaryError,
              GuaranteeMismatch, Yield, run
<1>3. CASE Finish(o)
  BY <1>3 DEF ThreadsOK, Finish, run
<1>4. QED
  BY <1>1, <1>2, <1>3 DEF Thread, Begin

\* Every step keeps the verdict the bundle's decision.
LEMMA VerdictStep ==
    ASSUME TypeOK, ThreadsOK, VerdictOK, [Next]_vars
    PROVE  VerdictOK'
<1>1. CASE StartRun
  BY <1>1 DEF StartRun, VerdictOK, Decided, Raised, NoVerdict, DecisionState
<1>2. ASSUME NEW o \in Obligation, Thread(o)
      PROVE  VerdictOK'
  BY <1>2, ThreadOfARun DEF VerdictOK, Decided
<1>3. CASE Conclude
  <2>1. phase' = "finished" /\ active' = active /\ pc' = pc
    BY <1>3 DEF Conclude
  <2>2. CASE \E o \in active : pc[o] = "raised"
    BY <1>3, <2>1, <2>2 DEF Conclude, VerdictOK, Decided, Raised, NoVerdict, DecisionState
  <2>3. CASE ~ \E o \in active : pc[o] = "raised"
    <3>1. \A o \in active : pc[o] = "done"
      BY <1>3, <2>3 DEF Conclude
    <3>2. Bundle' = Bundle /\ BundlePolicy' = BundlePolicy
      BY <1>3 DEF Conclude, Bundle, BundlePolicy
    <3>3. verdict' = AggregateBundleDecision(Bundle, BundlePolicy)
      BY <1>3, <2>3 DEF Conclude
    <3>4. QED
      BY <2>1, <3>1, <3>2, <3>3 DEF VerdictOK
  <2>4. QED
    BY <2>2, <2>3
<1>4. CASE Evict \/ UNCHANGED vars
  <2>1. /\ phase' = phase /\ active' = active /\ pc' = pc /\ verdict' = verdict
        /\ evidence' = evidence /\ policy' = policy
    BY <1>4 DEF Evict, vars, run
  <2>2. Bundle' = Bundle /\ BundlePolicy' = BundlePolicy
    BY <2>1 DEF Bundle, BundlePolicy
  <2>3. QED
    BY <2>1, <2>2 DEF VerdictOK, Decided
<1>5. QED
  BY <1>1, <1>2, <1>3, <1>4 DEF Next

-----------------------------------------------------------------------------
\* Reports are never forgotten.
LEMMA ReportedGrows ==
    ASSUME [Next]_vars
    PROVE  reported \subseteq reported'
<1>1. \A o \in Obligation : Thread(o) => reported \subseteq reported'
  BY DEF Thread, Begin, ReplayFlat, BeginEnforced, EvaluateLegacy, LegacyRaises, Select, ReplayResult,
         Execute, StoreFails, BoundaryError, GuaranteeMismatch, Finish, Record
<1>2. QED
  BY <1>1 DEF Next, StartRun, Conclude, Evict, vars

\* An executed selection leaves its report behind.
LEMMA Recorded ==
    ASSUME NEW o, NEW s, NEW report, Record(o, s, report)
    PROVE  \E rep \in reported' : /\ rep.run = runs /\ rep.key = Key(o, s)
                                 /\ rep.status = report.status
                                 /\ rep.envelope = report.envelope
<1> DEFINE rep == [run |-> runs, key |-> Key(o, s), status |-> report.status,
                   termination |-> report.termination, envelope |-> report.envelope]
<1>1. rep \in reported'
  BY DEF Record
<1>2. /\ rep.run = runs /\ rep.key = Key(o, s) /\ rep.status = report.status
      /\ rep.envelope = report.envelope
  BY Zenon
<1>3. QED
  BY <1>1, <1>2, Zenon

\* Every step keeps the result cache made of delivered envelopes.
LEMMA CacheStep ==
    ASSUME CacheIsGenuine, [Next]_vars
    PROVE  CacheIsGenuine'
<1>1. \A e \in resultCache :
         \E rep \in reported' : rep.key = e.key /\ rep.status = e.status /\ rep.envelope
  BY ReportedGrows DEF CacheIsGenuine
<1>2. ASSUME NEW o \in Obligation, NEW s \in todo[o],
             NEW report \in Reports[KindOf[s.backend]], Execute(o, s, report)
      PROVE  CacheIsGenuine'
  <2>1. CASE report.envelope
    <3>1. PICK rep \in reported' : /\ rep.key = Key(o, s) /\ rep.status = report.status
                                  /\ rep.envelope = report.envelope
      BY <1>2, Recorded DEF Execute
    <3>2. Entry(Key(o, s), report).key = Key(o, s)
          /\ Entry(Key(o, s), report).status = report.status
      BY DEF Entry
    <3>3. rep.envelope
      BY <2>1, <3>1, Zenon
    <3>4. resultCache' = resultCache \cup {Entry(Key(o, s), report)}
      BY <1>2, <2>1 DEF Execute
    <3>5. QED
      BY <1>1, <3>1, <3>2, <3>3, <3>4 DEF CacheIsGenuine
  <2>2. CASE ~report.envelope
    BY <1>1, <1>2, <2>2 DEF Execute, CacheIsGenuine
  <2>3. QED
    BY <2>1, <2>2
<1>3. ASSUME resultCache' \subseteq resultCache
      PROVE  CacheIsGenuine'
  BY <1>1, <1>3 DEF CacheIsGenuine
<1>4. ASSUME NEW o \in Obligation, Thread(o),
             ~ \E s \in todo[o] : \E report \in Reports[KindOf[s.backend]] : Execute(o, s, report)
      PROVE  resultCache' = resultCache
  BY <1>4 DEF Thread, Begin, ReplayFlat, BeginEnforced, EvaluateLegacy, LegacyRaises, Select,
              ReplayResult, StoreFails, BoundaryError, GuaranteeMismatch, Finish
<1>5. CASE StartRun \/ Conclude \/ Evict \/ UNCHANGED vars
  BY <1>3, <1>5 DEF StartRun, Conclude, Evict, vars
<1>6. QED
  BY <1>2, <1>3, <1>4, <1>5 DEF Next


-----------------------------------------------------------------------------
\* A result is genuine for its obligation when it is not conclusive or reported.
GenuineAt(o, r) ==
    r.status \in {"pass", "fail"} =>
        \E rep \in reported : /\ rep.key = Key(o, r) /\ rep.status = r.status
                             /\ (rep.run = runs \/ rep.envelope)

\* A genuine result stays genuine within its run.
LEMMA GenuineStays ==
    ASSUME NEW o, NEW r, GenuineAt(o, r), [Next]_vars,
           policy' = policy, env' = env, trusted' = trusted, runs' = runs
    PROVE  GenuineAt(o, r)'
<1>1. Key(o, r)' = Key(o, r)
  BY DEF Key
<1>2. QED
  BY <1>1, ReportedGrows DEF GenuineAt

\* A result has the cache identity and the status it was made with.
LEMMA ResultKey ==
    ASSUME NEW o, NEW s, NEW status, NEW termination
    PROVE  /\ Key(o, Result(s, status, termination)) = Key(o, s)
           /\ Result(s, status, termination).status = status
BY DEF Key, Result

\* The result a selection yields is genuine: replayed, executed, or inconclusive.
LEMMA YieldedIsGenuine ==
    ASSUME CacheIsGenuine, [Next]_vars, NEW o \in Obligation, NEW s \in todo[o], Select(o, s)
    PROVE  \E r : Yield(o, s, r) /\ GenuineAt(o, r)'
<1>1. policy' = policy /\ env' = env /\ trusted' = trusted /\ runs' = runs
  BY DEF Select, ReplayResult, Execute, StoreFails, BoundaryError, GuaranteeMismatch, Yield, run
<1>2. \A r : Key(o, r)' = Key(o, r)
  BY <1>1 DEF Key
<1>3. CASE ReplayResult(o, s)
  <2>1. PICK e \in Lookup(Key(o, s)) : Yield(o, s, Result(s, e.status, e.termination))
    BY <1>3 DEF ReplayResult
  <2>2. PICK rep \in reported : rep.key = Key(o, s) /\ rep.status = e.status /\ rep.envelope
    BY <2>1 DEF Lookup, CacheIsGenuine
  <2>3. GenuineAt(o, Result(s, e.status, e.termination))
    BY <2>2, ResultKey DEF GenuineAt
  <2>4. QED
    BY <1>1, <2>1, <2>3, GenuineStays
<1>4. ASSUME NEW report \in Reports[KindOf[s.backend]], Execute(o, s, report)
      PROVE  \E r : Yield(o, s, r) /\ GenuineAt(o, r)'
  <2>1. Yield(o, s, Result(s, report.status, report.termination)) /\ Record(o, s, report)
    BY <1>4 DEF Execute
  <2>2. PICK rep \in reported' : rep.run = runs /\ rep.key = Key(o, s) /\ rep.status = report.status
    BY <2>1, Recorded
  <2>3. GenuineAt(o, Result(s, report.status, report.termination))'
    BY <1>1, <1>2, <2>2, ResultKey DEF GenuineAt
  <2>4. QED
    BY <2>1, <2>3
<1>5. CASE \/ BoundaryError(o, s)
           \/ \E report \in Reports[KindOf[s.backend]] : StoreFails(o, s, report)
  <2>1. Yield(o, s, Result(s, "error", "tool_error"))
    BY <1>5 DEF BoundaryError, StoreFails
  <2>2. GenuineAt(o, Result(s, "error", "tool_error"))
    BY ResultKey DEF GenuineAt
  <2>3. QED
    BY <1>1, <2>1, <2>2, GenuineStays
<1>6. CASE GuaranteeMismatch(o, s)
  <2>1. Yield(o, s, Result(s, "unknown", "invalid_output"))
    BY <1>6 DEF GuaranteeMismatch
  <2>2. GenuineAt(o, Result(s, "unknown", "invalid_output"))
    BY ResultKey DEF GenuineAt
  <2>3. QED
    BY <1>1, <2>1, <2>2, GenuineStays
<1>7. QED
  BY <1>3, <1>4, <1>5, <1>6 DEF Select

\* Every step keeps the conclusive results of every obligation genuine.
LEMMA ResultsStep ==
    ASSUME TypeOK, CacheIsGenuine, ResultsAreGenuine, [Next]_vars
    PROVE  ResultsAreGenuine'
<1>1. CASE StartRun
  BY <1>1 DEF StartRun, ResultsAreGenuine
<1>2. ASSUME NEW o \in Obligation, NEW s \in todo[o], Select(o, s)
      PROVE  ResultsAreGenuine'
  <2>1. PICK r : Yield(o, s, r) /\ GenuineAt(o, r)'
    BY <1>2, YieldedIsGenuine
  <2>2. policy' = policy /\ env' = env /\ trusted' = trusted /\ runs' = runs
    BY <2>1 DEF Yield, run
  <2>3. /\ results'[o] = results[o] \cup {r}
        /\ \A p \in Obligation \ {o} : results'[p] = results[p]
    BY <2>1 DEF Yield, TypeOK
  <2>4. \A p \in Obligation : \A q \in results[p] : GenuineAt(p, q)'
    BY <2>2, GenuineStays DEF ResultsAreGenuine, GenuineAt
  <2>5. \A p \in Obligation : \A q \in results'[p] : GenuineAt(p, q)'
    BY <2>1, <2>3, <2>4
  <2>6. QED
    BY <2>5 DEF ResultsAreGenuine, GenuineAt
<1>3. ASSUME policy' = policy, env' = env, trusted' = trusted, runs' = runs, results' = results
      PROVE  ResultsAreGenuine'
  <2>1. \A p \in Obligation : \A q \in results[p] : GenuineAt(p, q)'
    BY <1>3, GenuineStays DEF ResultsAreGenuine, GenuineAt
  <2>2. QED
    BY <1>3, <2>1 DEF ResultsAreGenuine, GenuineAt
<1>4. ASSUME NEW o \in Obligation, Thread(o), ~ \E s \in todo[o] : Select(o, s)
      PROVE  policy' = policy /\ env' = env /\ trusted' = trusted /\ runs' = runs /\ results' = results
  BY <1>4 DEF Thread, Begin, ReplayFlat, BeginEnforced, EvaluateLegacy, LegacyRaises, Finish, run
<1>5. CASE Conclude \/ Evict \/ UNCHANGED vars
  BY <1>3, <1>5 DEF Conclude, Evict, vars, run
<1>6. QED
  BY <1>1, <1>2, <1>3, <1>4, <1>5 DEF Next

-----------------------------------------------------------------------------
\* A finished thread's projection stays what it was when nothing it is made of changes.
LEMMA ProjectedStays ==
    ASSUME NEW o \in Obligation, ResultsAreProjected, policy' = policy, trusted' = trusted,
           results'[o] = results[o], evidence'[o] = evidence[o], pc'[o] = pc[o]
    PROVE  results'[o] # {} =>
             \/ pc'[o] \in {"executing", "raised"}
             \/ pc'[o] = "done" /\ evidence'[o] = EvidenceOf(o)'
<1>1. EvidenceOf(o)' = EvidenceOf(o)
  BY DEF EvidenceOf, AggregateOf
<1>2. QED
  BY <1>1 DEF ResultsAreProjected

\* Every step keeps results with the threads that executed.
LEMMA ProjectedStep ==
    ASSUME TypeOK, ResultsAreProjected, [Next]_vars
    PROVE  ResultsAreProjected'
<1>1. CASE StartRun
  BY <1>1 DEF StartRun, ResultsAreProjected
<1>2. ASSUME NEW o \in Obligation, Begin(o)
      PROVE  ResultsAreProjected'
  <2>1. /\ policy' = policy /\ trusted' = trusted /\ results' = results /\ pc[o] = "queued"
        /\ \A p \in Obligation \ {o} : evidence'[p] = evidence[p] /\ pc'[p] = pc[p]
    BY <1>2 DEF TypeOK, Begin, MayBegin, ReplayFlat, BeginEnforced, EvaluateLegacy, LegacyRaises, run
  <2>2. results'[o] = {}
    BY <2>1 DEF ResultsAreProjected
  <2>3. QED
    BY <2>1, <2>2, ProjectedStays DEF ResultsAreProjected
<1>3. ASSUME NEW o \in Obligation, NEW s \in todo[o], Select(o, s)
      PROVE  ResultsAreProjected'
  <2>1. /\ policy' = policy /\ trusted' = trusted /\ evidence' = evidence
        /\ pc' = pc /\ pc[o] = "executing"
    BY <1>3 DEF Select, ReplayResult, Execute, StoreFails, BoundaryError, GuaranteeMismatch, Yield, run
  <2>2. \A p \in Obligation \ {o} : results'[p] = results[p]
    BY <1>3 DEF TypeOK, Select, ReplayResult, Execute, StoreFails, BoundaryError,
                GuaranteeMismatch, Yield
  <2>3. QED
    BY <2>1, <2>2, ProjectedStays DEF ResultsAreProjected
<1>4. ASSUME NEW o \in Obligation, Finish(o)
      PROVE  ResultsAreProjected'
  <2>1. /\ policy' = policy /\ trusted' = trusted /\ results' = results
        /\ \A p \in Obligation \ {o} : evidence'[p] = evidence[p] /\ pc'[p] = pc[p]
    BY <1>4 DEF TypeOK, Finish, run
  <2>2. pc'[o] = "raised" \/ (pc'[o] = "done" /\ evidence'[o] = EvidenceOf(o))
    BY <1>4 DEF TypeOK, Finish
  <2>3. EvidenceOf(o)' = EvidenceOf(o)
    BY <2>1 DEF EvidenceOf, AggregateOf
  <2>4. QED
    BY <2>1, <2>2, <2>3, ProjectedStays DEF ResultsAreProjected
<1>5. CASE Conclude \/ Evict \/ UNCHANGED vars
  BY <1>5, ProjectedStays DEF Conclude, Evict, vars, run, ResultsAreProjected
<1>6. QED
  BY <1>1, <1>2, <1>3, <1>4, <1>5 DEF Next, Thread

\* Every step keeps the reports of the run among the results.
LEMMA HeldStep ==
    ASSUME TypeOK, ReportsAreHeld, [Next]_vars
    PROVE  ReportsAreHeld'
<1>1. CASE StartRun
  BY <1>1 DEF StartRun, ReportsAreHeld, TypeOK
<1>2. ASSUME NEW o \in Obligation, NEW s \in todo[o], NEW result, Yield(o, s, result)
      PROVE  /\ runs' = runs
             /\ results'[o] = results[o] \cup {result}
             /\ \A p \in Obligation \ {o} : results'[p] = results[p]
  BY <1>2 DEF Yield, run, TypeOK
<1>3. ASSUME NEW o \in Obligation, NEW s \in todo[o], NEW result, Yield(o, s, result),
             UNCHANGED reported
      PROVE  ReportsAreHeld'
  BY <1>2, <1>3 DEF ReportsAreHeld, TypeOK, KeyType
<1>4. ASSUME NEW o \in Obligation, NEW s \in todo[o], NEW report, NEW result,
             Yield(o, s, result), Record(o, s, report),
             result.backend = s.backend, result.status \in {report.status, "error"}
      PROVE  ReportsAreHeld'
  <2> DEFINE new == [run |-> runs, key |-> Key(o, s), status |-> report.status,
                     termination |-> report.termination, envelope |-> report.envelope]
  <2>1. reported' = reported \cup {new}
    BY <1>4 DEF Record
  <2>2. new.run = runs /\ new.key = Key(o, s) /\ new.status = report.status
    BY Zenon
  <2>3. Key(o, s).obligation = o /\ Key(o, s).backend = s.backend
    BY DEF Key
  <2>4. runs' = runs /\ runs \in Nat
    BY <1>2, <1>4 DEF TypeOK
  <2>5. result \in results'[o]
    BY <1>2, <1>4
  <2>6. \A rep \in reported :
          /\ rep.run <= runs'
          /\ rep.run = runs' =>
                \E r \in results'[rep.key.obligation] :
                    r.backend = rep.key.backend /\ r.status \in {rep.status, "error"}
    BY <1>2, <1>4 DEF ReportsAreHeld, TypeOK, KeyType
  <2> HIDE DEF new
  <2>7. QED
    BY <1>4, <2>1, <2>2, <2>3, <2>4, <2>5, <2>6 DEF ReportsAreHeld
<1>5. ASSUME NEW o \in Obligation, NEW s \in todo[o], Select(o, s)
      PROVE  ReportsAreHeld'
  <2>1. \A status, termination : Result(s, status, termination).backend = s.backend
    BY DEF Result
  <2>2. CASE BoundaryError(o, s) \/ GuaranteeMismatch(o, s) \/ ReplayResult(o, s)
    BY <1>3, <2>2 DEF BoundaryError, GuaranteeMismatch, ReplayResult
  <2>3. ASSUME NEW report \in Reports[KindOf[s.backend]], Execute(o, s, report)
        PROVE  ReportsAreHeld'
    BY <1>4, <2>1, <2>3, ResultKey DEF Execute
  <2>4. ASSUME NEW report \in Reports[KindOf[s.backend]], StoreFails(o, s, report)
        PROVE  ReportsAreHeld'
    BY <1>4, <2>1, <2>4, ResultKey DEF StoreFails
  <2>5. QED
    BY <1>5, <2>2, <2>3, <2>4 DEF Select
<1>6. ASSUME UNCHANGED <<runs, results, reported>>
      PROVE  ReportsAreHeld'
  BY <1>6 DEF ReportsAreHeld
<1>7. ASSUME NEW o \in Obligation, Begin(o) \/ Finish(o)
      PROVE  ReportsAreHeld'
  BY <1>6, <1>7 DEF Begin, ReplayFlat, BeginEnforced, EvaluateLegacy, LegacyRaises, Finish, run
<1>8. CASE Conclude \/ Evict \/ UNCHANGED vars
  BY <1>6, <1>8 DEF Conclude, Evict, vars, run
<1>9. QED
  BY <1>1, <1>5, <1>7, <1>8 DEF Next, Thread

-----------------------------------------------------------------------------
\* The inductive invariant holds of every state of every run.
LEMMA IInvHolds == Spec => []IInv
<1>1. Init => IInv
  <2> SUFFICES ASSUME Init PROVE IInv
    OBVIOUS
  <2>1. TypeOK
    BY InitType
  <2>2. ThreadsOK /\ Produced
    BY DEF Init, ThreadsOK, Produced
  <2>3. VerdictOK
    BY DEF Init, VerdictOK, Decided, NoVerdict
  <2>4. CacheIsGenuine /\ ResultsAreGenuine
    BY DEF Init, CacheIsGenuine, ResultsAreGenuine
  <2>5. ResultsAreProjected /\ ReportsAreHeld
    BY DEF Init, ResultsAreProjected, ReportsAreHeld
  <2>6. QED
    BY <2>1, <2>2, <2>3, <2>4, <2>5 DEF IInv
<1>2. IInv /\ [Next]_vars => IInv'
  BY TypeStep, ThreadsStep, ProducedStep, VerdictStep, CacheStep, ResultsStep,
     ProjectedStep, HeldStep DEF IInv
<1>3. QED
  BY <1>1, <1>2, PTL DEF Spec

\* Every variable keeps its type, whatever the obligations, backends and policies.
THEOREM TypeCorrect == Spec => []TypeOK
<1>1. IInv => TypeOK
  BY DEF IInv
<1>2. QED
  BY <1>1, IInvHolds, PTL

\* Conclusive results are never made up by the boundary, the cache or another
\* key's entry.
THEOREM ReplayCorrect == Spec => []ReplayIsGenuine
<1>1. IInv => ReplayIsGenuine
  BY DEF IInv, TypeOK, ResultsAreGenuine, ReplayIsGenuine
<1>2. QED
  BY <1>1, IInvHolds, PTL

\* The bundle is at least as restrictive as every item, for every policy.
THEOREM NeverMorePermissive == Spec => []NotMorePermissive
<1>1. IInv => NotMorePermissive
  <2> SUFFICES ASSUME IInv, Decided, NEW o \in active
               PROVE  AtLeast(verdict.state, EvidenceFloor(evidence[o], BundlePolicy))
    BY DEF NotMorePermissive
  <2>1. \A p \in active : pc[p] = "done"
    BY DEF IInv, VerdictOK
  <2>2. \A e \in Bundle : IsItem(e)
    BY <2>1, BundleType DEF IInv
  <2>3. evidence[o] \in Bundle
    BY DEF Bundle
  <2>4. BundlePolicy \in Policy
    BY BundlePolicyType DEF IInv, TypeOK
  <2>5. QED
    BY <2>2, <2>3, <2>4, BundleDominatesItems DEF IInv, VerdictOK
<1>2. QED
  BY <1>1, IInvHolds, PTL

\* A failed claim of any obligation blocks, for every policy.
THEOREM FailureCorrect == Spec => []FailureBlocks
<1>1. IInv => FailureBlocks
  <2> SUFFICES ASSUME IInv, Decided, NEW o \in active, NEW c \in evidence[o].claims,
                      c.status = "fail"
               PROVE  verdict.state = "block"
    BY DEF FailureBlocks
  <2>1. evidence[o] \in Bundle
    BY DEF Bundle
  <2> DEFINE f == [id |-> <<evidence[o].id, c.backend>>, status |-> c.status,
                   required |-> c.required]
  <2> DEFINE Found(e) == {[id |-> <<e.id, x.backend>>, status |-> x.status,
                           required |-> x.required] : x \in e.claims}
  <2>2. f \in FindingsFromBundle(Bundle)
    <3>1. f \in Found(evidence[o])
      BY Zenon
    <3>2. Found(evidence[o]) \in {Found(e) : e \in Bundle}
      BY <2>1, Zenon
    <3>3. FindingsFromBundle(Bundle) = UNION {Found(e) : e \in Bundle}
      BY Zenon DEF FindingsFromBundle
    <3>4. QED
      BY <3>1, <3>2, <3>3, Zenon
  <2>3. f.status = "fail"
    BY Zenon
  <2>4. f \in Failures(FindingsFromBundle(Bundle))
    BY <2>2, <2>3, Zenon DEF Failures
  <2>5. BundlePolicy \in Policy
    BY BundlePolicyType DEF IInv, TypeOK
  <2>6. QED
    BY <2>4, <2>5, BundleFails DEF IInv, VerdictOK
<1>2. QED
  BY <1>1, IInvHolds, PTL


\* An allowed run earned every obligation: each item allows, and an item of the
\* control plane allows only when covered and when every required backend passed.
THEOREM AllowCorrect == Spec => []AllowIsEarned
<1>1. IInv => AllowIsEarned
  <2> SUFFICES ASSUME IInv, verdict.state = "allow"
               PROVE  active # {} /\ \A o \in active : Earned(o)
    BY DEF AllowIsEarned
  <2>1. Decided
    BY DEF IInv, VerdictOK, Decided, DecisionState
  <2>2. /\ \A o \in active : pc[o] = "done"
        /\ verdict = AggregateBundleDecision(Bundle, BundlePolicy)
    BY <2>1 DEF IInv, VerdictOK
  <2>3. BundlePolicy \in Policy
    BY BundlePolicyType DEF IInv, TypeOK
  <2>4. \A e \in Bundle : RawEvidenceState(e) = "allow"
    BY <2>2, <2>3, BundleType, BundleAllows DEF IInv
  <2>5. active # {}
    <3>1. RawEvidenceState(CompilationFailure) # "allow"
      BY DEF CompilationFailure, EvidenceItem, RawEvidenceState, LegacyToState, DecisionState, Absent
    <3>2. QED
      BY <2>4, <3>1 DEF Bundle
  <2>6. ASSUME NEW o \in active
        PROVE  Earned(o)
    <3>1. o \in Obligation /\ pc[o] = "done"
      BY <2>2 DEF IInv, TypeOK
    <3>2. RawEvidenceState(evidence[o]) = "allow"
      BY <2>4, <2>5 DEF Bundle
    <3>3. CASE evidence[o] = EvidenceOf(o)
      <4>1. EvidenceOf(o).state = "allow"
        BY <3>1, <3>2, <3>3, EvidenceOfType DEF IInv, RawEvidenceState, LegacyToState
      <4>2. /\ FromControlPlane(o) /\ o \in Covered
            /\ AggregateOf(o).recommendation = "allow"
        BY <3>1, <3>3, <4>1, EvidenceOfType DEF IInv, FromControlPlane
      <4> DEFINE selected == policy.selected[o]
      <4>3. /\ BackendsOf(selected) = BackendsOf(results[o])
            /\ RequiredResults(selected, results[o]) # {}
            /\ \A r \in RequiredResults(selected, results[o]) : r.status = "pass"
        BY <3>1, <4>2, ResultStatuses, AggregateAllows DEF IInv, AggregateOf, AggregateResults
      <4>4. Required(selected) # {}
        BY <4>3 DEF RequiredResults, RequiredBackends, Required
      <4>5. ASSUME NEW s \in Required(selected)
            PROVE  \E rep \in reported : rep.key = Key(o, s) /\ rep.status = "pass"
        <5>1. s.backend \in RequiredBackends(selected)
          BY DEF Required, RequiredBackends
        <5>2. s.backend \in BackendsOf(selected)
          BY DEF Required, BackendsOf
        <5>3. PICK r \in results[o] : r.backend = s.backend
          BY <4>3, <5>2 DEF BackendsOf
        <5>4. r.status = "pass"
          BY <4>3, <5>1, <5>3 DEF RequiredResults
        <5>5. Key(o, r) = Key(o, s)
          BY <5>3 DEF Key
        <5>6. QED
          BY <3>1, <5>4, <5>5 DEF IInv, ResultsAreGenuine
      <4>6. QED
        BY <4>2, <4>4, <4>5 DEF Earned
    <3>4. ASSUME NEW status \in VerificationStatus, evidence[o] = LegacyEvidence(o, status)
          PROVE  Earned(o)
      <4>1. /\ evidence[o].origin = "legacy"
            /\ evidence[o].state = Absent
            /\ evidence[o].recommendation = LegacyRecommendation(status)
            /\ evidence[o].claims = {Claim("legacy", status, TRUE)}
        BY <3>4 DEF LegacyEvidence, EvidenceItem
      <4>2. LegacyToState(LegacyRecommendation(status)) = "allow"
        BY <3>2, <4>1 DEF RawEvidenceState, LegacyRecommendation, Absent
      <4>3. status = "pass"
        BY <4>2 DEF LegacyToState, LegacyRecommendation, DecisionState
      <4>4. Claim("legacy", status, TRUE).status = "pass"
        BY <4>3, Zenon DEF Claim
      <4>5. QED
        BY <4>1, <4>4 DEF Earned, FromControlPlane
    <3>5. QED
      BY <3>1, <3>3, <3>4 DEF IInv, Produced
  <2>7. QED
    BY <2>5, <2>6
<1>2. QED
  BY <1>1, IInvHolds, PTL

\* A required backend's failure delivered in this run never ends in allow: its result is
\* that failure or an error, and an aggregate allows neither of a required backend.
THEOREM RequiredFailureCorrect == Spec => []RequiredFailureNeverAllowed
<1>1. IInv => RequiredFailureNeverAllowed
  <2> SUFFICES ASSUME IInv, verdict.state = "allow", NEW o \in active,
                      NEW s \in Required(policy.selected[o]), NEW rep \in reported,
                      rep.run = runs, rep.key = Key(o, s), rep.status = "fail"
               PROVE  FALSE
    BY DEF RequiredFailureNeverAllowed
  <2>1. Decided
    BY DEF IInv, VerdictOK, Decided, DecisionState
  <2>2. o \in Obligation /\ pc[o] = "done" /\ (\A p \in active : pc[p] = "done")
    BY <2>1 DEF IInv, VerdictOK, TypeOK
  <2>3. PICK r \in results[o] : r.backend = s.backend /\ r.status \in {"fail", "error"}
    <3>1. rep.key.obligation = o /\ rep.key.backend = s.backend
      BY DEF Key
    <3>2. QED
      BY <3>1 DEF IInv, ReportsAreHeld
  <2>4. evidence[o] = EvidenceOf(o)
    BY <2>2, <2>3 DEF IInv, ResultsAreProjected
  <2>5. RawEvidenceState(evidence[o]) = "allow"
    <3>1. BundlePolicy \in Policy
      BY BundlePolicyType DEF IInv, TypeOK
    <3>2. \A e \in Bundle : IsItem(e)
      BY <2>2, BundleType DEF IInv
    <3>3. verdict = AggregateBundleDecision(Bundle, BundlePolicy) /\ evidence[o] \in Bundle
      BY <2>1 DEF IInv, VerdictOK, Bundle
    <3>4. QED
      BY <3>1, <3>2, <3>3, BundleAllows
  <2>6. EvidenceOf(o).state = "allow"
    BY <2>2, <2>4, <2>5, EvidenceOfType DEF IInv, RawEvidenceState, LegacyToState
  <2>7. AggregateOf(o).recommendation = "allow"
    BY <2>2, <2>6, EvidenceOfType DEF IInv
  <2>8. \A q \in RequiredResults(policy.selected[o], results[o]) : q.status = "pass"
    BY <2>2, <2>7, ResultStatuses, AggregateAllows DEF IInv, AggregateOf, AggregateResults
  <2>9. r \in RequiredResults(policy.selected[o], results[o])
    BY <2>3 DEF RequiredResults, RequiredBackends, Required
  <2>10. QED
    BY <2>3, <2>8, <2>9
<1>2. QED
  BY <1>1, IInvHolds, PTL
-----------------------------------------------------------------------------
(* The router makes the routes that RouterAssumption asks for *)

AssessmentType ==
    [backend : Backend, place : Nat, deterministic : BOOLEAN,
     support : {"supported", "partial", "unsupported", "unavailable"}, score : Int,
     guarantee : {GuaranteeOf[b] : b \in Backend}, material : BOOLEAN, coverage : BOOLEAN,
     fits : BOOLEAN]

\* An adapter registry has one adapter for a backend, and names are told apart.
OneEach(assessments) ==
    /\ assessments \subseteq AssessmentType
    /\ \A a, b \in assessments : a.backend = b.backend \/ a.place = b.place => a = b

\* What qualify_coverage leaves of an assessment.
LEMMA QualifiedKeeps ==
    ASSUME NEW assessments, OneEach(assessments), NEW covered \in BOOLEAN
    PROVE  /\ OneEach(Qualified(assessments, TRUE, covered))
           /\ \A q \in Qualified(assessments, TRUE, covered) :
                 \E a \in assessments :
                    /\ q.backend = a.backend /\ q.guarantee = a.guarantee /\ q.fits = a.fits
                    /\ (Executable(q) <=> Executable(a)) /\ (q.coverage => covered)
<1>1. ASSUME NEW a \in assessments
      PROVE  LET q == Qualify(a, TRUE, covered)
             IN  /\ q \in AssessmentType
                 /\ q.backend = a.backend /\ q.place = a.place /\ q.guarantee = a.guarantee
                 /\ q.fits = a.fits /\ q.support = a.support /\ q.material = a.material
                 /\ q.coverage => covered
  <2>1. a \in AssessmentType
    BY DEF OneEach
  <2> DEFINE met == Executable(a) /\ a.coverage /\ (TRUE => covered)
  <2>2. met \in BOOLEAN /\ (met => covered)
    OBVIOUS
  <2>3. Qualify(a, TRUE, covered) = [a EXCEPT !.coverage = met]
    BY DEF Qualify
  <2> HIDE DEF met
  <2> QED BY <2>1, <2>2, <2>3 DEF AssessmentType
<1>2. OneEach(Qualified(assessments, TRUE, covered))
  <2>1. \A q \in Qualified(assessments, TRUE, covered) :
          \E a \in assessments : q = Qualify(a, TRUE, covered)
    BY DEF Qualified
  <2>2. Qualified(assessments, TRUE, covered) \subseteq AssessmentType
    BY <1>1, <2>1
  <2>3. ASSUME NEW q \in Qualified(assessments, TRUE, covered),
               NEW r \in Qualified(assessments, TRUE, covered),
               q.backend = r.backend \/ q.place = r.place
        PROVE  q = r
    <3>1. PICK a \in assessments : q = Qualify(a, TRUE, covered)
      BY <2>1
    <3>2. PICK b \in assessments : r = Qualify(b, TRUE, covered)
      BY <2>1
    <3>3. a.backend = b.backend \/ a.place = b.place
      BY <1>1, <2>3, <3>1, <3>2
    <3>4. a = b
      BY <3>3 DEF OneEach
    <3> QED BY <3>1, <3>2, <3>4
  <2> QED BY <2>2, <2>3 DEF OneEach
<1>3. ASSUME NEW q \in Qualified(assessments, TRUE, covered)
      PROVE  \E a \in assessments :
                /\ q.backend = a.backend /\ q.guarantee = a.guarantee /\ q.fits = a.fits
                /\ (Executable(q) <=> Executable(a)) /\ (q.coverage => covered)
  <2>1. PICK a \in assessments : q = Qualify(a, TRUE, covered)
    BY DEF Qualified
  <2>2. /\ q.backend = a.backend /\ q.guarantee = a.guarantee /\ q.fits = a.fits
        /\ q.support = a.support /\ q.material = a.material /\ (q.coverage => covered)
    BY <1>1, <2>1, Zenon
  <2>3. Executable(q) <=> Executable(a)
    BY <2>2, Zenon DEF Executable
  <2> QED BY <2>2, <2>3, Zenon
<1> QED BY <1>2, <1>3, Zenon

LEMMA OneIsFirst ==
    ASSUME NEW S, OneEach(S), NEW config, NEW a \in First(S, config), NEW b \in First(S, config)
    PROVE  a = b
<1>1. Ahead(a, b, config) /\ Ahead(b, a, config) /\ a \in S /\ b \in S
  BY DEF First
<1>2. AdjustedScore(a, config) \in Int /\ AdjustedScore(b, config) \in Int
  BY <1>1 DEF OneEach, AdjustedScore, AssessmentType
<1>3. a.place \in Nat /\ b.place \in Nat
  BY <1>1 DEF OneEach, AssessmentType
<1>4. a.place = b.place
  BY <1>1, <1>2, <1>3 DEF Ahead
<1> QED BY <1>1, <1>4 DEF OneEach

\* Every route the router makes for an enforced obligation is of the shape that
\* RouterAssumption asks for, and its required backend is executable, within the budget,
\* and required of an obligation only whose coverage permits a strict allow
\* (select_primary_with_optional_corroboration, qualify_coverage).
THEOREM RouteIsWellFormed ==
    ASSUME NEW o \in Obligation, NEW assessments, NEW config, NEW covered \in BOOLEAN,
           OneEach(assessments),
           \A a \in assessments : a.guarantee = GuaranteeOf[a.backend]
    PROVE  LET route == Selected(Qualified(assessments, TRUE, covered), Acceptable[o], config)
           IN  /\ WellFormedRoute(o, route)
               /\ \A s \in Required(route) :
                     /\ covered
                     /\ \E a \in assessments : a.backend = s.backend /\ Executable(a) /\ a.fits
<1> DEFINE Q == Qualified(assessments, TRUE, covered)
           eligible == Eligible(Q, Acceptable[o], config)
           primary == Primary(eligible, config)
           corroborator == Corroborator(eligible, config)
           route == Selected(Q, Acceptable[o], config)
<1>1. /\ OneEach(Q)
      /\ \A q \in Q : \E a \in assessments :
            /\ q.backend = a.backend /\ q.guarantee = a.guarantee /\ q.fits = a.fits
            /\ (Executable(q) <=> Executable(a)) /\ (q.coverage => covered)
  BY QualifiedKeeps
<1>2. eligible \subseteq Q /\ primary \subseteq eligible /\ corroborator \subseteq eligible \ primary
  BY DEF Eligible, Primary, PrimaryCandidates, Supported, Corroborator, First
<1>3. \A q \in primary : /\ q.coverage /\ Executable(q) /\ q.fits
                          /\ (Acceptable[o] = {} \/ q.guarantee \in Acceptable[o])
  BY DEF Eligible, Primary, PrimaryCandidates, Supported, First
<1>4. OneEach(PrimaryCandidates(eligible, config)) /\ OneEach(eligible \ primary)
  BY <1>1, <1>2 DEF OneEach, PrimaryCandidates, Supported
<1>5. \A a, b \in primary : a = b
  BY <1>4, OneIsFirst DEF Primary
<1>6. \A a, b \in corroborator : a = b
  BY <1>4, OneIsFirst DEF Corroborator
<1>7. \A a \in primary, b \in corroborator : a.backend # b.backend
  BY <1>1, <1>2 DEF OneEach
<1>8. route = {[backend |-> a.backend, required |-> TRUE] : a \in primary}
                 \cup {[backend |-> a.backend, required |-> FALSE] : a \in corroborator}
  BY DEF Selected
<1> HIDE DEF Q, eligible, primary, corroborator, route
<1>9. ASSUME NEW s \in route
      PROVE  \/ s.required = TRUE /\ \E a \in primary : s = [backend |-> a.backend, required |-> TRUE]
             \/ s.required = FALSE
                /\ \E b \in corroborator : s = [backend |-> b.backend, required |-> FALSE]
  BY <1>8
<1>10. ASSUME NEW s \in route, NEW t \in route, s.backend = t.backend \/ s.required = t.required
       PROVE  s = t
  <2>1. CASE s.required = TRUE /\ t.required = TRUE
    BY <1>5, <1>9, <2>1
  <2>2. CASE s.required = FALSE /\ t.required = FALSE
    BY <1>6, <1>9, <2>2
  <2>3. ASSUME NEW q \in route, NEW r \in route, q.required = TRUE, r.required = FALSE
        PROVE  q.backend # r.backend
    <3>1. PICK a \in primary : q = [backend |-> a.backend, required |-> TRUE]
      BY <1>9, <2>3
    <3>2. PICK b \in corroborator : r = [backend |-> b.backend, required |-> FALSE]
      BY <1>9, <2>3
    <3> QED BY <1>7, <3>1, <3>2
  <2> QED BY <1>9, <1>10, <2>1, <2>2, <2>3
<1>11. ASSUME NEW s \in route, s.required
       PROVE  /\ covered
              /\ \E a \in assessments : a.backend = s.backend /\ Executable(a) /\ a.fits
              /\ (Acceptable[o] = {} \/ GuaranteeOf[s.backend] \in Acceptable[o])
  <2>1. PICK q \in primary : s.backend = q.backend
    <3>1. s.required # FALSE
      BY <1>11
    <3>2. \E q \in primary : s = [backend |-> q.backend, required |-> TRUE]
      BY <1>9, <3>1
    <3> QED BY <3>2
  <2>2. q \in Q
    BY <1>2
  <2>3. PICK a \in assessments : /\ q.backend = a.backend /\ q.guarantee = a.guarantee
                                 /\ q.fits = a.fits /\ (Executable(q) <=> Executable(a))
                                 /\ (q.coverage => covered)
    BY <1>1, <2>2
  <2> QED BY <1>3, <2>1, <2>3
<1> QED BY <1>10, <1>11 DEF WellFormedRoute, Required, route, Q
-----------------------------------------------------------------------------
(* The refinement of MergeGate: what a kernel run may tell the merge queue *)


\* The two substitutions of Gate.
ClearedSet == {o \in active : Cleared(o)}
GateVerdict ==
    CASE verdict.state \in {"none", "allow"} -> verdict.state
      [] OTHER                              -> "refused"

gateVars == <<phase, active, ClearedSet, GateVerdict>>

\* A bundle that allows consists of cleared obligations, and of one at least.
LEMMA AllowedIsCleared ==
    ASSUME IInv, \A o \in active : pc[o] = "done",
           AggregateBundleDecision(Bundle, BundlePolicy).state = "allow"
    PROVE  active # {} /\ \A o \in active : Cleared(o)
<1> DEFINE F == FindingsFromBundle(Bundle)
<1>1. /\ \A e \in Bundle : RawEvidenceState(e) = "allow"
      /\ Failures(F) = {} /\ Shortfall(F) = {}
  BY BundlePolicyType, BundleType, BundleAllows DEF IInv, TypeOK
<1>2. active # {}
  <2>1. RawEvidenceState(CompilationFailure) # "allow"
    BY DEF CompilationFailure, EvidenceItem, RawEvidenceState, LegacyToState, DecisionState, Absent
  <2> QED BY <1>1, <2>1 DEF Bundle
<1>3. ASSUME NEW o \in active PROVE Cleared(o)
  <2>1. evidence[o] \in Bundle
    BY DEF Bundle
  <2>2. ASSUME NEW c \in evidence[o].claims
        PROVE  c.status # "fail" /\ (c.required => c.status = "pass")
    <3> DEFINE Finding(e, x) == [id |-> <<e.id, x.backend>>, status |-> x.status,
                                 required |-> x.required]
               f == Finding(evidence[o], c)
    <3>1. f \in F
      <4>1. f \in {Finding(evidence[o], x) : x \in evidence[o].claims}
        BY Zenon
      <4>2. F = UNION {{Finding(e, x) : x \in e.claims} : e \in Bundle}
        BY Zenon DEF FindingsFromBundle
      <4> HIDE DEF f, Finding
      <4> QED BY <2>1, <4>1, <4>2
    <3>2. f.status = c.status /\ f.required = c.required
      BY Zenon
    <3> HIDE DEF f, F
    <3>3. c.status # "fail"
      BY <1>1, <3>1, <3>2 DEF Failures
    <3>4. ASSUME c.required PROVE c.status = "pass"
      <4>1. f \in Required(F)
        BY <3>1, <3>2, <3>4, Zenon DEF Required
      <4> QED BY <1>1, <3>2, <4>1 DEF Shortfall
    <3> QED BY <3>3, <3>4
  <2> QED BY <1>1, <2>1, <2>2 DEF Cleared
<1> QED BY <1>2, <1>3

\* What a thread that ends does to the set of cleared obligations: nothing, or it adds
\* the thread's own.
LEMMA ThreadClears ==
    ASSUME IInv, NEW o \in Obligation, phase = "executing", UNCHANGED <<phase, active, verdict>>,
           pc[o] # "done", o \in active,
           \A p \in Obligation \ {o} : evidence'[p] = evidence[p] /\ pc'[p] = pc[p]
    PROVE  [Gate!Next]_gateVars
<1>1. o \notin ClearedSet /\ active \subseteq Obligation
  BY DEF ClearedSet, Cleared, IInv, TypeOK
<1>2. \A p \in active \ {o} : Cleared(p)' <=> Cleared(p)
  BY <1>1 DEF Cleared, RawEvidenceState
<1>3. GateVerdict' = GateVerdict
  BY DEF GateVerdict
<1>4. CASE Cleared(o)'
  <2>1. ClearedSet' = ClearedSet \cup {o}
    BY <1>2, <1>4 DEF ClearedSet
  <2>2. Gate!Clear(o)
    BY <1>1, <1>3, <2>1 DEF Gate!Clear, ClearedSet, GateVerdict
  <2> QED BY <2>2 DEF Gate!Next
<1>5. CASE ~ Cleared(o)'
  <2>1. ClearedSet' = ClearedSet
    BY <1>1, <1>2, <1>5 DEF ClearedSet
  <2> QED BY <1>3, <2>1 DEF gateVars
<1> QED BY <1>4, <1>5

\* A step that leaves what the gate sees.
LEMMA Unseen ==
    ASSUME UNCHANGED <<phase, active, verdict, pc, evidence>>
    PROVE  UNCHANGED gateVars
BY DEF gateVars, ClearedSet, GateVerdict, Cleared, RawEvidenceState

\* Every step of a kernel run is a step of the gate, or one it does not see.
LEMMA GateStep == IInv /\ [Next]_vars => [Gate!Next]_gateVars
<1> SUFFICES ASSUME IInv, [Next]_vars PROVE [Gate!Next]_gateVars
  OBVIOUS
<1>1. CASE StartRun
  <2>1. /\ phase # "executing" /\ active' \in SUBSET Obligation
        /\ \A o \in Obligation : pc'[o] # "done"
    BY <1>1, ControlPlaneAssumption DEF StartRun
  <2>2. ClearedSet' = {}
    BY <2>1 DEF ClearedSet, Cleared
  <2>3. \/ phase' = "executing" /\ GateVerdict' = "none"
        \/ phase' = "finished" /\ GateVerdict' = "refused"
    BY <1>1 DEF StartRun, GateVerdict, NoVerdict, Raised
  <2>4. Gate!Start(active')
    BY <2>1, <2>2, <2>3 DEF Gate!Start, ClearedSet, GateVerdict
  <2> QED BY <2>1, <2>4 DEF Gate!Next
<1>2. ASSUME NEW o \in Obligation, Begin(o) \/ Finish(o) PROVE [Gate!Next]_gateVars
  <2>1. /\ pc[o] \in {"queued", "executing"} /\ UNCHANGED <<phase, active, verdict>>
        /\ \A p \in Obligation \ {o} : evidence'[p] = evidence[p] /\ pc'[p] = pc[p]
    BY <1>2 DEF IInv, TypeOK, Begin, MayBegin, ReplayFlat, BeginEnforced, EvaluateLegacy,
                LegacyRaises, Finish, run
  <2>2. phase = "executing" /\ o \in active
    BY <2>1 DEF IInv, ThreadsOK
  <2> QED BY <2>1, <2>2, ThreadClears
<1>3. ASSUME NEW o \in Obligation, NEW s \in todo[o], Select(o, s) PROVE [Gate!Next]_gateVars
  <2>1. UNCHANGED <<phase, active, verdict, pc, evidence>>
    BY <1>3 DEF Select, ReplayResult, Execute, StoreFails, BoundaryError, GuaranteeMismatch, Yield, run
  <2> QED BY <2>1, Unseen
<1>4. CASE Conclude
  <2>1. /\ phase = "executing" /\ phase' = "finished" /\ active' = active
        /\ ClearedSet' = ClearedSet
    BY <1>4 DEF Conclude, ClearedSet, Cleared, RawEvidenceState
  <2>2. CASE \E o \in active : pc[o] = "raised"
    <3>1. GateVerdict' = "refused"
      BY <1>4, <2>2 DEF Conclude, GateVerdict, Raised, NoVerdict
    <3>2. Gate!Refuse
      BY <2>1, <3>1 DEF Gate!Refuse, ClearedSet, GateVerdict
    <3> QED BY <3>2 DEF Gate!Next
  <2>3. CASE ~ \E o \in active : pc[o] = "raised"
    <3>1. /\ \A o \in active : pc[o] = "done"
          /\ verdict' = AggregateBundleDecision(Bundle, BundlePolicy)
      BY <1>4, <2>3 DEF Conclude
    <3>2. verdict'.state \in DecisionState
      BY <3>1, BundlePolicyType, BundleType, BundleDominatesItems DEF IInv, TypeOK
    <3>3. CASE verdict'.state = "allow"
      <4>1. active # {} /\ ClearedSet = active
        BY <3>1, <3>3, AllowedIsCleared DEF ClearedSet
      <4>2. GateVerdict' = "allow"
        BY <3>3 DEF GateVerdict
      <4>3. Gate!Allow
        BY <2>1, <4>1, <4>2 DEF Gate!Allow, ClearedSet, GateVerdict
      <4> QED BY <4>3 DEF Gate!Next
    <3>4. CASE verdict'.state # "allow"
      <4>1. GateVerdict' = "refused"
        BY <3>2, <3>4 DEF GateVerdict, DecisionState
      <4>2. Gate!Refuse
        BY <2>1, <4>1 DEF Gate!Refuse, ClearedSet, GateVerdict
      <4> QED BY <4>2 DEF Gate!Next
    <3> QED BY <3>3, <3>4
  <2> QED BY <2>2, <2>3
<1>5. CASE Evict \/ UNCHANGED vars
  BY <1>5, Unseen DEF Evict, vars, run
<1> QED BY <1>1, <1>2, <1>3, <1>4, <1>5 DEF Next, Thread

LEMMA GateInit == Init => Gate!Init
<1> SUFFICES ASSUME Init PROVE Gate!Init
  OBVIOUS
<1>1. ClearedSet = {} /\ GateVerdict = "none"
  BY DEF Init, ClearedSet, GateVerdict, NoVerdict
<1> QED BY <1>1 DEF Init, Gate!Init, ClearedSet, GateVerdict

\* A kernel run is a run of the merge gate: it ends in allow only when the change had
\* obligations and the threads cleared all of them (execute_kernel, make_bundle).
THEOREM GateImplemented == Spec => ImplementsMergeGate
<1>1. IInv /\ [Next]_vars => [Gate!Next]_Gate!vars
  BY GateStep DEF gateVars, Gate!vars, ClearedSet, GateVerdict
<1> QED BY <1>1, GateInit, IInvHolds, PTL DEF Spec, ImplementsMergeGate, Gate!Spec
-----------------------------------------------------------------------------
(* One obligation on its own: any selections and fallback policies, and results that    *)
(* arrive one at a time from any backends.                                               *)

TypedResults == \A r \in delivered : r.status \in VerificationStatus

\* Whatever arrives is a verification status.
LEMMA TypedHolds == TableSpec => []TypedResults
<1>1. TableInit => TypedResults
  BY DEF TableInit, TypedResults
<1>2. TypedResults /\ [TableNext]_tableVars => TypedResults'
  <2> SUFFICES ASSUME TypedResults, [TableNext]_tableVars PROVE TypedResults'
    OBVIOUS
  <2>1. ASSUME NEW b \in Backend, NEW report \in Reports[KindOf[b]], Deliver(b, report)
        PROVE  TypedResults'
    <3>1. report.status \in VerificationStatus
      BY BackendAssumption, ReportType
    <3> QED BY <2>1, <3>1 DEF Deliver, TypedResults
  <2>2. CASE UNCHANGED tableVars
    BY <2>2 DEF tableVars, TypedResults
  <2> QED BY <2>1, <2>2 DEF TableNext
<1> QED BY <1>1, <1>2, PTL DEF TableSpec

\* An allow rests on every selected backend, on a required one, and on required passes
\* that are acceptable or admitted one by one (aggregate_fail_dominant_v1).
THEOREM AllowSupported == TableSpec => []AllowIsSupported
<1> DEFINE S == obligation.selected
           A == obligation.acceptable
           F == obligation.fallback
<1>1. TypedResults => AllowIsSupported
  <2> SUFFICES ASSUME TypedResults, OutcomeOf(S, delivered).state = "allow"
               PROVE  /\ AllDelivered
                      /\ RequiredBackends(S) # {}
                      /\ \A r \in delivered : r.status # "fail"
                      /\ \A r \in RequiredDelivered :
                            /\ r.status = "pass"
                            /\ \/ A = {} \/ r.guarantee \in A
                               \/ F.allow /\ (F.backends = {} \/ r.backend \in F.backends)
    BY DEF AllowIsSupported
  <2> DEFINE accepted == FallbackAccepted(F, S, delivered, A)
             weak == WeakResults(S, delivered, A)
  <2>1. /\ AggregateFailDominant(S, delivered, A, accepted).recommendation = "allow"
        /\ (\A r \in RequiredDelivered : r.status = "pass") => weak = {} \/ accepted
    BY StateAllows DEF OutcomeOf, RequiredDelivered, AggregateResults
  <2>2. /\ AllDelivered
        /\ RequiredDelivered # {}
        /\ \A r \in RequiredDelivered : r.status = "pass"
        /\ \A r \in delivered : r.status # "fail"
    BY <2>1, AggregateAllows DEF TypedResults, AllDelivered, RequiredDelivered
  <2>3. RequiredBackends(S) # {}
    BY <2>2 DEF RequiredDelivered, RequiredResults
  <2>4. ASSUME NEW r \in RequiredDelivered, A # {}, r.guarantee \notin A
        PROVE  F.allow /\ (F.backends = {} \/ r.backend \in F.backends)
    <3>1. r \in weak
      BY <2>2, <2>4 DEF WeakResults, RequiredDelivered
    <3>2. ~ FallbackRejects(F, r)
      BY <2>1, <2>2, <3>1 DEF FallbackAccepted
    <3> QED BY <3>2 DEF FallbackRejects
  <2> QED BY <2>2, <2>3, <2>4
<1> QED BY <1>1, TypedHolds, PTL

\* Whatever corroborators report, the outcome is at least as restrictive as without them.
THEOREM OptionalNeverHelped == TableSpec => []OptionalNeverHelps
<1> DEFINE S == obligation.selected
           A == obligation.acceptable
           T == Required(S)
           Q == RequiredDelivered
           F == ResultFindings(S, delivered)
<1>1. TypedResults => OptionalNeverHelps
  <2> SUFFICES ASSUME TypedResults, AllDelivered
               PROVE  AtLeast(OutcomeOf(S, delivered).state, OutcomeOf(T, Q).state)
    BY DEF OptionalNeverHelps
  <2> DEFINE accepted == FallbackAccepted(obligation.fallback, S, delivered, A)
             gate == /\ \A r \in Q : r.status = "pass"
                     /\ WeakResults(S, delivered, A) # {} /\ ~accepted
             withThem == AggregateFailDominant(S, delivered, A, accepted)
             without == AggregateFailDominant(T, Q, A, accepted)
  <2>1. /\ BackendsOf(S) = BackendsOf(delivered)
        /\ Q = RequiredResults(S, delivered)
    BY DEF AllDelivered, RequiredDelivered
  <2>2. /\ RequiredResults(T, Q) = Q
        /\ WeakResults(T, Q, A) = WeakResults(S, delivered, A)
        /\ ResultFindings(T, Q) = Required(F)
        /\ BackendsOf(T) = BackendsOf(Q)
    BY <2>1, RequiredPart
  <2>3. OutcomeOf(S, delivered) = withThem /\ OutcomeOf(T, Q) = without
    BY <2>1, <2>2 DEF OutcomeOf, AggregateResults, FallbackAccepted
  <2>4. CASE gate
    <3>1. withThem.state = "needs_review" /\ without.state = "needs_review"
      BY <2>1, <2>2, <2>4 DEF AggregateFailDominant, Aggregate
    <3> QED BY <2>3, <3>1 DEF AtLeast, DecisionSeverity
  <2>5. CASE ~gate
    <3>1. /\ withThem.state = AggregateDecision(F, StrictDefault).state
          /\ without.state = AggregateDecision(Required(F), StrictDefault).state
      BY <2>1, <2>2, <2>5 DEF AggregateFailDominant, Aggregate
    <3>2. \A f \in F : IsFinding(f)
      BY ResultFindingsType DEF TypedResults
    <3> HIDE DEF F, T, Q
    <3> QED BY <2>3, <3>1, <3>2, OptionalFindings DEF T, Q
  <2> QED BY <2>4, <2>5
<1> QED BY <1>1, TypedHolds, PTL
=============================================================================
