# A TLA+ model of the Open Verification Kernel

OVK looks at a change of a repository, derives verification obligations from it, executes
them with one or several checkers, and publishes a bundle of evidence with a decision that
gates the merge. Around that path stand a GitHub App that receives the events, an analysis of
route handlers that says which guard protects which effect, evidence of that analysis that is
reused between revisions, and a ledger of what it established. This project models these
parts as state machines, model-checks them with TLC on small instances, and proves their
central invariants with TLAPS for every instance.

All paths are relative to the repository; a file without a directory is in `ovk/core/`.

## The system

| Part | State it keeps | Operations | Hard behaviours | Correct when | Here |
|---|---|---|---|---|---|
| Kernel (`kernel.py`, `bundle.py`) | one run at a time, from policy to bundle | `execute_kernel`, `make_bundle` | no obligation compiled; an exception after part of the work | allows only what every obligation earned | `ControlPlane`, `MergeGate` |
| Authoritative runtime (`authoritative_runtime.py`, `adapter_runtime.py`) | thread pool, flat evidence cache | `execute_authoritative_plan`, `_evaluate_obligation` | threads share caches; one raises while others run; lanes change mode between runs | no thread is left out, whoever is first | `ControlPlane` |
| Backend control plane (`backend_control_plane.py`) | attempts and results of an obligation | `execute`, `_execute_one` | replay of stored results; exception before, in or after the backend's run | results are genuine; an exception never helps | `ControlPlane` |
| Router (`router.py`, `coverage_contract.py`) | pure | `select_primary_with_optional_corroboration` | coverage, guarantee, budget and preference interact | at most one primary, executable and with an acceptable guarantee | `Router` |
| Result cache (`result_cache.py`) | files, one per key | `put`, `get`, `get_cached_execution` | no lock, no atomic rename: torn, mixed, expired, unlinked and copied records | a hit is what was put under that key | `ResultCache`, `CacheContract` |
| Aggregation (`backend_aggregation.py`) | pure | `aggregate_results`, `evaluate_fallback_acceptance` | weak guarantees, fallback, missing or unexpected results | an allow has support; corroborators never help | `Aggregation`, `AggregationTable` |
| Decision lattice (`decision.py`) | pure | `aggregate_decision`, `aggregate_bundle_decision` | two vocabularies, policy overlay, order of dominance | never more permissive than any part | `Decision` |
| Evidence (`evidence_from_execution.py`, `compilation_evidence.py`) | pure | `execution_record_to_evidence` | coverage gate and vocabulary reconciliation | no allow without coverage | `Evidence` |
| Workers (`worker_runner.py`, `execution_budget.py`, adapters) | a subprocess | `run_with_required_worker`, `normalize` | timeout, kill, no isolation, partial output | none of these reads as a verdict | `Worker` |
| Offline verifier (`evidence_verifier.py`) | pure | `_verify_bundle_semantics` | decides the same bundle from other code | accepts what the kernel produces | not modelled |
| GitHub App (`integrations/github-app/ovk_github_app`) | claimed deliveries, token cache, partitions on disk | webhook, `get_token`, `handle_installation_deleted` | redelivery, clock skew, restart, failing removal, deletion racing work | a delivery is handled once; its receipt is kept; an uninstall leaves nothing | `GitHubApp` |
| Handler analysis (`ovk/compilers/authorization`, `protected_effect_integrity.py`) | pure | `build_handler_control_flow`, `bind_route_file_summary`, the integrity evaluation | short-circuit operands, nested branches, several guards | evidence is true of every execution; a pass rests on guards that ran | `ControlFlow`, `Dominance`, `Handler`, `Integrity` |
| Contract composition and its state file (same directory) | fragments and contracts of a revision, in one file per profile | compose, compile incrementally, load and store | reuse across revisions, two jobs on one file, a job that dies | same result as from nothing; whole files | `ContractComposition`, `SemanticState` |
| Incremental assurance (`incremental_assurance.py`, `automatic_pr_assurance.py`, ...) | cache of sealed evidence | plan, reuse, reissue, evaluate | jobs share the cache; contracts change below an effect; ageing | reuse only of what still holds | `AssuranceIR`, `IncrementalAssurance` |
| Guarantee ledger (`guarantee_assurance_state.py`, `guarantee_assurance_ledger.py`) | chain of entries | admit, resolve, seal, verify | forks, replayed entries, losses below a guarantee | a verified chain is one history | `GuaranteeState`, `GuaranteeLedger` |

How they interact. The kernel compiles obligations, routes each once, and hands both to the
authoritative runtime. Every obligation is one task of a thread pool. A task asks the flat cache
(legacy mode only), then runs the legacy evaluator or the control plane. The control plane
executes the selections of the route in order, asks the result cache before each, and aggregates
when all have a result. The projected evidence items meet again in `make_bundle`. Threads share
only the two cache directories; runs share nothing else. Pull-request assurance is a second path:
handlers are compiled with the semantic state the last job left, the effects of head and base are
evaluated or their evidence is reused, and the resulting snapshot of guarantees may be sealed into the
ledger. `PROJECT.json` lists the hazards line by line, and every component that is not modelled
with the reason.

## Modules

| Module | What it is |
|---|---|
| `Decision` | the lattice, as constant operators over sets of findings and items |
| `Worker` | every end of a worker and what the adapters normalise it to |
| `Aggregation` | `fail_dominant.v1` with fallback acceptance |
| `Evidence` | items, projection, the self-protection override |
| `Router` | from the adapters' assessments of an obligation to its selections |
| `ControlPlane` | state machine of kernel runs over one head revision |
| `MergeGate` | the abstract gate `ControlPlane` implements |
| `AggregationTable` | results of one obligation arriving one by one, for selections the router does not make |
| `ResultCache` | the record files, with clients that read and write them piece by piece |
| `CacheContract` | the abstract cache `ResultCache` implements |
| `GitHubApp` | deliveries, partitions, tokens, restarts |
| `AssuranceIR` | slices, contract graph and impact, the plan: what changed between two revisions |
| `IncrementalAssurance` | jobs over a shared evidence cache |
| `GuaranteeState` | which guarantees evidence establishes, through their dependencies |
| `GuaranteeLedger` | sealing entries and verifying chains, composed with the jobs that make the evidence |
| `Dominance` | reachability, dominators, coverage, cut sets and the evidence made of them, for any graph |
| `ControlFlow` | the control-flow graph of a handler |
| `Integrity` | guard presence, effectiveness and binding of one effect, and the overall status |
| `Handler` | the analysis of a handler, then an execution of that handler |
| `ContractComposition` | full and incremental composition of return contracts, fragments |
| `SemanticState` | jobs that load, compile and store the state of a profile |
| `MC*` | instances: constants, policies, revisions and handlers for TLC |
| `*Proofs` | theorems and the lemmas they rest on |

Composition: `Decision` is extended by `Worker`, that by `Aggregation`, that by `Evidence` and
`AggregationTable`, and `Evidence` by `ControlPlane`, so every operator of the pure parts runs
inside the state machine; `MCControlPlane` computes its routes with `Router`. `GuaranteeLedger`
extends `IncrementalAssurance` (over `AssuranceIR`) and `GuaranteeState`; `Handler` extends `ControlFlow`
(over `Dominance`) and `Integrity`; `SemanticState` extends `ContractComposition`. Two refinements are stated and
checked: `ControlPlane` implements `MergeGate`, `ResultCache` implements `CacheContract`.

### `ControlPlane`

A state is one run in progress, with what earlier runs left in the caches. `pc[o]` is the program
counter of the task of obligation `o`; `todo[o]` the selections its control plane still has to
execute; `results[o]`, `evidence[o]` what it has. `reported` is a history variable: what adapters
reported, with the cache identity. Nothing in the code reads it.

| Action | Code |
|---|---|
| `StartRun` | `execute_kernel` up to the pool; a policy asking for cross-backend fallback raises in `_validate_authoritative_fallback` |
| `ReplayFlat`, `BeginEnforced`, `EvaluateLegacy`, `LegacyRaises` | the branches of `_evaluate_obligation` |
| `ReplayResult`, `Execute`, `StoreFails`, `BoundaryError`, `GuaranteeMismatch` | the exits of `_execute_one` |
| `Finish` | the end of `execute`, the projection and the override for untrusted metadata; an unknown `routing.aggregation` raises |
| `Conclude` | leaving the pool: the exception of a task, or `make_bundle` |
| `Evict` | expiry or removal of an entry of either cache |

An adapter's step, the cache lookup included, is atomic: two threads of one run never share a key
(the obligation is part of it), and `ResultCache` covers what other processes do to the files. A
run with one obligation executes without a pool, which is the same behaviour; with
`parallel=False` the code stops at the first exception where the model lets the other tasks end,
and the outcome, an exception, is the same.

A route is `Selected(Qualified(assessments, ...), acceptable, configuration)`: the configuration of
the policy and the assessment of each installed adapter, not a set written down. The obligation
`raw` has a coverage that permits no strict allow; under enforcement its backends do not qualify
and it has no primary.

### `ResultCache`

`write_text` truncates and writes without lock or temporary name. The JSON is laid out
`cached_at`, key, payload, `payload_digest` (sorted names), so a record is three pieces: the
head, the first part of the payload, the rest with the digest. A reader may see a prefix of them,
or pieces of different writers. `Unreadable` is the case where the text does not parse: pieces of
one write always parse, mixed ones may or may not. `Reject` and `Remove` are separate because a
writer can come between the check and `unlink`. Inodes are explicit, as readers and writers keep an
unlinked file. `Abandon` is the death of a process. Initially there may be records of an earlier
schema, and records that were put under `StrayKey` and copied to a name of `Key`. A hit carries both
parts of the payload as they were read, so that a mixture is distinguishable from what was put.

### `GitHubApp`

The webhook endpoint does not suspend while it handles a request, so `Receive` is one step with six
outcomes: `RefuseDuplicate`, `RefusePayload`, `HandleEvent`, `HandleOther`, `HandleDeleted` and
`DispatchFails`. As in the code the delivery id is claimed before the payload is looked at, and the
claim stays when the dispatch fails. `LeftBehind` is what a failing dispatch leaves: directories, part of a
tree that was to be removed, or the truncated file of a receipt, which `write_text` (`isolation.py:87`) opens before it writes.
`get_token` suspends in its HTTP exchange and is two steps, `AskForToken`, then `TakeToken` or
`RefuseToken`, with the time read before the exchange; serving a cached token changes nothing and has no action.
`TokenProvider` says whether the processor was given the provider whose cache a removal clears; `service.py:34-40` gives it none and has
no tokens either. `Restart` keeps the partitions only:
claims and tokens live in memory. `log` is a history variable of the accepted deliveries.

### `IncrementalAssurance` and `GuaranteeLedger`

A record stands for its digest. A job is opened for a base and a head (`Open`), has evidence made for
the base (`MaterializeBase`) and for the head (`AssureHead`), or raises (`Raise`). The shared cache is
keyed by effect, slice, policy and runtime, without revision and time, as in the code; so other
jobs store between a job's plan and its lookup. What the evaluator says is a function of the slice *and* of
evidence beyond it, because the code's slice does not hold all the evaluator reads (see
"Findings").

`Seal` builds an entry from a completed job's snapshot on any predecessor the code accepts, so the ledger
forks. An entry's digest is its index. Verification is checked for every order of entries a holder
may present, not only for those that were built.

### `Handler`

A handler is a tree of statements with calls at sites; `Analyse` is `bind_route_file_summary` and
the integrity evaluation. `report` holds for every sink the verdict, and what the two evidence functions
answer: which of the calls before it dominate it (`build_guard_dominance_evidence`), and which sets of them cover it
(`build_authorization_cut_set_evidence`). At this commit the binder uses less than that: `analyze_body_helper_implementation`
calls no helper proved (`body_helper_contracts.py:365-426`), so a helper is a guard of unknown effect, no
dominance evidence is built, and the cut candidates are the ownership assertions
(`fastapi_semantic_fragment.py:1006-1076`). A verdict therefore rests on ownership assertions and dependencies alone; what the
properties say of evidence on helpers is said of those two functions, whoever asks them. The steps after it are not code of the repository but the interpreter that
runs the handler: `Serve` runs the dependencies, `Execute` one statement, with every outcome of
every test. `ran` and `performed` record which calls ran, and before which effect. Analysis and
execution meet only in the properties: what the analysis said must be so on every execution.

### `SemanticState`

`Open` and `CompileHead` split the load at the read (the JSON names are sorted: the composition state comes in the
first part, fragments and payload digest in the rest). `OpenTemp` truncates the temporary name, which all jobs
share; `WritePart`, `WriteRest` and `Replace` follow, the last raising if the name is gone;
`Crash` may come anywhere. Inodes are explicit, since a job keeps writing a file that was renamed meanwhile.
A contract is the preimage of its `contract_id`. Keyword arguments, null preconditions and the fragment's
dependencies on helper digests and route dependencies are left out.

## What is checked

| Run | Instance | States | Shows |
|---|---|---|---|
| `gate` | 3 obligations, 3 backends, 6 policies, 1 run, 2 threads, `FairSpec` | 160 thousand | `TypeOK`, `AllowIsEarned`, `FailureBlocks`, `NotMorePermissive`, `ImplementsMergeGate`, `RunTerminates` |
| `replay` | 1 obligation, 4 policies, 2 environments, 2 runs | 3.6 million | `ReplayIsGenuine`, `RequiredFailureNeverAllowed` |
| `cache` | 2 clients, 1 key and a stray one, 2 inodes, TTL 1, 2 puts | 450 thousand | `TypeOK`, `HitIsAuthentic`, `ImplementsContract` |
| `table` | 5 selections, 4 fallback policies, all acceptable sets | 100 thousand | `AllowIsSupported`, `OptionalNeverHelps` |
| `webhook` | 5 deliveries, 1 installation, 1 token client, 2 lives | 1.4 million | `TypeOK`, `AtMostOnce`, `ReceiptKept`, `UninstallForgets` |
| `assurance` | 1 job slot, opened any number of times, 2 revisions, maximal age 1, 3 entries | 320 thousand | `TypeOK`, `ReuseIsSupported`, `ContractChangesReverify`, `EstablishedIsGrounded`, `BuiltChainVerifies`, `LastEntryCommits`, `LossIsRecorded` |
| `flow` | about 10 thousand handlers, every execution of each | 330 thousand | `TypeOK`, `DominanceIsReal`, `CutIsReal`, `PassIsBacked` |
| `contracts` | every ordered pair of some 330 revisions; 2 jobs at a time; jobs that die | 260 thousand | `TypeOK`, `ContractsAreFull`, `FragmentsAreFresh`, `StateIsOfOneHead`, `LoneWritesAreAtomic` |

Four more runs are expected to violate one property each; see "Findings".

The merge decision:

- `AllowIsEarned`: a merge is allowed only if the change has obligations and each was earned. One the
  control plane decided is covered, has a required backend, and each required backend *reported* a pass
  under this run's key; one of a legacy evaluator, or of the flat cache, passed. It relates the verdict to the history, through aggregation, projection, the
  coverage gate and the bundle.
- `FailureBlocks`: a failed claim of any obligation blocks, whatever the threads' order.
- `NotMorePermissive`: the verdict is at least as severe as each item's floor, the promise of
  `decision.py`'s docstring. It does not ask for the *right* severity: see `decision.py:309` below.
- `ReplayIsGenuine`: a conclusive result was reported for its obligation, route, metadata trust and
  environment, in this run or, with an envelope, in an earlier one. Storing, looking up and the property use the one `Key`
  of the model: it is about what is stored and replayed, and not about a component that is missing from the key.
- `RequiredFailureNeverAllowed`: a required backend's delivered failure never ends in allow, even
  when storing it raises.
- `ImplementsMergeGate`: the abstract gate clears obligations and may allow only when all are
  cleared. The mapping reads an obligation as cleared when its item has no failure and no required
  shortfall and itself allows.
- `RunTerminates`: an executing run finishes.
- `AllowIsSupported`, `OptionalNeverHelps`: the decision table of `backend_aggregation.py:168-183`. They are about
  allowing; an optional failure that the stronger-check gate turns into review (below) is not against them.

The cache files: `HitIsAuthentic` says a hit is one payload, whole, that was put under the key asked
for; `ImplementsContract` that the files behave like a map that may forget, whatever the pieces do.

The GitHub App:

- `AtMostOnce`: within one life of the process a delivery is accepted once until the store has forgotten
  it, and a request that carries a timestamp is never accepted twice, as its timestamp is stale
  before its claim is evicted. It lets a request without timestamp in again after a restart, and says nothing of a delivery that
  was claimed and failed.
- `ReceiptKept`: an event answered with 200 has a whole receipt of its kind and second, over restarts and whatever else
  fails, with two exceptions that are the code's: a removal was tried, or writing the receipt of a later event of the same kind
  and second failed, which truncates the file first. A later event that succeeds leaves its own receipt in the place.
- `UninstallForgets`: what was stored before an uninstall that succeeded is gone; only what arrives or
  completes later is there. (A token exchange in flight and a late event do come back; the property
  says they are all that does.) Of tokens it speaks where the processor was given the token provider.

Assurance:

- `ReuseIsSupported`: evidence handed out again rests on an evaluation that passed on the very slice it
  is handed out for, by this policy and runtime, no longer ago than `MaxAge`; repeating never makes it younger.
- `ContractChangesReverify`: no contract an effect relies on in base or head, however indirectly,
  differs when its evidence is reused.
- `EstablishedIsGrounded`: a guarantee that the ledger would call established rests, with every guarantee below it,
  on a pass of the one effect its selector matches.
- `BuiltChainVerifies`, `LastEntryCommits`: what was built verifies, and of all orders of genuine
  entries only one verifies for a given last entry.
- `LossIsRecorded`: between an entry where a guarantee holds and one where it does not, some entry
  reports the loss.

Handlers and contracts:

- `DominanceIsReal`, `CutIsReal`: no execution performs an effect before a guard, or some
  member of a set, that the evidence says it must have passed. The proviso is in the properties: the guard's line has nothing but
  calls that are made whenever it is executed (`Strict`), the effect's no test with operands that are not told apart (`Distinct`). The handlers of
  `flow` include those that need `Strict`, see `handler_control_flow.py:457` and `guard_cfg_dominance.py:76` below; of ownership
  assertions, the only cuts the binder asks for, it is not required.
- `PassIsBacked`: what a pass rests on. An effect that passes by a record of its own is performed only after one guard ran that is
  effective and authorises the resource, or after one that is effective for another resource, where an unproved guard names the right one. The
  second is the finding `borrowed`; the property says there is no third way.
- `ContractsAreFull`, `FragmentsAreFresh`: whatever state a job found, its contracts and fragments are
  those of a full compilation of its own head.
- `StateIsOfOneHead`: what a job loads is entire and of one revision, though two jobs write to one file.
- `LoneWritesAreAtomic`: while jobs run one at a time the record's name never refers to part of a
  file, wherever a job dies.

### Bounds

- `gate`, `replay`: two obligations at a time are enough for the bundle's interactions, whose
  operators compare items pairwise or take extrema; the third is the one without coverage. Two
  backends per obligation is the router's own maximum (`max_selected_backends` defaults to 2). The three
  adapters are the three behaviours of `normalize`. `MaxRuns` = 2: an entry is written in one run
  and read in the next; a longer history only adds entries, and the lookup looks at one. Two environments
  stand for "the fingerprint is the same" and "it is not".
- `cache`: every race of the code is between one reader or writer and one other writer.
  `MaxPuts` = 2 gives two payloads to mix; `MaxClock` = 2 with TTL 1 lets a record be fresh and
  expired. The clients and inodes are interchangeable, so the run is symmetric in them; nothing temporal but
  step properties is checked there.
- `webhook`: the five deliveries are two pushes, whose receipts may share a name, another event, an uninstall and a malformed
  payload; installations share no state but the claims, so one is enough. `TTL` = 2 = 2 · `MaxSkew` is the edge
  the assumption allows; `MaxClock` = 3 passes it. `MaxLog` = 2 accepted deliveries, which is a repetition
  or an event and an uninstall; `MaxLives` = 2 is one restart. Token lifetimes reach one second past what the client allows.
- `assurance`: two effects and two contracts, one of which relies on the other; the revisions are one that passes, and one that
  lost the lower contract and fails the second effect. One job slot is opened again and again, in both directions, so what one job stores is found by
  the next; that several jobs run between each other's steps, and other manifests and revisions, is covered by the theorems. Three entries are the
  shortest fork with a successor, and every order of them is presented. `staleslice` has a third revision, with the facts of the first and
  without its evidence. As no helper is ever proved at this commit, such evidence changes by way of cut sets and control points.
- `flow`: bodies of up to three statements, one of which may be a branch whose body and `else` (an `elif`, a nested
  `if`) hold calls; the tests cover plain, opaque, `and` and `or` operands on one line or two; calls that are operands of an expression
  statement, tests that share their line with a statement and tests that perform the effect are among them, and every
  combination of a dependency and a route dependency with one or several sinks on a static resource. What
  a third level of nesting adds is recursion on the same operators. Loops, `try` and `with` are one kind,
  `block`, of which the graph knows that it is partial. Lines grow with the text, except for what shares one; a test without a call is presumed to be on
  a line of its own, where it makes no line ambiguous. `borrowed` has the one handler of its finding.
- `contracts`: a repository, a service and a facade, each of which may forward to the other or be absent,
  parameters kept, swapped, dropped or lost, and a fourth file that may shadow one of the names. Every
  ordered pair of these revisions is compiled one after the other; jobs that meet or die use three
  revisions that differ in a contract, in its callee and in the depth of the chain. The heads of the passing run are
  those where the first candidate of a name is the one the full composer uses (`FirstIsUsed`); the
  others are the finding `ambiguous`. Symmetric in workers and inodes.
- Deadlock is not checked in any run: a finished system stops when its bounded counters are used up,
  and a job, delivery or handler that has ended has nothing left to do.

### Fairness

`FairSpec` of `ControlPlane` has weak fairness for the task of every obligation, its beginning, each selection's execution
and its end, and for leaving the pool. Each worker has a wall-time budget
(`subprocess.run(timeout=...)`), so a task that can step does so; the pool runs its queued tasks as
threads get free, which `MayBegin` expresses. No fairness is assumed of a specific outcome, of
`StartRun` or of `Evict`. All other specifications are safety only: neither GitHub nor a reviewer
owes the system a request, and a failed delivery is never retried by the code itself.

## Findings

Each is a run that TLC ends with a counterexample; `PROJECT.json` quotes the lines.

| Run | What happens |
|---|---|
| `untrusted` | The override for untrusted metadata changes the recommendation of the item, not its `decision_state`, and the bundle reads the state first (`adapter_runtime.py:232`). The verifier applies the floor to both. |
| `staleslice` | The semantic slice holds none of the dominance, cut-set and control-point evidence the evaluator reads (`incremental_assurance.py:140`): a head in which the guard no longer dominates has the base's slice, and the base's pass is reused where a fresh evaluation says unknown. |
| `ambiguous` | Two files may define candidates of one name. The state keeps the first candidate's fingerprint where the composer may use another; when the used one's file is removed nothing is invalidated, and a wrapper is reused that a full composition would not give (`incremental_contract_composition.py:117`, against "extensionally equivalent" at line 8). |
| `borrowed` | `depends(other resource); helper(); act()`: effectiveness and resource binding are each asked of the set of dominating guards (`protected_effect_integrity.py:618`). The dependency is effective, for another resource; the helper names the right one and proves nothing; the effect passes, against "Performed -> Authorized" at lines 5-6. |

Met while modelling, each without a run of its own:

- `handler_control_flow.py:457`: a guard that is an operand of a Boolean expression *statement*
  is said to dominate what follows, though it need not run (`x = a and guard()`, then the effect). No verdict depends on it while no
  helper is proved.
- `guard_cfg_dominance.py:76`: an opaque branch is dropped before the nodes that cover a line are counted. With
  `if a or (b and guard()): x = 1` on one line, then `else: return` and `effect()`, the guard is bound to `x = 1`, which
  dominates the effect, although `a` alone leads there without the guard; the docstring at lines 53-55 says that binding a call inside a Boolean
  expression "can produce false dominance PASS" and that such branches are refused. Likewise of no effect on a verdict at this commit. Both are
  among the handlers of `flow`; without `Strict` in `DominanceIsReal` TLC finds them.
- `adapter_runtime.py:272`: with a lane in `enforced_lanes` and the mode still `legacy`, which `router.py:91-92` names as the way to enforce
  one lane, the flat cache answers first, with evidence of the legacy evaluator. `test_runtime_cache_regimes.py:13`, "enforced execution does not
  reuse legacy flat cache", tests the mode `enforced` only. The policies of `replay` include the case, and what is replayed is still genuine.
- `fastapi_semantic_fragment.py:1237`: sinks on one static resource share a protected effect whose
  path and evidence the last sink overwrites. Two such effects, one before the guard and one behind it, pass
  together. `PassIsBacked` therefore speaks of the sink that gave the verdict; `flow` has handlers with several.
- `body_helper_contracts.py:365-426`: no implementation of a helper is ever established (its comment gives the reason), so the binder's branches for
  established helpers are not reached.
- `isolation.py:87`, `webhook.py:134`: two events of a kind in one second share a file, and the failing write of the second truncates the
  receipt of the first, which was answered with 200.
- `tokens.py:125`: a fresh token is judged by the time before its exchange; after a slow one it may be handed out expired.
- `cleanup.py:31`: a removal clears tokens only if it is given the provider; `service.py:34-40` wires none.
- `authorization_cut_set.py`: opaque candidates are let through by
  `allow_boolean_short_circuit_branch_guard_ids` and refused by the qualification after it.
- `persistent_fastapi_state.py:425`: two jobs of one repository share the temporary name. One truncates
  what the other writes, the published record may be torn for a while, and the second rename raises and fails
  the job, against "Writes use atomic replacement" (`docs/PERSISTENT_INCREMENTAL_FASTAPI_STATE.md:90`);
  `semantic_summary_cache.py:692` does the same. `RecordIsWhole` is what fails with two workers; torn records are refused by their
  digest, so `StateIsOfOneHead` holds.
- `incremental_contract_composition.py`: following the old *and* the new graph in the dependency closure is
  redundant: an edge that changed makes its wrapper a seed.
- `fastapi_semantic_fragment.py:1003`: a helper-effectiveness dependency holds the digest of the first
  definition of that name only. No verdict depends on it.
- `backend_control_plane.py:369`: `cache.put` raising turns a corroborator's failure into an error,
  which does not weigh. `RequiredFailureNeverAllowed` says it cannot happen to a required backend.
- `evidence_verifier.py:601`: a bundle made under `default_on_unknown: block` is recomputed with the
  default policy and refused, as is one with an item that the untrusted override touched (`adapter_runtime.py:232`). Elsewhere producer and
  verifier evaluate the same expression.
- `decision.py:309`: under that policy an unknown beside an error is not looked at, and the run
  recommends review.
- `backend_aggregation.py:261`: the stronger-check gate precedes the lattice and turns an optional
  failure into review.
- `router.py:243`: with `accept_partial_primary` a candidate with incomplete coverage becomes
  corroborator before its guarantee and budget are looked at. It never helps (`OptionalNeverHelps`).
- `exit_codes.py:21` maps `allow_with_warning` to exit code 0, against
  `docs/FORMAL_SPEC.md:149-151`.
- `backend_control_plane.py:383`: a backend that fails before it is compiled leaves an attempt
  that the verifier refuses as unknown.

## What is proved

| Module | Theorem | States |
|---|---|---|
| `ControlPlaneProofs` | `TypeCorrect` | `Spec => []TypeOK` |
| | `ReplayCorrect` | `Spec => []ReplayIsGenuine` |
| | `NeverMorePermissive` | `Spec => []NotMorePermissive` |
| | `FailureCorrect` | `Spec => []FailureBlocks` |
| | `AllowCorrect` | `Spec => []AllowIsEarned` |
| | `RequiredFailureCorrect` | `Spec => []RequiredFailureNeverAllowed` |
| | `RouteIsWellFormed` | a route of `Router` satisfies what `RouterAssumption` asks, and its primary is executable, covered and fits the budget |
| | `GateImplemented` | `Spec => ImplementsMergeGate`: the refinement, for every instance |
| | `AllowSupported`, `OptionalNeverHelped` | `[]AllowIsSupported`, `[]OptionalNeverHelps` of `AggregationTable`, under `TableSpec`: for every selection, fallback policy and order of results |
| `EvidenceProofs` | `BundleDominatesItems`, `BundleAllows`, `BundleFails` | the bundle's decision against its items, for every bundle and policy |
| `ResultCacheProofs` | `CacheTypeCorrect`, `HitCorrect` | `Spec => []TypeOK`, `Spec => []HitIsAuthentic` |
| | `ContractImplemented` | `Spec => ImplementsContract`: the refinement |
| `GitHubAppProofs` | `AppTypeCorrect` | `Spec => []TypeOK` |
| | `OnceCorrect` | `Spec => []AtMostOnce` |
| | `ReceiptCorrect`, `UninstallCorrect` | `Spec => []ReceiptKept`, `[]UninstallForgets` |
| `IncrementalProofs` | `IncrementalTypeCorrect`, `ReuseCorrect` | `TypeOK` and `ReuseIsSupported`, for every number of jobs, effects and revisions |
| | `ReverificationCorrect` | `Spec => []ContractChangesReverify`, for contract graphs of any size and shape |
| | `SnapshotCorrect` | `Spec => []EstablishedIsGrounded`, for manifests of any depth |
| | `LedgerVerifies`, `LedgerCommits`, `LossCorrect` | `[]BuiltChainVerifies`, `[]LastEntryCommits`, `[]LossIsRecorded`, for ledgers of any length and every order of entries |
| `GraphProofs` | `DominatesIsExact` | `compute_dominators` gives exactly the nodes that every walk from the entry visits |
| | `CutIsExact`, `CoverageIsExact` | the searches find no way around a cut, and no partial node, just if there is none on any walk |
| | `DominanceEvidenceIsReal`, `CutEvidenceIsReal` | positive evidence: every walk to the effect meets the guard, or some member of the cut |
| | `PassIsGuarded` | a pass: complete coverage, a bound resource, and an effective guard with no place in the body or effective guards on every walk |
| `HandlerProofs` | `TypeCorrect` | `Spec => []TypeOK`: what is built of any handler is a graph, and every sink has a verdict |
| | `DominanceReal`, `CutReal` | `Spec => []DominanceIsReal`, `[]CutIsReal`, for every set of handlers the grammar admits |
| | `PassBacked` | `Spec => []PassIsBacked`, likewise |
| `SemanticProofs` | `FixedPointIsClosed` | the rounds of the fixed point reach it, and what they adopt is derivable |
| | `IncrementalIsFull` | the incremental composition of any head, from the state of any other, is the full one, if in that other the first candidate of a name is the used one |
| | `SemanticTypeCorrect` | `Spec => []TypeOK` |
| | `ContractsCorrect`, `FragmentsCorrect` | `[]ContractsAreFull`, `[]FragmentsAreFresh`, under the same condition on the heads |
| | `LoadedStateCorrect`, `LoneWritesCorrect` | `[]StateIsOfOneHead`, `[]LoneWritesAreAtomic`, under the same condition |

They rest on named assumptions about the constants (`ControlPlaneAssumption`, `RouterAssumption`,
`BackendAssumption`, `CacheAssumption`, `AppAssumption`, `WindowAssumption`, `IncrementalAssumption`,
`ContractAssumption`, `LedgerAssumption`, `SemanticAssumption`, `SourceAssumption`,
`HandlersAssumption`), all evaluated by TLC in the runs.
Five say more than the shape of a constant.
`RouterAssumption` is what `RouteIsWellFormed` proves of the routes the code makes, whatever the
adapters assess and however the router is configured. `WindowAssumption` relates the two settings of
`replay.py`, which the code does not check against each other: claims are never evicted, or kept for at
least twice the skew (the defaults are 24 hours and five minutes).
`ContractAssumption` says that contracts of equal version rely on the same contracts: a `contract_id`
digests the `contract_id` of the callee the contract was composed from. `SemanticAssumption` says that
the JSON of a state is neither a hole nor an absent file. `HandlersAssumption` says that the parts of a handler
belong together: every call in its body is a helper, an assertion or a sink, and an ownership assertion is a test of the
handler's own block below smaller lines, which is where `_matching_ownership_assertions` looks for one. Beyond that they ask for finite sets of
effects, contracts, guarantees and definitions, which is what a repository has.

The first half of `GraphProofs` holds the lemmas that recursive definitions need: induction over the
natural numbers with the property given as the *set* of numbers that have it, which the provers can
instantiate, iterations that only grow (`GrowingCloses`: as many rounds as there are
elements reach a closed set), and loops until nothing changes (`LoopReturns`). `IncrementalProofs` and
`SemanticProofs` use them as well.

**The merge decision.** The inductive invariant is

    IInv == TypeOK /\ ThreadsOK /\ Produced /\ VerdictOK /\ CacheIsGenuine
              /\ ResultsAreGenuine /\ ResultsAreProjected /\ ReportsAreHeld

None of the proved properties is inductive alone. `ThreadsOK` ties `pc` to the phase, so that no thread works for another run or
after the verdict.
`Produced` says where each finished item came from: a legacy evaluator, or `EvidenceOf` applied to
the results as they are; `ResultsAreProjected` and `ReportsAreHeld` say the same of the results and reports of the run.
`VerdictOK` says the verdict is the decision of the bundle as it is now.
`CacheIsGenuine` says each stored entry was reported with an envelope; without it a replayed result
could be anything. `ResultsAreGenuine` carries that to the results. `AllowIsEarned` follows by
walking backwards: an allowed bundle has items that allow (`BundleAllows`), such an item was
projected from an allowing aggregate over covered evidence (`EvidenceProofs`), that aggregate had
required passes only, and those were reported. `GateImplemented` maps each step to a step of
`MergeGate` or a stutter, using `IInv` for the steps of `Finish` and `Conclude`.

**The cache files.** `IInv` says of every inode that its pieces are holes or of writes that were begun (`FilesInv`,
`DiskInv`), and of every client that what it buffered is what it may have read or has yet to
write (`ReaderInv`, `WriterInv`). `HitIsAuthentic` is not inductive, as a hit depends on what was read some steps before.

**Deliveries.** `OnceInv` adds to `AtMostOnce` that every accepted delivery of this life is remembered or
past its lifetime, that no accepted delivery is of a later life, and that an accepted timestamp was
within the window; the window's arithmetic then leaves no time for a second acceptance. `ServiceInv` joins
`ReceiptKept` and `UninstallForgets` to the types, strengthened with what a waiting caller knows of the time
(`CallersWait`).

**Reuse.** The cache holds nothing but passes of evaluations that took place (`Storable`), and reused
evidence keeps the time of its prior; so age and slice are those of the evaluation, through any
number of hands. `ReviewOK` adds to each job that its plan is the one of its base and head and that its
evidence is sound for the revision it was made for. What `ReverificationCorrect` needs beyond it
is about graphs: the closure the plan computes contains every contract below an unchanged effect
(`DependencyClosureIsClosed`, `ReliesOnIsLeast`), and since contracts of equal version have equal
dependencies, the graphs of base and head agree there. `SnapshotCorrect` is an induction
over the depth of the manifest (`ResolvedIsDeep`, `LocalIsGrounded`).

**The ledger.** `LedgerInv` says that each entry links to an earlier one, or to the genesis, and reports what it
gained and lost against it. `HistoryVerifies` and `VerifiedIsHistory` give the two directions: the history of an
entry verifies, and a sequence that verifies is the history of its last entry, by induction over
the position from the end. `LossCorrect` then finds the first entry of a chain where the guarantee is gone.

**Graphs.** For every graph, closures are least sets closed under edges (`ClosureIsLeast`), hence what walks
reach (`ReachedByWalk`); the dominators are the greatest relation a round leaves alone
(`DominatorsAreGreatest`). Following a walk edge by edge shows that a dominator is met; that a node
met by every walk is kept in every round shows the converse. `PassIsGuarded` puts
this under the integrity evaluation, whatever the guards.

**Handlers.** What is missing from there to the properties of `Handler` is that executions follow walks, and that is about how
`ControlFlow` builds the graph. `HandlerProofs` shows first that the recursive functions over statements satisfy
their equations (`BlocksEquation` and the like), for nesting of any depth, and that what is built is a graph
(`BuildControlFlow` only adds nodes and edges). `LinksFollow` then relates the two, by induction over the nesting. Take a
region of the graph that has no node of `x` and is left only into whole nodes of the guards (`Around`). If the
block that is linked next begins in the region, it is safe to execute, provided that what follows it is safe in case the
block ends in the region as well. The inductive invariant of the interpreter is

    HandlerInv == TypeInv /\ ServingInv /\ BodyInv

where `Safe(C, x)` holds the sequences of statements of which no execution comes to the call at `x` without a call of
`C` before, defined as the greatest set that the interpreter's steps leave alone, and `BodyInv` says of every
`C` and `x` for which the body is safe that some member of `C` has run, or what is left to do is safe still.
`DominanceIsReal` alone is not inductive: it speaks of effects that were performed, and what keeps the next one in order
is in `todo`. Positive evidence makes the body safe (`EvidenceSafe` for a dominating call, `CutSafe` for
a cut over statements and branch outcomes, `OwnerSafe` for an ownership assertion above the sink), each by
way of a region of the graph that an execution cannot leave (`RegionSafe`).

The theorems about executions have no hypotheses beyond the grammar of handlers. Where the code's evidence is wrong, the properties say so
themselves (`Strict`, `Distinct`, the second case of `PassIsBacked`), about a guard or an effect and not about the handler it is
in. `Strict` is needed: TLC finds the two handlers named under "Met while modelling" without it. `Distinct` is needed by the proof only, because the
grammar lets lines be anything: a node that stands for the calls of an opaque test does not say which comes first. `PassAbove` walks a verdict
back to the guards it stands on: an ownership assertion above the effect, a dependency, or the pair of `borrowed`.

**The semantic state.** The constant part comes first. What the fixed point adopts is a derivation, a
sequence of single adoptions; where names are unique its result does not depend on the order
(`FixedPointIsUnique`). Names outside of the dependency closure keep their contract, by induction over
the derivation that gave it (`UnchangedIsKept`); so composing the others on top of them ends where the
composition from nothing does (`IncrementalIsFull`). `SInv` carries this through the files: every part that any
inode holds is of a state of one of the heads (`FilesOK`), a job that has compiled holds the
state of its head compiled from nothing (`JobsOK`), and with one worker the writer owns the
temporary name (`LoneOK`). None of the four properties is inductive alone: a job reads a state that another
job wrote, which compiled it from one that it read. The hypothesis `UsesFirst` excludes the
finding `ambiguous`, and the theorems say that there is no other way to break them. The heads of `contracts` satisfy it,
those of `ambiguous` do not.

**The decision table.** `AllowSupported` and `OptionalNeverHelped` rest on lemmas of `EvidenceProofs` about
one aggregate (`StateAllows`, `RequiredPart`, `OptionalFindings`), which `AllowCorrect` uses as well.

Only model-checked: `RunTerminates`, since liveness under fairness is out of the prover's reach, and the properties of the
four runs of "Findings", which the code violates. Every other property of a run is a theorem.

## Not modelled

- The front ends of the compilers: name, import and callee resolution
  (`python_callee_resolution.py` with 35 thousand lines, `bypass_authority.py` with 10 thousand, the route
  and return summaries, the Express compiler). They are pattern matching over syntax trees: functions from
  source text to facts, without state, order or failure. Their results are the inputs of
  `ControlFlow`, `Handler` and `ContractComposition`. As these files are 40 percent of the code, the share of all lines
  that the modules cover is small, while the decision path is covered nearly whole.
- The verdicts of the tools and of the static analyses, which are inputs; external adapters, which
  are one more adapter report; process control, abstracted to the ends a worker can have.
- Planning and change detection, whose result is the set of obligations of a run; attestation,
  provenance, signing and release tooling, which compare digests; rendering, CLI and MCP server;
  templates, benchmarks and conformance tooling.
- Reasons, wording, digests and artifacts of evidence; attempts, hence the verifier's structural
  checks; signatures of deliveries and ledger entries, assumed genuine; `route_intent`, the path for
  manifests.
- The environment is fixed for a run: a tool replaced between fingerprint and execution
  (`backend_control_plane.py:330`) is a hazard without a property. So is `cached_at`, which the payload digest
  does not cover (`result_cache.py:265`).
- The offline verifier: a pure recomputation with the operators of `decision.py`, and structural checks over attempts.
- In integrity evaluation: condition atoms of guards, bypass evidence, several paths to one effect.
- The shadow execution beside a legacy lane caches under an obligation of its own and only adds a
  comparison, so it has no action. OPA results are never cached (its adapter sets no
  `envelope_produced`), so no replay of them occurs.

## Plan

Done: everything above, in the order decision path, cache, GitHub App, router, assurance and ledger, handlers, contracts.
What is worth adding next:

1. `EvidenceVerifier`: attempts and their bindings, compiled or not, and the verifier's structural checks over them.
2. Two runs at once over one cache, composed with `ResultCache`, and an environment that changes during a run.
3. `route_intent` and the semantic summary cache, which shares the temporary-name pattern of `SemanticState`.
