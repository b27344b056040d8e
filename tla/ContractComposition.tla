------------------------ MODULE ContractComposition ------------------------
(***************************************************************************)
(* The contracts of a head revision and what the route files make of them,  *)
(* composed in full or from the state an earlier compilation left.          *)
(* Translated from resource_return_contracts.py,                            *)
(* incremental_contract_composition.py, incremental_fastapi_compiler.py and *)
(* fastapi_semantic_fragment.py.                                            *)
(*                                                                         *)
(* A head is a sequence of file summaries in the order of their paths:      *)
(*   direct     contracts proved from a method's own body,                  *)
(*   forwarding candidates: methods that return what another method returns,*)
(*   consumes   methods whose contracts the effects of the file's handlers  *)
(*              ask for ({} : no handlers).                                 *)
(* A contract says which parameter, or a literal, an attribute of the       *)
(* returned object equals; its conditions on null are left out.  contract_id*)
(* is a digest of exactly the fields of the record here, so a contract is   *)
(* compared as its id is; a fingerprint is likewise the candidate itself.   *)
(***************************************************************************)
EXTENDS Naturals, Sequences, FiniteSets

CONSTANTS
    Rank,     \* [Method -> Nat]: the order of the stable names, Class.method
    Literal,  \* a term that is a constant
    Unknown,  \* an argument that is neither a parameter nor a constant
    NoState   \* no earlier state

\* A contract of a later path replaces one of the same name.
Direct(head) ==
    LET names(f) == {c.name : c \in head[f].direct}
        last(n) == CHOOSE f \in DOMAIN head :
                        n \in names(f) /\ \A g \in DOMAIN head : n \in names(g) => g <= f
    IN  [n \in UNION {names(f) : f \in DOMAIN head} |->
            CHOOSE c \in head[last(n)].direct : c.name = n]

\* The sort key: qualified name, callee, path.
Precedes(c, d) ==
    \/ Rank[c.name] < Rank[d.name]
    \/ c.name = d.name /\ Rank[c.callee] < Rank[d.callee]
    \/ c.name = d.name /\ c.callee = d.callee /\ c.path < d.path

\* All of them, sorted; two of one file differ in the name or the callee.
Candidates(head) ==
    LET all == UNION {head[f].forwarding : f \in DOMAIN head}
    IN  [i \in 1..Cardinality(all) |->
            CHOOSE c \in all : Cardinality({d \in all : Precedes(d, c)}) = i - 1]

Names(candidates) == {candidates[i].name : i \in DOMAIN candidates}
-----------------------------------------------------------------------------
(* Composition *)

\* _substitute_summary_term, by position.
Substituted(candidate, callee) ==
    IF callee.term = Literal THEN Literal
    ELSE LET at == {i \in DOMAIN candidate.arguments \cap DOMAIN callee.parameters :
                        callee.parameters[i] = callee.term}
         IN  IF at = {} THEN Unknown ELSE candidate.arguments[CHOOSE i \in at : TRUE]

Composes(candidate, known) ==
    /\ candidate.callee \in DOMAIN known
    /\ Substituted(candidate, known[candidate.callee]) # Unknown

\* _compose_summary_candidate; from holds the contract it depends on.
Composed(candidate, callee) ==
    [name |-> candidate.name, parameters |-> candidate.parameters,
     term |-> Substituted(candidate, callee), path |-> candidate.path, from |-> <<callee>>]

Adopt(known, candidate) ==
    IF candidate.name \notin DOMAIN known /\ Composes(candidate, known)
    THEN [n \in DOMAIN known \cup {candidate.name} |->
            IF n = candidate.name THEN Composed(candidate, known[candidate.callee]) ELSE known[n]]
    ELSE known

\* Every candidate in turn.
Round(known, candidates) ==
    LET upTo[i \in 0..Len(candidates)] ==
            IF i = 0 THEN known ELSE Adopt(upTo[i - 1], candidates[i])
    IN  upTo[Len(candidates)]

\* As many rounds as there are candidates; one that adds nothing ends the loop in the code.
FixedPoint(known, candidates) ==
    LET after[i \in 0..Len(candidates)] ==
            IF i = 0 THEN known ELSE Round(after[i - 1], candidates)
    IN  after[Len(candidates)]

\* compose_function_contracts
FullContracts(head) == FixedPoint(Direct(head), Candidates(head))
-----------------------------------------------------------------------------
(* Incremental composition *)

\* _collect keeps the first candidate of a name.
FirstCandidates(head) ==
    LET candidates == Candidates(head)
        first(n) == CHOOSE i \in DOMAIN candidates :
                        /\ candidates[i].name = n
                        /\ \A j \in DOMAIN candidates : candidates[j].name = n => i <= j
    IN  [n \in Names(candidates) |-> candidates[first(n)]]

Ambiguous(head) == Len(Candidates(head)) # Cardinality(Names(Candidates(head)))

\* IncrementalContractCompositionState
Composition(head, contracts) ==
    [direct |-> Direct(head), candidates |-> FirstCandidates(head), contracts |-> contracts]

Changed(f, g) ==
    {n \in DOMAIN f \cup DOMAIN g : n \in DOMAIN f /\ n \in DOMAIN g => f[n] # g[n]}

\* Who forwards to one of the names, before or now.
Dependents(names, previous, current) ==
    {n \in DOMAIN previous : previous[n].callee \in names}
        \cup {n \in DOMAIN current : current[n].callee \in names}

\* Mutant: who depends on a seed, and nobody further up.
DependencyClosure_OneStep(seeds, previous, current) == seeds \cup Dependents(seeds, previous, current)
\* _dependency_closure: a chain of dependents is no longer than there are names.
DependencyClosure(seeds, previous, current) ==
    LET length == Cardinality(DOMAIN previous \cup DOMAIN current)
        reached[i \in 0..length] ==
            IF i = 0 THEN seeds
            ELSE reached[i - 1] \cup Dependents(reached[i - 1], previous, current)
    IN  reached[length]

Reused(head, previous) ==
    LET first == FirstCandidates(head)
        seeds == Changed(Direct(head), previous.direct) \cup Changed(first, previous.candidates)
    IN  {n \in DOMAIN previous.contracts \cap DOMAIN first :
            /\ previous.contracts[n].from # <<>>
            /\ n \notin DOMAIN Direct(head)
            /\ n \notin DependencyClosure(seeds, previous.candidates, first)
            /\ previous.candidates[n] = first[n]
            /\ previous.contracts[n].from[1].name = first[n].callee}

\* compose_function_contracts_incremental
Contracts(head, previous) ==
    IF previous = NoState \/ Ambiguous(head) THEN FullContracts(head)
    ELSE LET direct == Direct(head)
             reused == Reused(head, previous.composition)
         IN  FixedPoint([n \in reused \cup DOMAIN direct |->
                            IF n \in reused THEN previous.composition.contracts[n] ELSE direct[n]],
                        Candidates(head))
-----------------------------------------------------------------------------
(* Fragments *)

Version(contracts, n) == IF n \in DOMAIN contracts THEN <<contracts[n]>> ELSE <<>>

\* bind_route_file_summary: what the handlers' effects may rely on, and the versions of the
\* contracts it was taken from.
Fragment(summary, contracts) ==
    [source |-> summary,
     dependencies |-> [n \in summary.consumes |-> Version(contracts, n)],
     established |-> [n \in summary.consumes \cap DOMAIN contracts |-> contracts[n].term]]

\* Mutant: a dependency that is gone does not count.
DependenciesMatch_Present(fragment, contracts) ==
    \A n \in DOMAIN fragment.dependencies \cap DOMAIN contracts :
        fragment.dependencies[n] = Version(contracts, n)
\* fragment_dependencies_match
DependenciesMatch(fragment, contracts) ==
    \A n \in DOMAIN fragment.dependencies : fragment.dependencies[n] = Version(contracts, n)

RouteFiles(head) == {f \in DOMAIN head : head[f].consumes # {}}

Fragments(head, contracts, previous) ==
    [f \in RouteFiles(head) |->
        IF /\ previous # NoState
           /\ f \in DOMAIN previous.fragments
           /\ previous.fragments[f].source = head[f]
           /\ DependenciesMatch(previous.fragments[f], contracts)
        THEN previous.fragments[f]
        ELSE Fragment(head[f], contracts)]

\* compile_incremental_fastapi_assurance: the state it leaves.
Compile(head, previous) ==
    LET contracts == Contracts(head, previous)
    IN  [composition |-> Composition(head, contracts),
         fragments |-> Fragments(head, contracts, previous)]

\* What a compilation without an earlier state leaves.
FreshState(head) == Compile(head, NoState)
-----------------------------------------------------------------------------
\* A sequence of summaries, each with finitely many candidates.
IsHead(head) ==
    /\ Len(head) \in Nat /\ DOMAIN head = 1..Len(head)
    /\ \A f \in DOMAIN head : IsFiniteSet(head[f].forwarding)

\* The candidate a composed contract is of is the first of its name, the one the state keeps:
\* so it is where no two candidates have one name.
FirstIsUsed(head) ==
    LET contracts == FullContracts(head)
        first == FirstCandidates(head)
    IN  \A n \in DOMAIN contracts : contracts[n].from # <<>> =>
            contracts[n] = Composed(first[n], contracts[n].from[1])
                /\ contracts[n].from[1].name = first[n].callee
=============================================================================
