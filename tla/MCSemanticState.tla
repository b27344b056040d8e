-------------------------- MODULE MCSemanticState --------------------------
(***************************************************************************)
(* A repository, a service that forwards to it, a facade that forwards to   *)
(* either, a fourth file that may shadow one of them, and the routes.       *)
(***************************************************************************)
EXTENDS SemanticState, TLC

MCRank == ("Absent.get" :> 1) @@ ("Facade.get" :> 2) @@ ("Repo.get" :> 3) @@ ("Service.get" :> 4)

Proved(name, term, path) ==
    [name |-> name, parameters |-> <<"p", "q">>, term |-> term, path |-> path, from |-> <<>>]

Forwards(name, callee, arguments, path) ==
    [name |-> name, callee |-> callee, parameters |-> <<"p", "q">>, arguments |-> arguments,
     path |-> path]

Nothing == [direct |-> {}, forwarding |-> {}, consumes |-> {}]
Proves(name, term, path) == [Nothing EXCEPT !.direct = {Proved(name, term, path)}]
Wraps(name, callee, arguments, path) ==
    [Nothing EXCEPT !.forwarding = {Forwards(name, callee, arguments, path)}]

Same == <<"p", "q">>
Swapped == <<"q", "p">>

Repositories == {Nothing, Proves("Repo.get", "p", 1), Proves("Repo.get", "q", 1)}
Services ==
    {Nothing, Proves("Service.get", "p", 2), Wraps("Service.get", "Facade.get", Same, 2)}
        \cup {Wraps("Service.get", "Repo.get", arguments, 2) :
                arguments \in {Same, Swapped, <<"p">>, <<Literal, Unknown>>}}
Facades ==
    {Nothing, Wraps("Facade.get", "Repo.get", Same, 3), Wraps("Facade.get", "Service.get", Same, 3),
     Wraps("Facade.get", "Service.get", Swapped, 3)}
Others ==
    {Nothing, Proves("Repo.get", "q", 4), Wraps("Facade.get", "Absent.get", Same, 4),
     Wraps("Facade.get", "Repo.get", Swapped, 4)}

Routes == [Nothing EXCEPT !.consumes = {"Facade.get", "Service.get"}]

MCHeads == {<<r, s, f, o, Routes>> : r \in Repositories, s \in Services, f \in Facades, o \in Others}

Chain(term) ==
    <<Proves("Repo.get", term, 1), Wraps("Service.get", "Repo.get", Same, 2),
      Wraps("Facade.get", "Service.get", Swapped, 3), Nothing, Routes>>
Rewired ==
    <<Proves("Repo.get", "p", 1), Wraps("Service.get", "Facade.get", Same, 2),
      Wraps("Facade.get", "Repo.get", Same, 3), Nothing, Routes>>
Few == {Chain("p"), Chain("q"), Rewired}

\* Every pair of revisions, one job after another; jobs that meet; jobs that die.
Sweep == [heads |-> {h \in MCHeads : FirstIsUsed(h)}, workers |-> 1, crashes |-> FALSE]
Meeting == [heads |-> Few, workers |-> 2, crashes |-> FALSE]
Dying == [heads |-> Few, workers |-> 1, crashes |-> TRUE]

MCSettings == [sweep |-> Sweep, meeting |-> Meeting, dying |-> Dying]

\* Every revision, whichever candidate its contracts are of.
AmbiguousSettings == [sweep |-> [Sweep EXCEPT !.heads = MCHeads]]

Symmetry == Permutations(Worker) \cup Permutations(Inode)
=============================================================================
