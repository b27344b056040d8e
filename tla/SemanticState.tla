--------------------------- MODULE SemanticState ---------------------------
(***************************************************************************)
(* The semantic state that compilations of one repository and profile leave *)
(* to each other in a file: load, compile from it, store.  Translated from  *)
(* persistent_fastapi_state.py.  Jobs share the record's name and the name  *)
(* of the temporary file; a file is an inode, which a job that opened it    *)
(* keeps writing or reading whatever its name is by then.                   *)
(*                                                                         *)
(* The record's names are sorted: the composition state comes in its first  *)
(* part, the fragments and the payload digest in the rest.                  *)
(***************************************************************************)
EXTENDS ContractComposition

CONSTANTS
    Settings,  \* by name, [heads, workers, crashes]: the revisions that are compiled, how
               \* many jobs may run at one time, whether one may die
    Worker, Inode, NoInode, Blank

\* What a file may hold is told from nothing, and an earlier state from none.
ASSUME SemanticAssumption ==
    /\ IsFiniteSet(Worker)
    /\ NoInode \notin Inode
    /\ \A s \in DOMAIN Settings : \A head \in Settings[s].heads :
        /\ IsHead(head)
        /\ FreshState(head) \notin {NoState, Blank}
        /\ FreshState(head).composition # Blank

VARIABLES setting, inode, directory, job

vars == <<setting, inode, directory, job>>

Idle == [stage |-> "idle"]

Empty == [part |-> Blank, rest |-> Blank]

Active == {w \in Worker : job[w] # Idle}

InUse == {directory.record, directory.temp} \cup {job[w].handle : w \in Active}

Init ==
    /\ setting \in DOMAIN Settings
    /\ inode = [i \in Inode |-> Empty]
    /\ directory = [record |-> NoInode, temp |-> NoInode]
    /\ job = [w \in Worker |-> Idle]

\* An inode without a name that nobody has open is gone.
Reclaim == inode' = [i \in Inode |-> IF i \in InUse' THEN inode[i] ELSE Empty]
-----------------------------------------------------------------------------
(* get *)

\* The record is opened and its first part read.
Open(w) ==
    /\ job[w] = Idle /\ Cardinality(Active) < Settings[setting].workers
    /\ \E head \in Settings[setting].heads :
        job' = [job EXCEPT ![w] =
                  [stage |-> "open", head |-> head, handle |-> directory.record,
                   part |-> IF directory.record = NoInode THEN Blank
                            ELSE inode[directory.record].part]]
    /\ UNCHANGED <<setting, inode, directory>>

\* Mutant: the payload digest is not compared.
Readable_AnyDigest(part, rest) == part # Blank /\ rest # Blank
\* What parses and has the digest of its payload.
Readable(part, rest) == part # Blank /\ rest # Blank /\ part = rest.composition

Loaded(part, rest) ==
    IF Readable(part, rest) THEN [composition |-> part, fragments |-> rest.fragments] ELSE NoState

\* The rest is read, and the head compiled from what was loaded.
CompileHead(w) ==
    /\ job[w] # Idle /\ job[w].stage = "open"
    /\ LET rest == IF job[w].handle = NoInode THEN Blank ELSE inode[job[w].handle].rest
           loaded == Loaded(job[w].part, rest)
       IN  job' = [job EXCEPT ![w] =
                     [stage |-> "compiled", head |-> job[w].head, handle |-> NoInode,
                      loaded |-> loaded, state |-> Compile(job[w].head, loaded)]]
    /\ UNCHANGED <<setting, directory>>
    /\ Reclaim
-----------------------------------------------------------------------------
(* put *)

Unused == Inode \ InUse

\* Mutant: the record is written in place.
Target_Record == directory.record
\* What has the name a record is written under before it is renamed: one name for every job.
Target == directory.temp

\* write_text opens the file, which truncates one that is there.
OpenTemp(w) ==
    /\ job[w] # Idle /\ job[w].stage = "compiled"
    /\ IF Target # NoInode
       THEN /\ inode' = [inode EXCEPT ![Target] = Empty]
            /\ job' = [job EXCEPT ![w].stage = "opened", ![w].handle = Target]
            /\ UNCHANGED directory
       ELSE \E i \in Unused :
            /\ inode' = [inode EXCEPT ![i] = Empty]
            /\ job' = [job EXCEPT ![w].stage = "opened", ![w].handle = i]
            /\ directory' = [directory EXCEPT !.temp = i]
    /\ UNCHANGED setting

WritePart(w) ==
    /\ job[w] # Idle /\ job[w].stage = "opened"
    /\ inode' = [inode EXCEPT ![job[w].handle].part = job[w].state.composition]
    /\ job' = [job EXCEPT ![w].stage = "started"]
    /\ UNCHANGED <<setting, directory>>

WriteRest(w) ==
    /\ job[w] # Idle /\ job[w].stage = "started"
    /\ inode' = [inode EXCEPT ![job[w].handle].rest = job[w].state]
    /\ job' = [job EXCEPT ![w].stage = "written"]
    /\ UNCHANGED <<setting, directory>>

\* Mutant: the temporary name is not taken away.
Replace_Link(w) ==
    /\ job[w] # Idle /\ job[w].stage = "written"
    /\ directory' = [directory EXCEPT !.record = directory.temp]
    /\ job' = [job EXCEPT ![w] = Idle]
    /\ UNCHANGED setting
    /\ Reclaim
\* replace renames whatever has the temporary name; with none it raises and the job fails.
Replace(w) ==
    /\ job[w] # Idle /\ job[w].stage = "written"
    /\ directory' = IF directory.temp = NoInode THEN directory
                    ELSE [record |-> directory.temp, temp |-> NoInode]
    /\ job' = [job EXCEPT ![w] = Idle]
    /\ UNCHANGED setting
    /\ Reclaim

Crash(w) ==
    /\ Settings[setting].crashes /\ job[w] # Idle
    /\ job' = [job EXCEPT ![w] = Idle]
    /\ UNCHANGED <<setting, directory>>
    /\ Reclaim
-----------------------------------------------------------------------------
Next ==
    \E w \in Worker :
        \/ Open(w) \/ CompileHead(w)
        \/ OpenTemp(w) \/ WritePart(w) \/ WriteRest(w) \/ Replace(w)
        \/ Crash(w)

Spec == Init /\ [][Next]_vars
-----------------------------------------------------------------------------
Whole(i) == Readable(inode[i].part, inode[i].rest)

\* The states compilations from nothing leave.
FreshStates == [s \in DOMAIN Settings |-> {FreshState(head) : head \in Settings[s].heads}]

Compiled == {w \in Active : job[w].stage # "open"}

\* Files and jobs fit together: names refer to different files, and a job writes to a file.
TypeOK ==
    /\ setting \in DOMAIN Settings
    /\ directory.record \in Inode \cup {NoInode}
    /\ directory.temp \in Inode \cup {NoInode}
    /\ directory.record = directory.temp => directory.record = NoInode
    /\ \A w \in Active :
        /\ job[w].stage \in {"open", "compiled", "opened", "started", "written"}
        /\ job[w].head \in Settings[setting].heads
        /\ job[w].stage \in {"opened", "started", "written"} => job[w].handle \in Inode

\* The optimisation changes nothing: whatever state a job found, of an older revision, of
\* another branch or by another job, its contracts are those of a full composition of its
\* own head.
ContractsAreFull ==
    \A w \in Compiled : job[w].state.composition.contracts = FullContracts(job[w].head)

\* Every fragment, reused or bound again, says what the contracts of the job's own head
\* establish for its handlers.
FragmentsAreFresh ==
    \A w \in Compiled :
        \A f \in RouteFiles(job[w].head) :
            job[w].state.fragments[f] = Fragment(job[w].head[f], FullContracts(job[w].head))

\* What a job loads is entire and of one revision, though two jobs may write to one file
\* at a time and a file may be renamed while it is written: the state a compilation of
\* that revision from nothing would have left.
StateIsOfOneHead ==
    \A w \in Compiled : job[w].loaded \in FreshStates[setting] \cup {NoState}

\* "Writes use atomic replacement" (docs/PERSISTENT_INCREMENTAL_FASTAPI_STATE.md): the
\* record's name never refers to a file in part.
RecordIsWhole == directory.record # NoInode => Whole(directory.record)

\* It is so while one job runs at a time, wherever a job dies and whatever it leaves.
LoneWritesAreAtomic == Settings[setting].workers = 1 => RecordIsWhole
=============================================================================
