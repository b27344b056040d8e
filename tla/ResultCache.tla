----------------------------- MODULE ResultCache -----------------------------
(***************************************************************************)
(* The files of the control plane's result cache, as the threads and        *)
(* processes sharing a cache directory see them.  Translated from           *)
(* HardenedResultCache and ControlPlaneResultCache (ovk/core/result_cache), *)
(* with the lookup-execute-store sequence of backend_control_plane.         *)
(*                                                                         *)
(* put() truncates the record's file and writes it; no lock, no temporary   *)
(* name.  A record reaches the file in three pieces, in the order its JSON  *)
(* is laid out: the head (cached_at and the key), the first part of the     *)
(* payload, and the rest of the payload with payload_digest.  A reader sees *)
(* the pieces one after another too, so it may see a prefix, or pieces of   *)
(* several writers.  A path names an inode; unlink frees the name, and      *)
(* writers and readers that opened the inode keep it.                       *)
(***************************************************************************)
EXTENDS Integers, FiniteSets

CONSTANTS
    Client,     \* threads and processes sharing the directory
    Key,        \* key digests asked for, which are also the file names
    StrayKey,   \* the key of a record that was copied under another's name
    Inode,      \* files that can exist at once
    NoFile,     \* a name without a file, a client without an open file
    TTL,        \* ttl_seconds; 0 switches expiry off
    MaxClock,   \* bound on time
    MaxPuts     \* bound on records written

ASSUME CacheAssumption ==
    /\ NoFile \notin Inode /\ StrayKey \notin Key
    /\ TTL \in Nat /\ MaxClock \in Nat /\ MaxPuts \in Nat

\* A payload is named by its write; OldSchema is one of an earlier schema version,
\* Foreign one that was put for StrayKey.
OldSchema == 0
Value == 1..MaxPuts
Foreign == MaxPuts + 1

Piece == 1..3
Hole == [kind |-> "hole"]
\* Mutant: the record is not stamped.
Head_Unstamped(k, at, v) == [kind |-> "head", key |-> k, value |-> v]
Head(k, at, v) == [kind |-> "head", key |-> k, at |-> at, value |-> v]
Part(v) == [kind |-> "part", value |-> v]

\* The three pieces of a record.
Record(k, at, v) == [i \in Piece |-> IF i = 1 THEN Head(k, at, v) ELSE Part(v)]
Empty == [i \in Piece |-> Hole]

VARIABLES
    path,     \* [Key -> Inode or NoFile]
    disk,     \* [Inode -> [Piece -> piece]]
    pc,       \* [Client -> "idle", "reading", "removing", "missed", "writing"]
    key,      \* [Client -> key of the request]
    fd,       \* [Client -> inode it has open, or NoFile]
    next,     \* [Client -> next piece to read or write]
    buf,      \* [Client -> the pieces read, or the record to write]
    answer,   \* [Client -> last answer of get_cached_execution]
    clock, puts

vars == <<path, disk, pc, key, fd, next, buf, answer, clock, puts>>

\* puts is the history of records handed to put(): [key, value, at].

NoAnswer == [kind |-> "none"]
Miss(k) == [kind |-> "miss", key |-> k]
Hit(k, v) == [kind |-> "hit", key |-> k, value |-> v]

\* The payload with which put() was called, as its two parts in the file.
Whole(v) == <<v, v>>

Unused == {i \in Inode : (\A k \in Key : path[k] # i) /\ (\A c \in Client : fd[c] # i)}

\* The directory may hold records of an earlier schema under the same names, and
\* records that were copied from another key's name.
Init ==
    /\ path \in [Key -> Inode \cup {NoFile}]
    /\ \A k, l \in Key : path[k] = path[l] /\ path[k] # NoFile => k = l
    /\ \E misfiled \in SUBSET Key :
          disk = [i \in Inode |->
                    IF \A k \in Key : path[k] # i THEN Empty
                    ELSE LET k == CHOOSE k \in Key : path[k] = i
                         IN  IF k \in misfiled THEN Record(StrayKey, 0, Foreign)
                             ELSE Record(k, 0, OldSchema)]
    /\ pc = [c \in Client |-> "idle"]
    /\ key \in [Client -> Key]
    /\ fd = [c \in Client |-> NoFile]
    /\ next = [c \in Client |-> 1]
    /\ buf = [c \in Client |-> Empty]
    /\ answer = [c \in Client |-> NoAnswer]
    /\ clock = 0 /\ puts = {}

-----------------------------------------------------------------------------
Reply(c, a) == answer' = [answer EXCEPT ![c] = a]
Goto(c, l) == pc' = [pc EXCEPT ![c] = l]

\* The client closes its file; what it read or was writing goes out of scope.
Leave(c, l) ==
    /\ Goto(c, l)
    /\ fd' = [fd EXCEPT ![c] = NoFile]
    /\ next' = [next EXCEPT ![c] = 1]
    /\ buf' = [buf EXCEPT ![c] = Empty]

\* get(): no file is a miss; otherwise the file is opened for reading.
Get(c, k) ==
    /\ pc[c] = "idle"
    /\ key' = [key EXCEPT ![c] = k]
    /\ IF path[k] = NoFile
       THEN Goto(c, "missed") /\ Reply(c, Miss(k)) /\ UNCHANGED <<fd, next, buf>>
       ELSE /\ Goto(c, "reading")
            /\ fd' = [fd EXCEPT ![c] = path[k]]
            /\ next' = [next EXCEPT ![c] = 1]
            /\ buf' = [buf EXCEPT ![c] = Empty]
            /\ UNCHANGED answer
    /\ UNCHANGED <<path, disk, clock, puts>>

ReadPiece(c) ==
    /\ pc[c] = "reading" /\ next[c] \in Piece
    /\ buf' = [buf EXCEPT ![c][next[c]] = disk[fd[c]][next[c]]]
    /\ next' = [next EXCEPT ![c] = @ + 1]
    /\ UNCHANGED <<path, disk, pc, key, fd, answer, clock, puts>>

\* Pieces that are all there but come from several writes may or may not line up
\* to JSON; a record read whole always parses.
OfOneWrite(b) == b[1].value = b[2].value /\ b[2].value = b[3].value
Complete(b) == \A i \in Piece : b[i] # Hole
Expired(b) == TTL > 0 /\ clock - b[1].at > TTL
\* Mutants: the stored key, or the payload digest, is not compared.
KeyMatches_Off(b, k) == TRUE
DigestMatches_Off(b) == TRUE

KeyMatches(b, k) == b[1].key = k
DigestMatches(b) == b[2].value = b[3].value
CurrentSchema(b) == b[2].value # OldSchema

\* The text read does not parse: a miss, and the file stays.
Unreadable(c) ==
    /\ pc[c] = "reading" /\ next[c] \notin Piece
    /\ Complete(buf[c]) => ~OfOneWrite(buf[c])
    /\ Leave(c, "missed") /\ Reply(c, Miss(key[c]))
    /\ UNCHANGED <<path, disk, key, clock, puts>>

\* It parses but is expired, filed under another key, or has a payload that its
\* digest or the schema version refuses: the name will be unlinked.
Reject(c) ==
    /\ pc[c] = "reading" /\ next[c] \notin Piece /\ Complete(buf[c])
    /\ \/ Expired(buf[c])
       \/ ~KeyMatches(buf[c], key[c])
       \/ ~DigestMatches(buf[c])
       \/ ~CurrentSchema(buf[c])
    /\ Leave(c, "removing")
    /\ UNCHANGED <<path, disk, key, answer, clock, puts>>

\* unlink(missing_ok=True) removes whatever has the name by now.
Remove(c) ==
    /\ pc[c] = "removing"
    /\ path' = [path EXCEPT ![key[c]] = NoFile]
    /\ Goto(c, "missed") /\ Reply(c, Miss(key[c]))
    /\ UNCHANGED <<disk, key, fd, next, buf, clock, puts>>

Accept(c) ==
    /\ pc[c] = "reading" /\ next[c] \notin Piece /\ Complete(buf[c])
    /\ ~Expired(buf[c])
    /\ KeyMatches(buf[c], key[c])
    /\ DigestMatches(buf[c])
    /\ CurrentSchema(buf[c])
    /\ Leave(c, "idle") /\ Reply(c, Hit(key[c], <<buf[c][2].value, buf[c][3].value>>))
    /\ UNCHANGED <<path, disk, key, clock, puts>>

-----------------------------------------------------------------------------
\* After a miss the backend is executed.  Without an envelope nothing is stored.
NothingToStore(c) ==
    /\ pc[c] = "missed"
    /\ Goto(c, "idle")
    /\ UNCHANGED <<path, disk, key, fd, next, buf, answer, clock, puts>>

\* put(): the record is stamped, and its file created or truncated.
OpenForWrite(c) ==
    /\ pc[c] = "missed" /\ Cardinality(puts) < MaxPuts
    /\ LET v == Cardinality(puts) + 1
           k == key[c]
       IN  /\ puts' = puts \cup {[key |-> k, value |-> v, at |-> clock]}
           /\ buf' = [buf EXCEPT ![c] = Record(k, clock, v)]
           /\ \E i \in IF path[k] = NoFile THEN Unused ELSE {path[k]} :
                 /\ path' = [path EXCEPT ![k] = i]
                 /\ disk' = [disk EXCEPT ![i] = Empty]
                 /\ fd' = [fd EXCEPT ![c] = i]
    /\ next' = [next EXCEPT ![c] = 1]
    /\ Goto(c, "writing")
    /\ UNCHANGED <<key, answer, clock>>

WritePiece(c) ==
    /\ pc[c] = "writing" /\ next[c] \in Piece
    /\ disk' = [disk EXCEPT ![fd[c]][next[c]] = buf[c][next[c]]]
    /\ next' = [next EXCEPT ![c] = @ + 1]
    /\ UNCHANGED <<path, pc, key, fd, buf, answer, clock, puts>>

Close(c) ==
    /\ pc[c] = "writing" /\ next[c] \notin Piece
    /\ Leave(c, "idle")
    /\ UNCHANGED <<path, disk, key, answer, clock, puts>>

\* The process dies, or a write raises, and the file stays as it is.
Abandon(c) ==
    /\ pc[c] \in {"reading", "removing", "writing"}
    /\ Leave(c, "idle")
    /\ UNCHANGED <<path, disk, key, answer, clock, puts>>

Tick ==
    /\ clock < MaxClock
    /\ clock' = clock + 1
    /\ UNCHANGED <<path, disk, pc, key, fd, next, buf, answer, puts>>

Next ==
    \/ \E c \in Client :
          \/ \E k \in Key : Get(c, k)
          \/ ReadPiece(c) \/ Unreadable(c) \/ Reject(c) \/ Remove(c) \/ Accept(c)
          \/ NothingToStore(c) \/ OpenForWrite(c) \/ WritePiece(c) \/ Close(c)
          \/ Abandon(c)
    \/ Tick

Spec == Init /\ [][Next]_vars
-----------------------------------------------------------------------------
(* Properties *)

HeadType == [kind : {"head"}, key : Key \cup {StrayKey}, at : 0..MaxClock, value : 0..Foreign]
PartType == [kind : {"part"}, value : 0..Foreign]
AnswerType == {NoAnswer} \cup {Miss(k) : k \in Key}
                 \cup {Hit(k, v) : k \in Key, v \in (0..Foreign) \X (0..Foreign)}

IsRecord(b) ==
    /\ DOMAIN b = Piece
    /\ b[1] \in HeadType \cup {Hole}
    /\ b[2] \in PartType \cup {Hole}
    /\ b[3] \in PartType \cup {Hole}

\* Every file and buffer holds a possibly incomplete record, names refer to files,
\* and the history holds stamped writes.
TypeOK ==
    /\ path \in [Key -> Inode \cup {NoFile}]
    /\ DOMAIN disk = Inode /\ \A i \in Inode : IsRecord(disk[i])
    /\ pc \in [Client -> {"idle", "reading", "removing", "missed", "writing"}]
    /\ key \in [Client -> Key]
    /\ fd \in [Client -> Inode \cup {NoFile}]
    /\ next \in [Client -> 1..4]
    /\ DOMAIN buf = Client /\ \A c \in Client : IsRecord(buf[c])
    /\ answer \in [Client -> AnswerType]
    /\ clock \in 0..MaxClock
    /\ puts \subseteq [key : Key, value : Value, at : 0..MaxClock]

\* A hit is a payload that was put, whole, under the very key asked for: never a
\* mixture of two writers, a record copied from another key, a torn file, or a
\* payload of an earlier schema (HardenedResultCache.get, get_cached_execution).
HitIsAuthentic ==
    \A c \in Client : answer[c].kind = "hit" =>
        \E p \in puts : p.key = answer[c].key /\ Whole(p.value) = answer[c].value

Contract == INSTANCE CacheContract WITH
    Value <- {Whole(v) : v \in Value},
    stored <- {<<p.key, Whole(p.value)>> : p \in puts}

\* The files, with all their races, implement the contract the control plane
\* relies on.
ImplementsContract == Contract!Spec
=============================================================================
