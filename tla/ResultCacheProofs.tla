-------------------------- MODULE ResultCacheProofs --------------------------
(***************************************************************************)
(* A hit of the result cache is authentic, and the files implement the      *)
(* contract of the control plane, for any number of clients, keys, files    *)
(* and records, with every race, crash and expiry.                          *)
(***************************************************************************)
EXTENDS ResultCache, FiniteSetTheorems, TLAPS

AnyPiece == HeadType \cup PartType \cup {Hole}

RecordType ==
    {b \in [Piece -> AnyPiece] : /\ b[1] \in HeadType \cup {Hole}
                                 /\ b[2] \in PartType \cup {Hole}
                                 /\ b[3] \in PartType \cup {Hole}}

TypeInv ==
    /\ path \in [Key -> Inode \cup {NoFile}]
    /\ disk \in [Inode -> RecordType]
    /\ pc \in [Client -> {"idle", "reading", "removing", "missed", "writing"}]
    /\ key \in [Client -> Key]
    /\ fd \in [Client -> Inode \cup {NoFile}]
    /\ next \in [Client -> 1..4]
    /\ buf \in [Client -> RecordType]
    /\ answer \in [Client -> AnswerType]
    /\ clock \in 0..MaxClock
    /\ puts \subseteq [key : Key, value : Value, at : 0..MaxClock]
    /\ IsFiniteSet(puts)

\* A piece that makes no hit, or one that a record of S has under k.
OursIn(S, k, x) ==
    x = Hole \/ x.value = OldSchema \/ \E p \in S : p.key = k /\ p.value = x.value

Ours(k, x) == OursIn(puts, k, x)

OwnHead(k, b) == b[1] = Hole \/ b[1].key = k

\* A file is known by the name it has, and by the key of whoever has it open.
Owns(k, i) == path[k] = i \/ \E c \in Client : fd[c] = i /\ key[c] = k

\* An open file belongs to a reader or a writer, and no file to two keys.
FilesInv ==
    /\ \A c \in Client : (pc[c] \in {"reading", "writing"}) <=> (fd[c] \in Inode)
    /\ \A i \in Inode, k, l \in Key : Owns(k, i) /\ Owns(l, i) => k = l

\* Under its own head a file has parts of its own key only.
DiskInv ==
    \A i \in Inode, k \in Key :
        Owns(k, i) /\ OwnHead(k, disk[i]) => Ours(k, disk[i][2]) /\ Ours(k, disk[i][3])

\* A writer has truncated its file and writes its own record.
WriterInv(c) ==
    pc[c] = "writing" =>
        /\ buf[c][1].key = key[c]
        /\ Ours(key[c], buf[c][2]) /\ Ours(key[c], buf[c][3])
        /\ OwnHead(key[c], disk[fd[c]])

\* A reader that found its own head meets parts of its own key from then on.
ReaderInv(c) ==
    pc[c] = "reading" =>
        /\ next[c] = 1 => buf[c][2] = Hole /\ buf[c][3] = Hole /\ buf[c][1] = Hole
        /\ buf[c][1] # Hole /\ buf[c][1].key = key[c] =>
              /\ Ours(key[c], buf[c][2]) /\ Ours(key[c], buf[c][3])
              /\ OwnHead(key[c], disk[fd[c]])

IInv ==
    /\ TypeInv /\ FilesInv /\ DiskInv /\ HitIsAuthentic
    /\ \A c \in Client : WriterInv(c) /\ ReaderInv(c)
-----------------------------------------------------------------------------
(* Records *)

LEMMA EmptyIsRecord == Empty \in RecordType /\ \A n \in Piece : Empty[n] = Hole
<1>1. \A n \in Piece : Empty[n] = Hole
  BY DEF Empty
<1>2. Empty \in [Piece -> AnyPiece]
  BY DEF Empty, AnyPiece
<1> QED BY <1>1, <1>2 DEF RecordType, Piece

LEMMA RecordIsRecord ==
    ASSUME NEW k \in Key \cup {StrayKey}, NEW at \in 0..MaxClock, NEW v \in 0..Foreign
    PROVE  /\ Record(k, at, v) \in RecordType
           /\ Record(k, at, v)[1] # Hole /\ Record(k, at, v)[1].key = k
           /\ Record(k, at, v)[2].value = v /\ Record(k, at, v)[3].value = v
<1>1. Head(k, at, v) \in HeadType /\ Head(k, at, v).key = k /\ Head(k, at, v) # Hole
  BY DEF Head, HeadType, Hole
<1>2. Part(v) \in PartType /\ Part(v).value = v
  BY DEF Part, PartType
<1>3. /\ Record(k, at, v)[1] = Head(k, at, v)
      /\ Record(k, at, v)[2] = Part(v) /\ Record(k, at, v)[3] = Part(v)
  BY DEF Record, Piece
<1>4. Record(k, at, v) \in [Piece -> AnyPiece]
  BY <1>1, <1>2 DEF Record, AnyPiece
<1> QED BY <1>1, <1>2, <1>3, <1>4 DEF RecordType

\* Copying one piece of a record to its place in another makes a record.
LEMMA CopyPiece ==
    ASSUME NEW b \in RecordType, NEW d \in RecordType, NEW n \in Piece
    PROVE  /\ [b EXCEPT ![n] = d[n]] \in RecordType
           /\ \A m \in Piece : [b EXCEPT ![n] = d[n]][m] = IF m = n THEN d[m] ELSE b[m]
<1>1. [b EXCEPT ![n] = d[n]] \in [Piece -> AnyPiece]
  BY DEF RecordType
<1>2. \A m \in Piece : [b EXCEPT ![n] = d[n]][m] = IF m = n THEN d[m] ELSE b[m]
  BY DEF RecordType
<1> QED BY <1>1, <1>2 DEF RecordType, Piece
-----------------------------------------------------------------------------
(* Types *)

LEMMA InitType == Init => TypeInv
<1> SUFFICES ASSUME Init PROVE TypeInv
  OBVIOUS
<1>1. PICK misfiled \in SUBSET Key :
        disk = [i \in Inode |->
                  IF \A k \in Key : path[k] # i THEN Empty
                  ELSE LET k == CHOOSE k \in Key : path[k] = i
                       IN  IF k \in misfiled THEN Record(StrayKey, 0, Foreign)
                           ELSE Record(k, 0, OldSchema)]
  BY DEF Init
<1>2. 0 \in 0..MaxClock /\ OldSchema \in 0..Foreign /\ Foreign \in 0..Foreign
  BY CacheAssumption DEF OldSchema, Foreign
<1>3. ASSUME NEW i \in Inode PROVE disk[i] \in RecordType
  <2>1. CASE \A k \in Key : path[k] # i
    BY <1>1, <2>1, EmptyIsRecord
  <2>2. CASE ~ \A k \in Key : path[k] # i
    <3> DEFINE k == CHOOSE k \in Key : path[k] = i
    <3>1. k \in Key
      BY <2>2
    <3>2. disk[i] = Record(StrayKey, 0, Foreign) \/ disk[i] = Record(k, 0, OldSchema)
      BY <1>1, <2>2
    <3> HIDE DEF k
    <3> QED BY <1>2, <3>1, <3>2, RecordIsRecord
  <2> QED BY <2>1, <2>2
<1>4. disk \in [Inode -> RecordType]
  BY <1>1, <1>3
<1>5. answer \in [Client -> AnswerType] /\ IsFiniteSet(puts)
  BY FS_EmptySet DEF Init, AnswerType
<1> QED BY <1>2, <1>4, <1>5, EmptyIsRecord DEF Init, TypeInv

\* A new record is numbered by a value.
LEMMA NewValue ==
    ASSUME TypeInv, Cardinality(puts) < MaxPuts
    PROVE  Cardinality(puts) + 1 \in Value /\ Cardinality(puts) + 1 \in 0..Foreign
<1>1. Cardinality(puts) \in Nat
  BY FS_CardinalityType DEF TypeInv
<1> QED BY <1>1, CacheAssumption DEF Value, Foreign

LEMMA TypeStep ==
    ASSUME TypeInv, FilesInv, [Next]_vars
    PROVE  TypeInv'
<1> USE DEF TypeInv
<1>0. \A c \in Client : pc[c] \in {"reading", "writing"} => fd[c] \in Inode
  BY DEF FilesInv
<1>1. ASSUME NEW c \in Client, NEW k \in Key, Get(c, k) PROVE TypeInv'
  <2>1. Miss(k) \in AnswerType
    BY DEF AnswerType
  <2> QED BY <1>1, <2>1, EmptyIsRecord DEF Get, Goto, Reply
<1>2. ASSUME NEW c \in Client, ReadPiece(c), fd[c] \in Inode PROVE TypeInv'
  <2>1. buf' = [buf EXCEPT ![c] = [buf[c] EXCEPT ![next[c]] = disk[fd[c]][next[c]]]]
    BY <1>2 DEF ReadPiece
  <2>2. next[c] \in Piece /\ next[c] + 1 \in 1..4
    BY <1>2 DEF ReadPiece, Piece
  <2>3. buf' \in [Client -> RecordType]
    BY <1>2, <2>1, <2>2, CopyPiece
  <2> QED BY <1>2, <2>2, <2>3 DEF ReadPiece
<1>3. ASSUME NEW c \in Client, NEW l \in {"idle", "removing", "missed"}, Leave(c, l)
      PROVE  /\ pc' \in [Client -> {"idle", "reading", "removing", "missed", "writing"}]
             /\ fd' \in [Client -> Inode \cup {NoFile}]
             /\ next' \in [Client -> 1..4] /\ buf' \in [Client -> RecordType]
  BY <1>3, EmptyIsRecord DEF Leave, Goto
<1>4. ASSUME NEW c \in Client, Unreadable(c) \/ Remove(c) PROVE TypeInv'
  <2>1. Miss(key[c]) \in AnswerType
    BY DEF AnswerType
  <2> QED BY <1>3, <1>4, <2>1 DEF Unreadable, Remove, Goto, Reply
<1>5. ASSUME NEW c \in Client, Reject(c) \/ Close(c) \/ Abandon(c) \/ NothingToStore(c)
      PROVE  TypeInv'
  BY <1>3, <1>5 DEF Reject, Close, Abandon, NothingToStore, Goto
<1>6. ASSUME NEW c \in Client, Accept(c) PROVE TypeInv'
  <2>1. buf[c][2] \in PartType /\ buf[c][3] \in PartType
    BY <1>6 DEF Accept, Complete, RecordType, Piece
  <2>2. <<buf[c][2].value, buf[c][3].value>> \in (0..Foreign) \X (0..Foreign)
    BY <2>1 DEF PartType
  <2>3. Hit(key[c], <<buf[c][2].value, buf[c][3].value>>) \in AnswerType
    BY <2>2 DEF AnswerType
  <2> QED BY <1>3, <1>6, <2>3 DEF Accept, Reply
<1>7. ASSUME NEW c \in Client, OpenForWrite(c) PROVE TypeInv'
  <2> DEFINE v == Cardinality(puts) + 1
             k == key[c]
  <2>1. PICK i \in IF path[k] = NoFile THEN Unused ELSE {path[k]} :
          /\ path' = [path EXCEPT ![k] = i]
          /\ disk' = [disk EXCEPT ![i] = Empty]
          /\ fd' = [fd EXCEPT ![c] = i]
    BY <1>7 DEF OpenForWrite
  <2>2. i \in Inode /\ k \in Key
    BY <2>1 DEF Unused
  <2>3. v \in Value /\ v \in 0..Foreign
    BY <1>7, NewValue DEF OpenForWrite
  <2>4. /\ puts' = puts \cup {[key |-> k, value |-> v, at |-> clock]}
        /\ buf' = [buf EXCEPT ![c] = Record(k, clock, v)]
        /\ next' = [next EXCEPT ![c] = 1] /\ pc' = [pc EXCEPT ![c] = "writing"]
        /\ UNCHANGED <<key, answer, clock>>
    BY <1>7 DEF OpenForWrite, Goto
  <2> HIDE DEF v, k
  <2>5. Record(k, clock, v) \in RecordType
    BY <2>2, <2>3, RecordIsRecord
  <2>6. IsFiniteSet(puts')
    BY <2>4, FS_AddElement
  <2> QED BY <2>1, <2>2, <2>3, <2>4, <2>5, <2>6, EmptyIsRecord
<1>8. ASSUME NEW c \in Client, WritePiece(c), fd[c] \in Inode PROVE TypeInv'
  <2>1. disk' = [disk EXCEPT ![fd[c]] = [disk[fd[c]] EXCEPT ![next[c]] = buf[c][next[c]]]]
    BY <1>8 DEF WritePiece
  <2>2. next[c] \in Piece /\ next[c] + 1 \in 1..4
    BY <1>8 DEF WritePiece, Piece
  <2>3. disk' \in [Inode -> RecordType]
    BY <1>8, <2>1, <2>2, CopyPiece
  <2> QED BY <1>8, <2>2, <2>3 DEF WritePiece
<1>9. CASE Tick
  BY <1>9, CacheAssumption DEF Tick
<1>10. CASE UNCHANGED vars
  BY <1>10 DEF vars
<1> QED BY <1>0, <1>1, <1>2, <1>4, <1>5, <1>6, <1>7, <1>8, <1>9, <1>10
       DEF Next, ReadPiece, WritePiece
-----------------------------------------------------------------------------
(* Who owns what *)

Inv(c) == WriterInv(c) /\ ReaderInv(c)

LEMMA InitSafe == Init => FilesInv /\ DiskInv /\ HitIsAuthentic /\ \A c \in Client : Inv(c)
<1> SUFFICES ASSUME Init PROVE FilesInv /\ DiskInv /\ HitIsAuthentic /\ \A c \in Client : Inv(c)
  OBVIOUS
<1>1. \A k, i : i \in Inode => (Owns(k, i) <=> path[k] = i)
  BY CacheAssumption DEF Init, Owns
<1>2. FilesInv
  <2>1. \A c \in Client : (pc[c] \in {"reading", "writing"}) <=> (fd[c] \in Inode)
    BY CacheAssumption DEF Init
  <2>2. ASSUME NEW i \in Inode, NEW k \in Key, NEW l \in Key, Owns(k, i), Owns(l, i)
        PROVE  k = l
    BY <1>1, <2>2, CacheAssumption DEF Init
  <2> QED BY <2>1, <2>2 DEF FilesInv
<1>3. ASSUME NEW i \in Inode, NEW k \in Key, Owns(k, i), OwnHead(k, disk[i])
      PROVE  Ours(k, disk[i][2]) /\ Ours(k, disk[i][3])
  <2>1. path[k] = i /\ \A l \in Key : path[l] = i => l = k
    BY <1>1, <1>3, CacheAssumption DEF Init
  <2>2. disk[i] = Record(StrayKey, 0, Foreign) \/ disk[i] = Record(k, 0, OldSchema)
    <3>1. PICK misfiled \in SUBSET Key :
            disk = [j \in Inode |->
                      IF \A l \in Key : path[l] # j THEN Empty
                      ELSE LET l == CHOOSE l \in Key : path[l] = j
                           IN  IF l \in misfiled THEN Record(StrayKey, 0, Foreign)
                               ELSE Record(l, 0, OldSchema)]
      BY DEF Init
    <3>2. (CHOOSE l \in Key : path[l] = i) = k
      BY <2>1
    <3> QED BY <2>1, <3>1, <3>2
  <2>3. 0 \in 0..MaxClock /\ OldSchema \in 0..Foreign /\ Foreign \in 0..Foreign /\ k # StrayKey
    BY CacheAssumption DEF OldSchema, Foreign
  <2>4. CASE disk[i] = Record(StrayKey, 0, Foreign)
    BY <1>3, <2>3, <2>4, RecordIsRecord DEF OwnHead
  <2>5. CASE disk[i] = Record(k, 0, OldSchema)
    BY <2>3, <2>5, RecordIsRecord DEF Ours, OursIn
  <2> QED BY <2>2, <2>4, <2>5
<1>4. HitIsAuthentic
  BY DEF Init, HitIsAuthentic, NoAnswer
<1>5. \A c \in Client : Inv(c)
  BY DEF Init, Inv, WriterInv, ReaderInv
<1> QED BY <1>2, <1>3, <1>4, <1>5 DEF DiskInv

\* Names that are freed and clients that leave make no owners, and spoil nothing.
LEMMA Leaving ==
    ASSUME IInv, NEW c \in Client, UNCHANGED <<disk, key, puts>>,
           path' = path \/ path' = [path EXCEPT ![key[c]] = NoFile],
           \/ fd' = [fd EXCEPT ![c] = NoFile]
           \/ fd' = fd /\ pc[c] \notin {"reading", "writing"},
           pc'[c] \notin {"reading", "writing"},
           \A d \in Client \ {c} : pc'[d] = pc[d] /\ next'[d] = next[d] /\ buf'[d] = buf[d]
    PROVE  FilesInv' /\ DiskInv' /\ \A d \in Client : Inv(d)'
<1>1. \A k \in Key, i \in Inode : Owns(k, i)' => Owns(k, i)
  BY CacheAssumption DEF Owns, IInv, TypeInv
<1>2. fd'[c] \notin Inode /\ \A d \in Client \ {c} : fd'[d] = fd[d]
  BY CacheAssumption DEF IInv, TypeInv, FilesInv
<1>3. \A k, b : OwnHead(k, b)' <=> OwnHead(k, b)
  BY DEF OwnHead
<1>4. \A k, x : Ours(k, x)' <=> Ours(k, x)
  BY DEF Ours, OursIn
<1>5. FilesInv'
  BY <1>1, <1>2 DEF IInv, FilesInv
<1>6. DiskInv'
  BY <1>1, <1>3, <1>4 DEF IInv, DiskInv, OwnHead, Ours, OursIn
<1>7. ASSUME NEW d \in Client PROVE Inv(d)'
  BY <1>2 DEF IInv, Inv, WriterInv, ReaderInv, OwnHead, Ours, OursIn
<1> QED BY <1>5, <1>6, <1>7

LEMMA GetSafe ==
    ASSUME IInv, NEW c \in Client, NEW k \in Key, Get(c, k)
    PROVE  FilesInv' /\ DiskInv' /\ \A d \in Client : Inv(d)'
<1>1. fd[c] \notin Inode /\ key' = [key EXCEPT ![c] = k] /\ UNCHANGED <<path, disk, puts>>
  BY DEF IInv, FilesInv, Get
<1>2. \A d \in Client \ {c} : /\ fd'[d] = fd[d] /\ key'[d] = key[d] /\ pc'[d] = pc[d]
                              /\ next'[d] = next[d] /\ buf'[d] = buf[d]
  BY DEF IInv, TypeInv, Get, Goto
<1>3. key'[c] = k
  BY <1>1 DEF IInv, TypeInv
<1>4. \/ path[k] = NoFile /\ pc'[c] = "missed" /\ fd'[c] = fd[c]
      \/ path[k] \in Inode /\ pc'[c] = "reading" /\ fd'[c] = path[k] /\ next'[c] = 1 /\ buf'[c] = Empty
  BY DEF IInv, TypeInv, Get, Goto
<1>5. \A l \in Key, i \in Inode : Owns(l, i)' => Owns(l, i)
  BY <1>1, <1>2, <1>3, <1>4 DEF Owns
<1>6. FilesInv'
  BY <1>1, <1>2, <1>4, <1>5 DEF IInv, FilesInv
<1>7. DiskInv'
  BY <1>1, <1>5 DEF IInv, DiskInv, OwnHead, Ours, OursIn
<1>8. Inv(c)'
  BY <1>4, EmptyIsRecord DEF Inv, WriterInv, ReaderInv, Piece
<1>9. ASSUME NEW d \in Client \ {c} PROVE Inv(d)'
  BY <1>1, <1>2 DEF IInv, Inv, WriterInv, ReaderInv, OwnHead, Ours, OursIn
<1> QED BY <1>6, <1>7, <1>8, <1>9

LEMMA ReadSafe ==
    ASSUME IInv, NEW c \in Client, ReadPiece(c)
    PROVE  FilesInv' /\ DiskInv' /\ \A d \in Client : Inv(d)'
<1> DEFINE i == fd[c]
           k == key[c]
           n == next[c]
<1>1. i \in Inode /\ k \in Key /\ n \in Piece /\ pc[c] = "reading" /\ Owns(k, i)
  BY DEF IInv, TypeInv, FilesInv, ReadPiece, Owns
<1>2. UNCHANGED <<path, disk, pc, key, fd, puts>>
  BY DEF ReadPiece
<1>3. FilesInv' /\ DiskInv'
  BY <1>2 DEF IInv, FilesInv, DiskInv, Owns, OwnHead, Ours, OursIn
<1>4. /\ buf' = [buf EXCEPT ![c] = [buf[c] EXCEPT ![n] = disk[i][n]]]
      /\ next' = [next EXCEPT ![c] = n + 1]
  BY DEF ReadPiece
<1>5. \A m \in Piece : buf'[c][m] = IF m = n THEN disk[i][m] ELSE buf[c][m]
  <2>1. buf'[c] = [buf[c] EXCEPT ![n] = disk[i][n]]
    BY <1>4 DEF IInv, TypeInv
  <2>2. buf[c] \in RecordType /\ disk[i] \in RecordType
    BY <1>1 DEF IInv, TypeInv
  <2> HIDE DEF i, n
  <2> DEFINE b == buf[c]
             r == disk[i]
  <2>3. b \in RecordType /\ r \in RecordType /\ n \in Piece /\ buf'[c] = [b EXCEPT ![n] = r[n]]
    BY <1>1, <2>1, <2>2, Zenon
  <2> HIDE DEF b, r
  <2>4. \A m \in Piece : buf'[c][m] = IF m = n THEN r[m] ELSE b[m]
    <3> DEFINE copy == [b EXCEPT ![n] = r[n]]
    <3>1. \A m \in Piece : copy[m] = IF m = n THEN r[m] ELSE b[m]
      BY <2>3, CopyPiece
    <3>2. buf'[c] = copy
      BY <2>3
    <3> HIDE DEF copy
    <3> QED BY <3>1, <3>2, Zenon
  <2> QED BY <2>4, Zenon DEF b, r
<1>6. next'[c] = n + 1
  BY <1>4 DEF IInv, TypeInv
<1>7. Inv(c)'
  <2> HIDE DEF i, k, n
  <2>1. next'[c] # 1
    BY <1>1, <1>6 DEF Piece
  <2>2. ASSUME buf'[c][1] # Hole, buf'[c][1].key = k
        PROVE  Ours(k, buf'[c][2]) /\ Ours(k, buf'[c][3]) /\ OwnHead(k, disk[i])
    <3>1. CASE n = 1
      <4>1. /\ buf'[c][1] = disk[i][1] /\ buf'[c][2] = buf[c][2] /\ buf'[c][3] = buf[c][3]
        BY <1>5, <3>1 DEF Piece
      <4>2. buf[c][2] = Hole /\ buf[c][3] = Hole
        BY <1>1, <3>1 DEF IInv, ReaderInv, n
      <4> QED BY <2>2, <4>1, <4>2 DEF Ours, OursIn, OwnHead
    <3>2. CASE n # 1
      <4>1. buf'[c][1] = buf[c][1]
        BY <1>5, <3>2 DEF Piece
      <4>2. Ours(k, buf[c][2]) /\ Ours(k, buf[c][3]) /\ OwnHead(k, disk[i])
        BY <1>1, <2>2, <4>1 DEF IInv, ReaderInv, i, k
      <4>3. Ours(k, disk[i][2]) /\ Ours(k, disk[i][3])
        BY <1>1, <4>2 DEF IInv, DiskInv
      <4>4. buf'[c][2] \in {disk[i][2], buf[c][2]} /\ buf'[c][3] \in {disk[i][3], buf[c][3]}
        BY <1>5 DEF Piece
      <4> QED BY <4>2, <4>3, <4>4
    <3> QED BY <3>1, <3>2
  <2>3. WriterInv(c)'
    BY <1>1, <1>2 DEF WriterInv
  <2>4. ReaderInv(c)'
    BY <1>2, <2>1, <2>2 DEF ReaderInv, OwnHead, Ours, OursIn, i, k
  <2> QED BY <2>3, <2>4 DEF Inv
<1>8. ASSUME NEW d \in Client \ {c} PROVE Inv(d)'
  <2>1. buf'[d] = buf[d] /\ next'[d] = next[d]
    BY <1>4 DEF IInv, TypeInv
  <2> QED BY <1>2, <2>1 DEF IInv, Inv, WriterInv, ReaderInv, OwnHead, Ours, OursIn
<1> QED BY <1>3, <1>7, <1>8

\* Writers of a key and the file of its name: a file that is truncated is nobody else's.
LEMMA OpenSafe ==
    ASSUME IInv, NEW c \in Client, OpenForWrite(c)
    PROVE  FilesInv' /\ DiskInv' /\ \A d \in Client : Inv(d)'
<1> PICK k, v, new : k = key[c] /\ v = Cardinality(puts) + 1
                     /\ new = [key |-> k, value |-> v, at |-> clock]
  OBVIOUS
<1>1. PICK i \in IF path[k] = NoFile THEN Unused ELSE {path[k]} :
        /\ path' = [path EXCEPT ![k] = i]
        /\ disk' = [disk EXCEPT ![i] = Empty]
        /\ fd' = [fd EXCEPT ![c] = i]
  BY DEF OpenForWrite
<1>2. /\ puts' = puts \cup {new} /\ buf' = [buf EXCEPT ![c] = Record(k, clock, v)]
      /\ next' = [next EXCEPT ![c] = 1] /\ pc' = [pc EXCEPT ![c] = "writing"]
      /\ UNCHANGED key /\ pc[c] = "missed"
  BY DEF OpenForWrite, Goto
<1>3. i \in Inode /\ k \in Key /\ clock \in 0..MaxClock /\ v \in 0..Foreign
  BY <1>1, NewValue DEF Unused, IInv, TypeInv, OpenForWrite
<1>4. new.key = k /\ new.value = v
  OBVIOUS
<1>5. /\ path'[k] = i /\ \A l \in Key \ {k} : path'[l] = path[l]
      /\ disk'[i] = Empty /\ \A j \in Inode \ {i} : disk'[j] = disk[j]
      /\ fd'[c] = i /\ buf'[c] = Record(k, clock, v) /\ pc'[c] = "writing"
      /\ \A d \in Client \ {c} : fd'[d] = fd[d] /\ buf'[d] = buf[d] /\ pc'[d] = pc[d]
                                 /\ next'[d] = next[d]
  BY <1>1, <1>2, <1>3 DEF IInv, TypeInv
<1>6. \A l \in Key : Owns(l, i) => l = k
  <2>1. CASE path[k] = NoFile
    BY <1>1, <2>1 DEF Owns, Unused
  <2>2. CASE path[k] # NoFile
    BY <1>1, <1>3, <2>2 DEF Owns, IInv, FilesInv
  <2> QED BY <2>1, <2>2
<1>7. /\ \A l \in Key : Owns(l, i)' => l = k
      /\ \A l \in Key, j \in Inode \ {i} : Owns(l, j)' => Owns(l, j)
  BY <1>2, <1>3, <1>5, <1>6 DEF Owns
<1>8. \A l, x : OursIn(puts, l, x) => OursIn(puts', l, x)
  BY <1>2 DEF OursIn
<1>9. FilesInv'
  <2>1. \A d \in Client : (pc'[d] \in {"reading", "writing"}) <=> (fd'[d] \in Inode)
    BY <1>3, <1>5 DEF IInv, FilesInv
  <2>2. \A j \in Inode, l, m \in Key : Owns(l, j)' /\ Owns(m, j)' => l = m
    BY <1>7 DEF IInv, FilesInv
  <2> QED BY <2>1, <2>2 DEF FilesInv
<1>10. DiskInv'
  <2> SUFFICES ASSUME NEW j \in Inode, NEW l \in Key, Owns(l, j)', OwnHead(l, disk'[j])
               PROVE  OursIn(puts', l, disk'[j][2]) /\ OursIn(puts', l, disk'[j][3])
    BY DEF DiskInv, OwnHead, Ours
  <2>1. CASE j = i
    BY <1>5, <2>1, EmptyIsRecord DEF OursIn, Piece
  <2>2. CASE j # i
    <3>1. Ours(l, disk[j][2]) /\ Ours(l, disk[j][3])
      BY <1>5, <1>7, <2>2 DEF IInv, DiskInv
    <3> QED BY <1>5, <1>8, <2>2, <3>1 DEF Ours
  <2> QED BY <2>1, <2>2
<1>11. Inv(c)'
  <2>1. \A x : x.value = v => OursIn(puts', k, x)
    BY <1>2, <1>4 DEF OursIn
  <2>2. /\ buf'[c][1].key = k /\ buf'[c][2].value = v /\ buf'[c][3].value = v
    BY <1>3, <1>5, RecordIsRecord
  <2>3. disk'[fd'[c]][1] = Hole
    BY <1>5, EmptyIsRecord DEF Piece
  <2>4. key'[c] = k
    BY <1>2
  <2>5. OursIn(puts', key'[c], buf'[c][2]) /\ OursIn(puts', key'[c], buf'[c][3])
    BY <2>1, <2>2, <2>4
  <2> QED BY <1>5, <2>2, <2>3, <2>4, <2>5 DEF Inv, WriterInv, ReaderInv, Ours, OwnHead
<1>12. ASSUME NEW d \in Client \ {c} PROVE Inv(d)'
  <2>1. \A l : OwnHead(l, disk[fd[d]]) /\ fd[d] \in Inode => OwnHead(l, disk'[fd[d]])
    BY <1>5, EmptyIsRecord DEF OwnHead, Piece
  <2>2. pc[d] \in {"reading", "writing"} => fd[d] \in Inode
    BY DEF IInv, FilesInv
  <2>3. /\ fd'[d] = fd[d] /\ buf'[d] = buf[d] /\ pc'[d] = pc[d] /\ next'[d] = next[d]
        /\ key'[d] = key[d]
    BY <1>2, <1>5
  <2>4. WriterInv(d)'
    BY <1>8, <2>1, <2>2, <2>3 DEF IInv, WriterInv, OwnHead, Ours
  <2>5. ReaderInv(d)'
    BY <1>8, <2>1, <2>2, <2>3 DEF IInv, ReaderInv, OwnHead, Ours
  <2> QED BY <2>4, <2>5 DEF Inv
<1> QED BY <1>9, <1>10, <1>11, <1>12

LEMMA WriteSafe ==
    ASSUME IInv, NEW c \in Client, WritePiece(c)
    PROVE  FilesInv' /\ DiskInv' /\ \A d \in Client : Inv(d)'
<1> DEFINE i == fd[c]
           k == key[c]
           n == next[c]
<1>1. i \in Inode /\ k \in Key /\ n \in Piece /\ pc[c] = "writing" /\ Owns(k, i)
  BY DEF IInv, TypeInv, FilesInv, WritePiece, Owns
<1>2. UNCHANGED <<path, pc, key, fd, buf, puts>>
  BY DEF WritePiece
<1>3. /\ disk' = [disk EXCEPT ![i] = [disk[i] EXCEPT ![n] = buf[c][n]]]
      /\ next' = [next EXCEPT ![c] = n + 1]
  BY DEF WritePiece
<1>4. \A l \in Key : Owns(l, i) => l = k
  BY <1>1 DEF IInv, FilesInv
<1>5. /\ buf[c] \in RecordType /\ disk[i] \in RecordType
      /\ disk'[i] = [disk[i] EXCEPT ![n] = buf[c][n]]
      /\ \A j \in Inode \ {i} : disk'[j] = disk[j]
  BY <1>1, <1>3 DEF IInv, TypeInv
<1>6. /\ buf[c][1].key = k /\ Ours(k, buf[c][2]) /\ Ours(k, buf[c][3])
      /\ OwnHead(k, disk[i])
  BY <1>1 DEF IInv, WriterInv
<1>7. \A d \in Client \ {c} : next'[d] = next[d]
  BY <1>3 DEF IInv, TypeInv
<1> HIDE DEF i, k, n
<1>8. \A m \in Piece : disk'[i][m] = IF m = n THEN buf[c][m] ELSE disk[i][m]
  BY <1>1, <1>5, CopyPiece
<1>9. OwnHead(k, disk'[i])
  BY <1>6, <1>8 DEF OwnHead, Piece
<1>10. Ours(k, disk'[i][2]) /\ Ours(k, disk'[i][3])
  <2>1. Ours(k, disk[i][2]) /\ Ours(k, disk[i][3])
    BY <1>1, <1>6 DEF IInv, DiskInv
  <2>2. disk'[i][2] \in {disk[i][2], buf[c][2]} /\ disk'[i][3] \in {disk[i][3], buf[c][3]}
    BY <1>8 DEF Piece
  <2> QED BY <1>6, <2>1, <2>2
<1>11. FilesInv'
  BY <1>2 DEF IInv, FilesInv, Owns
<1>12. DiskInv'
  <2> SUFFICES ASSUME NEW j \in Inode, NEW l \in Key, Owns(l, j), OwnHead(l, disk'[j])
               PROVE  Ours(l, disk'[j][2]) /\ Ours(l, disk'[j][3])
    BY <1>2 DEF DiskInv, OwnHead, Owns, Ours, OursIn
  <2>1. CASE j = i
    BY <1>4, <1>10, <2>1
  <2>2. CASE j # i
    BY <1>5, <2>2 DEF IInv, DiskInv
  <2> QED BY <2>1, <2>2
<1>13. ASSUME NEW d \in Client, pc[d] \in {"reading", "writing"}, OwnHead(key[d], disk[fd[d]])
       PROVE  OwnHead(key[d], disk'[fd[d]])
  <2>1. fd[d] \in Inode /\ key[d] \in Key /\ Owns(key[d], fd[d])
    BY <1>13 DEF IInv, TypeInv, FilesInv, Owns
  <2>2. CASE fd[d] = i
    BY <1>4, <1>9, <2>1, <2>2
  <2>3. CASE fd[d] # i
    BY <1>5, <1>13, <2>1, <2>3
  <2> QED BY <2>2, <2>3
<1>14. ASSUME NEW d \in Client PROVE Inv(d)'
  <2>1. WriterInv(d)'
    BY <1>2, <1>13 DEF IInv, WriterInv, OwnHead, Ours, OursIn
  <2>2. pc[d] = "reading" => next'[d] = next[d]
    BY <1>1, <1>7
  <2>3. ReaderInv(d)'
    BY <1>2, <1>13, <2>2 DEF IInv, ReaderInv, OwnHead, Ours, OursIn
  <2> QED BY <2>1, <2>3 DEF Inv
<1> QED BY <1>11, <1>12, <1>14
-----------------------------------------------------------------------------
(* Answers *)

\* What Accept hands out was put under the key asked for.
LEMMA AcceptedWasPut ==
    ASSUME IInv, NEW c \in Client, Accept(c)
    PROVE  \E p \in puts : /\ p.key = key[c] /\ p.value \in Value
                           /\ <<buf[c][2].value, buf[c][3].value>> = Whole(p.value)
<1>1. /\ pc[c] = "reading" /\ buf[c][1] # Hole /\ buf[c][2] # Hole /\ buf[c][1].key = key[c]
      /\ buf[c][2].value = buf[c][3].value /\ buf[c][2].value # OldSchema
  BY DEF Accept, Complete, KeyMatches, DigestMatches, CurrentSchema, Piece
<1>2. Ours(key[c], buf[c][2])
  BY <1>1 DEF IInv, ReaderInv
<1>3. \E p \in puts : p.key = key[c] /\ p.value = buf[c][2].value
  BY <1>1, <1>2 DEF Ours, OursIn
<1> QED BY <1>1, <1>3 DEF Whole, IInv, TypeInv

LEMMA AnswerStep ==
    ASSUME IInv, [Next]_vars
    PROVE  HitIsAuthentic'
<1> DEFINE Authentic(a, S) == \E p \in S : p.key = a.key /\ Whole(p.value) = a.value
<1>1. puts \subseteq puts'
  BY DEF Next, Get, ReadPiece, Unreadable, Reject, Remove, Accept, NothingToStore, OpenForWrite,
         WritePiece, Close, Abandon, Tick, vars
<1>2. \A c \in Client : answer[c].kind = "hit" => Authentic(answer[c], puts')
  BY <1>1 DEF IInv, HitIsAuthentic
<1>3. ASSUME NEW c \in Client, NEW a, answer' = [answer EXCEPT ![c] = a],
             a.kind = "hit" => Authentic(a, puts')
      PROVE  HitIsAuthentic'
  BY <1>2, <1>3 DEF HitIsAuthentic, IInv, TypeInv
<1>4. \A k : Miss(k).kind # "hit"
  BY DEF Miss
<1>5. ASSUME NEW c \in Client, Accept(c) PROVE HitIsAuthentic'
  <2> DEFINE a == Hit(key[c], <<buf[c][2].value, buf[c][3].value>>)
  <2>1. a.key = key[c] /\ a.value = <<buf[c][2].value, buf[c][3].value>>
    BY DEF Hit
  <2>2. answer' = [answer EXCEPT ![c] = a]
    BY <1>5 DEF Accept, Reply
  <2> HIDE DEF a
  <2>3. Authentic(a, puts')
    BY <1>1, <1>5, <2>1, AcceptedWasPut
  <2> QED BY <1>3, <2>2, <2>3
<1>6. ASSUME NEW c \in Client, Unreadable(c) \/ Remove(c) PROVE HitIsAuthentic'
  BY <1>3, <1>4, <1>6 DEF Unreadable, Remove, Reply
<1>7. ASSUME NEW c \in Client, NEW k \in Key, Get(c, k) PROVE HitIsAuthentic'
  <2>1. CASE path[k] = NoFile
    BY <1>3, <1>4, <1>7, <2>1 DEF Get, Reply
  <2>2. CASE path[k] # NoFile
    BY <1>2, <1>7, <2>2 DEF Get, HitIsAuthentic
  <2> QED BY <2>1, <2>2
<1>8. CASE UNCHANGED answer
  BY <1>2, <1>8 DEF HitIsAuthentic
<1> QED BY <1>5, <1>6, <1>7, <1>8 DEF Next, ReadPiece, Reject, NothingToStore, OpenForWrite,
                                      WritePiece, Close, Abandon, Tick, vars
-----------------------------------------------------------------------------
LEMMA SafeStep ==
    ASSUME IInv, [Next]_vars
    PROVE  FilesInv' /\ DiskInv' /\ \A c \in Client : Inv(c)'
<1>1. ASSUME NEW c \in Client, Unreadable(c) \/ Reject(c) \/ Accept(c) \/ Close(c) \/ Abandon(c)
      PROVE  FilesInv' /\ DiskInv' /\ \A d \in Client : Inv(d)'
  <2>1. PICK l \in {"idle", "removing", "missed"} : Leave(c, l)
    BY <1>1 DEF Unreadable, Reject, Accept, Close, Abandon
  <2>2. /\ pc'[c] = l
        /\ \A d \in Client \ {c} : pc'[d] = pc[d] /\ next'[d] = next[d] /\ buf'[d] = buf[d]
    BY <2>1 DEF Leave, Goto, IInv, TypeInv
  <2>3. UNCHANGED <<path, disk, key, puts>> /\ fd' = [fd EXCEPT ![c] = NoFile]
    BY <1>1, <2>1 DEF Unreadable, Reject, Accept, Close, Abandon, Leave
  <2> QED BY <2>2, <2>3, Leaving
<1>2. ASSUME NEW c \in Client, Remove(c) \/ NothingToStore(c)
      PROVE  FilesInv' /\ DiskInv' /\ \A d \in Client : Inv(d)'
  <2>1. /\ UNCHANGED <<disk, key, puts, fd, next, buf>> /\ pc[c] \notin {"reading", "writing"}
        /\ path' = path \/ path' = [path EXCEPT ![key[c]] = NoFile]
    BY <1>2 DEF Remove, NothingToStore
  <2>2. pc'[c] \in {"missed", "idle"} /\ \A d \in Client \ {c} : pc'[d] = pc[d]
    BY <1>2 DEF Remove, NothingToStore, Goto, IInv, TypeInv
  <2> QED BY <2>1, <2>2, Leaving
<1>3. CASE Tick \/ UNCHANGED vars
  BY <1>3 DEF Tick, vars, IInv, FilesInv, DiskInv, Inv, WriterInv, ReaderInv, Owns, OwnHead,
              Ours, OursIn
<1> QED BY <1>1, <1>2, <1>3, GetSafe, ReadSafe, OpenSafe, WriteSafe DEF Next

LEMMA IInvHolds == Spec => []IInv
<1>1. Init => IInv
  BY InitType, InitSafe DEF IInv, Inv
<1>2. IInv /\ [Next]_vars => IInv'
  <2> SUFFICES ASSUME IInv, [Next]_vars PROVE IInv'
    OBVIOUS
  <2>1. TypeInv'
    BY TypeStep DEF IInv
  <2> QED BY <2>1, SafeStep, AnswerStep DEF IInv, Inv
<1> QED BY <1>1, <1>2, PTL DEF Spec

\* Files, buffers and answers keep their shape, through every tear and mixture.
THEOREM CacheTypeCorrect == Spec => []TypeOK
<1>1. IInv => TypeOK
  BY DEF IInv, TypeInv, TypeOK, RecordType, IsRecord
<1> QED BY <1>1, IInvHolds, PTL

\* A hit is a payload that was put, whole, under the very key asked for
\* (HardenedResultCache.get).
THEOREM HitCorrect == Spec => []HitIsAuthentic
<1>1. IInv => HitIsAuthentic
  BY DEF IInv
<1> QED BY <1>1, IInvHolds, PTL
-----------------------------------------------------------------------------
(* The files implement the contract *)

\* The two substitutions of Contract, and its variables.
Payload == {Whole(v) : v \in Value}
StoredIn(S) == {<<p.key, Whole(p.value)>> : p \in S}
contractVars == <<StoredIn(puts), answer>>

\* Opening the file of a record puts it; nothing else does.
LEMMA OpenPuts ==
    ASSUME IInv, NEW c \in Client, OpenForWrite(c)
    PROVE  \E k \in Key, w \in Payload : Contract!Put(k, w)
<1> PICK k, v, new : k = key[c] /\ v = Cardinality(puts) + 1
                     /\ new = [key |-> k, value |-> v, at |-> clock]
  OBVIOUS
<1>1. puts' = puts \cup {new} /\ new.key = k /\ new.value = v /\ UNCHANGED answer
  BY DEF OpenForWrite
<1>2. k \in Key /\ v \in Value
  BY NewValue DEF OpenForWrite, IInv, TypeInv
<1>3. StoredIn(puts') = StoredIn(puts) \cup {<<k, Whole(v)>>}
  BY <1>1, Zenon DEF StoredIn
<1> QED BY <1>1, <1>2, <1>3 DEF Contract!Put, Payload, StoredIn

LEMMA AnswerIs ==
    ASSUME IInv, [Next]_vars, ~\E c \in Client : OpenForWrite(c)
    PROVE  [Contract!Next]_contractVars
<1>1. UNCHANGED puts
  BY DEF Next, Get, ReadPiece, Unreadable, Reject, Remove, Accept, NothingToStore, WritePiece,
         Close, Abandon, Tick, vars
<1>2. UNCHANGED StoredIn(puts)
  BY <1>1 DEF StoredIn
<1>3. ASSUME NEW c \in Client, Accept(c) PROVE Contract!Next
  <2>1. PICK p \in puts : /\ p.key = key[c] /\ p.value \in Value
                          /\ <<buf[c][2].value, buf[c][3].value>> = Whole(p.value)
    BY <1>3, AcceptedWasPut
  <2>2. key[c] \in Key /\ Whole(p.value) \in Payload
    BY <2>1 DEF IInv, TypeInv, Payload
  <2>3. <<key[c], Whole(p.value)>> \in StoredIn(puts)
    BY <2>1 DEF StoredIn
  <2>4. answer' = [answer EXCEPT ![c] = Hit(key[c], Whole(p.value))]
    BY <1>3, <2>1 DEF Accept, Reply
  <2>5. Contract!AnswerHit(c, key[c], Whole(p.value))
    BY <1>2, <2>3, <2>4 DEF Contract!AnswerHit, Contract!Hit, Hit, StoredIn
  <2> QED BY <2>2, <2>5 DEF Contract!Next, Payload
<1>4. ASSUME NEW c \in Client, NEW k \in Key, answer' = [answer EXCEPT ![c] = Miss(k)]
      PROVE  Contract!Next
  <2>1. Contract!AnswerMiss(c, k)
    BY <1>2, <1>4 DEF Contract!AnswerMiss, Contract!Miss, Miss, StoredIn
  <2> QED BY <2>1 DEF Contract!Next
<1>5. ASSUME NEW c \in Client, Unreadable(c) \/ Remove(c) PROVE Contract!Next
  BY <1>4, <1>5 DEF Unreadable, Remove, Reply, IInv, TypeInv
<1>6. ASSUME NEW c \in Client, NEW k \in Key, Get(c, k)
      PROVE  Contract!Next \/ UNCHANGED answer
  BY <1>4, <1>6 DEF Get, Reply
<1>7. Contract!Next \/ UNCHANGED answer
  BY <1>3, <1>5, <1>6 DEF Next, ReadPiece, Reject, NothingToStore, WritePiece, Close, Abandon,
                          Tick, vars
<1> QED BY <1>2, <1>7 DEF contractVars

\* The races of the files, their crashes and expiries included, show a client nothing
\* but misses and values put under its key (get_cached_execution).
THEOREM ContractImplemented == Spec => ImplementsContract
<1>1. Init => Contract!Init
  BY DEF Init, Contract!Init, NoAnswer, Contract!NoAnswer
<1>2. IInv /\ [Next]_vars => [Contract!Next]_contractVars
  <2> SUFFICES ASSUME IInv, [Next]_vars PROVE [Contract!Next]_contractVars
    OBVIOUS
  <2>1. ASSUME NEW c \in Client, OpenForWrite(c) PROVE Contract!Next
    BY <2>1, OpenPuts DEF Contract!Next, Payload
  <2> QED BY <2>1, AnswerIs
<1>3. Spec => [][Contract!Next]_contractVars
  BY <1>2, IInvHolds, PTL DEF Spec
<1> QED BY <1>1, <1>3, PTL DEF Spec, ImplementsContract, Contract!Spec, contractVars, StoredIn
=============================================================================
