------------------------ MODULE ArtifactStoreProofs ------------------------
(***************************************************************************)
(* The artifact store for any number of artifacts, sizes, budgets and      *)
(* threads: type correctness, the byte accounting, the budget and what was *)
(* published.                                                              *)
(***************************************************************************)
EXTENDS ArtifactStore, SetSums

\* What the steps of a thread have established for it.
ThreadControl ==
  \A t \in Threads :
    /\ thread[t].pc # "idle" => thread[t].dig \in Digests
    /\ thread[t].pc \in {"budget", "rename", "meta", "insert", "restore"}
         => thread[t].for = "publish"
    /\ thread[t].pc \in {"budget", "rename"} => thread[t].bytes # "none"

At(t, d, pcs) == thread[t].dig = d /\ thread[t].pc \in pcs

\* Past the check of the budget and not yet in the index.
Inflight == {"rename", "meta", "insert"}
Arriving(d) == \E u \in Threads : At(u, d, {"meta", "insert"})

\* A digest that is about to leave the index has no payload, and nobody else
\* removes or publishes it.
LeavesAlone(d) ==
  \A t \in Threads : At(t, d, {"unindex"}) =>
    /\ d \in index
    /\ payload[d] = "none"
    /\ \A u \in Threads \ {t} : ~At(u, d, Inflight \cup {"unindex"})

\* Whatever a reader has opened is in the index, or gone, or published anew.
ReadsIndexed(d) ==
  \A t \in Threads : At(t, d, {"reading", "quarantine", "restore"}) =>
    d \in index \/ payload[d] = "none" \/ Arriving(d)

\* What a publish has put in place is there.
PublishHolds(d) ==
  \A t \in Threads :
    /\ At(t, d, {"meta", "insert"}) => payload[d] # "none"
    /\ At(t, d, {"insert"}) => meta[d]
    /\ At(t, d, {"reading", "restore"}) /\ thread[t].for = "publish"
         => d \in index /\ payload[d] # "none"

\* A digest with both files is in the index or on its way there.
FilesIndexed(d) == payload[d] # "none" /\ meta[d] => d \in index \/ Arriving(d)

SettledKept(d) == d \in settled \ taken => d \in index /\ payload[d] # "none" /\ meta[d]

Sound(d) ==
  LeavesAlone(d) /\ ReadsIndexed(d) /\ PublishHolds(d) /\ FilesIndexed(d) /\ SettledKept(d)

\* The digests of a quiet store: in the index or past the check.
Reserved == index \cup {thread[t].dig : t \in {u \in Threads : thread[u].pc \in Inflight}}

\* Without a crowded check at most one publish is past it, and what it will
\* add has been counted.
Budgeted ==
  ~crowded =>
    /\ \A t, u \in Threads : thread[t].pc \in Inflight /\ thread[u].pc \in Inflight => t = u
    /\ raced = {} => Total(Size, Reserved) <= MaxTotalBytes /\ Cardinality(Reserved) <= MaxArtifacts

IInv == /\ TypeOK /\ ThreadControl /\ Accounting
        /\ \A d \in Digests \ raced : Sound(d)
        /\ Budgeted

-----------------------------------------------------------------------------
ThreadType ==
  [pc : {"idle", "open", "reading", "done", "failed", "quarantine", "unindex", "budget",
         "rename", "meta", "insert", "restore"},
   for : {"none", "read", "verify", "publish"}, dig : Digests \cup {NoDigest},
   bytes : {"none", "good", "bad"}, reader : Reader, offset : Nat]

\* A step of one thread leaves the others where they are.
LEMMA OneThread ==
  ASSUME thread \in [Threads -> ThreadType], NEW t \in Threads, NEW r,
         thread' = [thread EXCEPT ![t] = r], r \in ThreadType
  PROVE  /\ thread' \in [Threads -> ThreadType]
         /\ thread'[t] = r
         /\ \A u \in Threads \ {t} : thread'[u] = thread[u]
  OBVIOUS

\* A thread without an operation has the type of a thread.
LEMMA IdleType == Idle \in ThreadType
  BY DEF Idle, ThreadType, Reader, NewReader

\* Moving a thread to another place changes its place only.
LEMMA GotoType ==
  ASSUME thread \in [Threads -> ThreadType], NEW t \in Threads,
         NEW p \in {"idle", "open", "reading", "done", "failed", "quarantine", "unindex",
                    "budget", "rename", "meta", "insert", "restore"},
         Goto(t, p)
  PROVE  /\ thread' \in [Threads -> ThreadType]
         /\ thread'[t] = [thread[t] EXCEPT !.pc = p]
         /\ \A u \in Threads \ {t} : thread'[u] = thread[u]
  BY DEF Goto, ThreadType

\* A thread that has finished is idle, and the others are as before.
LEMMA DoneType ==
  ASSUME thread \in [Threads -> ThreadType], NEW t \in Threads, Done(t)
  PROVE  /\ thread' \in [Threads -> ThreadType]
         /\ thread'[t] = Idle
         /\ \A u \in Threads \ {t} : thread'[u] = thread[u]
  BY IdleType DEF Done

\* A thread inside an operation works on a digest.
LEMMA DigTyped ==
  ASSUME TypeOK, ThreadControl, NEW t \in Threads, thread[t].pc # "idle"
  PROVE  Dig(t) \in Digests
  BY DEF ThreadControl, Dig

\* Every step leaves a thread with a record of its type, and tells what it is.
LEMMA ThreadSteps ==
  ASSUME TypeOK, ThreadControl, StoreAssumption, NEW t \in Threads, Publish(t) \/ Read(t)
  PROVE  /\ thread' \in [Threads -> ThreadType]
         /\ \A u \in Threads \ {t} : thread'[u] = thread[u]
         /\ ThreadControl'
  <1>0. thread \in [Threads -> ThreadType]
    BY DEF TypeOK, ThreadType
  <1> DEFINE Others == \A u \in Threads \ {t} : thread'[u] = thread[u]
             Own == /\ thread'[t].pc # "idle" => thread'[t].dig \in Digests
                    /\ thread'[t].pc \in {"budget", "rename", "meta", "insert", "restore"}
                         => thread'[t].for = "publish"
                    /\ thread'[t].pc \in {"budget", "rename"} => thread'[t].bytes # "none"
  <1>1. ASSUME thread' \in [Threads -> ThreadType], Others, Own
        PROVE  ThreadControl'
    BY <1>1 DEF ThreadControl
  <1> SUFFICES thread' \in [Threads -> ThreadType] /\ Others /\ Own
    BY <1>1
  <1> HIDE DEF Others
  <1>2. ASSUME NEW r, r \in ThreadType, thread' = [thread EXCEPT ![t] = r]
        PROVE  thread' \in [Threads -> ThreadType] /\ Others /\ thread'[t] = r
    BY <1>0, <1>2, OneThread DEF Others
  <1>3. CASE Done(t)
    <2>1. thread' \in [Threads -> ThreadType] /\ Others /\ thread'[t] = Idle
      BY <1>0, <1>3, DoneType DEF Others
    <2> QED BY <2>1 DEF Idle
  <1>4. ASSUME NEW d \in Digests, NEW bytes \in {"good", "bad"}, Stage(t, d, bytes)
        PROVE  thread' \in [Threads -> ThreadType] /\ Others /\ Own
    <2> DEFINE r == [Idle EXCEPT !.pc = "budget", !.for = "publish", !.dig = d, !.bytes = bytes]
    <2>1. r \in ThreadType
      BY IdleType DEF ThreadType, Idle
    <2>2. thread' = [thread EXCEPT ![t] = r]
      BY <1>4 DEF Stage
    <2>3. r.pc = "budget" /\ r.for = "publish" /\ r.dig = d /\ r.bytes = bytes
      BY DEF Idle
    <2> HIDE DEF r
    <2> QED BY <1>2, <2>1, <2>2, <2>3
  <1>5. ASSUME NEW d \in Digests, NEW offset \in 0 .. Size[d] - 1, StartRead(t, d, offset)
        PROVE  thread' \in [Threads -> ThreadType] /\ Others /\ Own
    <2> DEFINE r == [Idle EXCEPT !.pc = "open", !.for = "read", !.dig = d, !.offset = offset]
    <2>0. offset \in Nat
      BY DEF StoreAssumption
    <2>1. r \in ThreadType
      BY <2>0, IdleType DEF ThreadType, Idle
    <2>2. thread' = [thread EXCEPT ![t] = r]
      BY <1>5 DEF StartRead
    <2>3. r.pc = "open" /\ r.dig = d
      BY DEF Idle
    <2> HIDE DEF r
    <2> QED BY <1>2, <2>1, <2>2, <2>3
  <1>6. ASSUME NEW d \in Digests, StartVerify(t, d)
        PROVE  thread' \in [Threads -> ThreadType] /\ Others /\ Own
    <2> DEFINE r == [Idle EXCEPT !.pc = "open", !.for = "verify", !.dig = d]
    <2>1. r \in ThreadType
      BY IdleType DEF ThreadType, Idle
    <2>2. thread' = [thread EXCEPT ![t] = r]
      BY <1>6 DEF StartVerify
    <2>3. r.pc = "open" /\ r.dig = d
      BY DEF Idle
    <2> HIDE DEF r
    <2> QED BY <1>2, <2>1, <2>2, <2>3
  <1>7. ASSUME NEW p \in {"idle", "open", "reading", "done", "failed", "quarantine", "unindex",
                          "budget", "rename", "meta", "insert", "restore"},
               Goto(t, p), thread[t].pc # "idle", p # "budget",
               p \in {"rename", "meta", "insert", "restore"} => thread[t].for = "publish",
               p = "rename" => thread[t].bytes # "none"
        PROVE  thread' \in [Threads -> ThreadType] /\ Others /\ Own
    <2>1. /\ thread' \in [Threads -> ThreadType] /\ Others
          /\ thread'[t] = [thread[t] EXCEPT !.pc = p]
      BY <1>0, <1>7, GotoType DEF Others
    <2>2. thread[t] \in ThreadType /\ thread[t].dig \in Digests
      BY <1>0, <1>7 DEF ThreadControl
    <2>3. /\ thread'[t].pc = p /\ thread'[t].dig = thread[t].dig
          /\ thread'[t].for = thread[t].for /\ thread'[t].bytes = thread[t].bytes
      BY <2>1, <2>2 DEF ThreadType
    <2> QED BY <1>7, <2>1, <2>2, <2>3
  <1>8. CASE OpenReader(t)
    <2>1. CASE Done(t)
      BY <2>1, <1>3
    <2>2. CASE ~Done(t)
      <3> DEFINE r == [thread[t] EXCEPT !.pc = "reading", !.bytes = payload[Dig(t)],
                                        !.reader = NewReader]
      <3>1. thread[t] \in ThreadType /\ thread[t].dig \in Digests /\ payload[Dig(t)] \in {"none", "good", "bad"}
        BY <1>0, <1>8 DEF ThreadControl, OpenReader, TypeOK, Dig
      <3>2. NewReader \in Reader
        BY DEF NewReader, Reader
      <3>3. r \in ThreadType /\ r.pc = "reading" /\ r.dig = thread[t].dig
        BY <3>1, <3>2 DEF ThreadType
      <3>4. thread' = [thread EXCEPT ![t] = r]
        BY <1>8, <2>2, <1>0 DEF OpenReader
      <3> HIDE DEF r
      <3> QED BY <1>2, <3>1, <3>3, <3>4
    <2> QED BY <2>1, <2>2
  <1>9. CASE ReadChunk(t)
    <2> DEFINE at == thread[t].offset
               q == IF at + 1 < Size[Dig(t)] THEN "reading"
                    ELSE IF thread[t].for = "publish" THEN "restore" ELSE "done"
               r == [thread[t] EXCEPT !.offset = at + 1, !.reader = AfterRead(@, at, 1), !.pc = q]
    <2>1. thread[t] \in ThreadType /\ thread[t].dig \in Digests /\ at \in Nat
      BY <1>0, <1>9 DEF ThreadControl, ReadChunk, ThreadType
    <2>2. AfterRead(thread[t].reader, at, 1) \in Reader
      <3>1. thread[t].reader.whole \in BOOLEAN /\ at + 1 \in Nat
        BY <2>1 DEF ThreadType, Reader
      <3>2. (thread[t].reader.whole /\ at = thread[t].reader.at) \in BOOLEAN
        BY <3>1, Zenon
      <3> QED BY <3>1, <3>2 DEF AfterRead, Reader
    <2>3. q \in {"reading", "restore", "done"} /\ (q = "restore" => thread[t].for = "publish")
      OBVIOUS
    <2>4. thread' = [thread EXCEPT ![t] = r]
      BY <1>9, <1>0 DEF ReadChunk
    <2>5. r \in ThreadType /\ r.pc = q /\ r.dig = thread[t].dig /\ r.for = thread[t].for
      <3>1. at + 1 \in Nat
        BY <2>1
      <3> DEFINE rd == AfterRead(thread[t].reader, at, 1)
      <3>2. rd \in Reader
        BY <2>2
      <3>3. r = [thread[t] EXCEPT !.offset = at + 1, !.reader = rd, !.pc = q]
        BY Zenon
      <3>4. thread[t] \in ThreadType
        BY <2>1
      <3> DEFINE old == thread[t]  o == at + 1
      <3> HIDE DEF rd, r, q, old, o, at
      <3>5. /\ old \in ThreadType /\ r = [old EXCEPT !.offset = o, !.reader = rd, !.pc = q]
            /\ o \in Nat /\ q \in {"reading", "restore", "done"}
        BY <2>3, <3>1, <3>3, <3>4 DEF old, o
      <3>6. r \in ThreadType /\ r.pc = q /\ r.dig = old.dig /\ r.for = old.for
        BY <3>2, <3>5 DEF ThreadType
      <3> QED BY <3>6 DEF old
    <2> HIDE DEF r, at, q
    <2> QED BY <1>2, <2>1, <2>3, <2>4, <2>5
  <1>10. thread[t].pc \in {"budget", "rename", "meta", "insert", "restore"} => thread[t].for = "publish"
    BY DEF ThreadControl
  <1>11. CASE ReadFails(t)
    <2>1. CASE thread[t].for = "read"
      BY <1>11, <1>7, <2>1 DEF ReadFails
    <2>2. CASE thread[t].for # "read"
      BY <1>11, <1>7, <2>2 DEF ReadFails
    <2> QED BY <2>1, <2>2
  <1>12. CASE Close(t) \/ Unindex(t) \/ RenameFails(t) \/ MetadataFails(t) \/ Insert(t)
              \/ Restore(t) \/ RestoreFails(t)
    BY <1>12, <1>3 DEF Close, Unindex, RenameFails, MetadataFails, Insert, Restore, RestoreFails
  <1>13. CASE Quarantine(t)
    BY <1>13, <1>3, <1>7 DEF Quarantine
  <1>14. CASE CheckBudget(t)
    <2>1. thread[t].bytes # "none" /\ thread[t].pc = "budget"
      BY <1>14 DEF ThreadControl, CheckBudget
    <2>2. Goto(t, "open") \/ Done(t) \/ Goto(t, "rename")
      BY <1>14 DEF CheckBudget
    <2> QED BY <1>3, <1>7, <1>10, <2>1, <2>2
  <1>15. CASE Rename(t)
    BY <1>15, <1>7, <1>10 DEF Rename
  <1>16. CASE WriteMetadata(t)
    BY <1>16, <1>7, <1>10 DEF WriteMetadata
  <1> QED
    BY <1>4, <1>5, <1>6, <1>8, <1>9, <1>11, <1>12, <1>13, <1>14, <1>15, <1>16 DEF Publish, Read

-----------------------------------------------------------------------------
(* Types and the byte accounting.                                          *)

LEMMA BytesTotal == \A S : BytesOf(S) = Total(Size, S)
  BY DEF BytesOf, Total

\* A store that has just been created satisfies the invariant.
LEMMA InitIInv ==
  ASSUME Init, StoreAssumption
  PROVE  IInv
  <1>1. TypeOK
    <2>1. thread \in [Threads -> ThreadType]
      BY IdleType DEF Init
    <2> QED BY <2>1 DEF Init, TypeOK, ThreadType
  <1>2. \A t \in Threads : thread[t].pc = "idle"
    BY DEF Init, Idle
  <1>3. ThreadControl
    BY <1>2 DEF ThreadControl
  <1>4. Total(Size, {}) = 0
    BY TotalUnfold DEF StoreAssumption
  <1>5. Accounting
    BY <1>4, BytesTotal DEF Init, Accounting
  <1>6. \A d \in Digests \ raced : Sound(d)
    BY <1>2 DEF Init, Sound, LeavesAlone, ReadsIndexed, PublishHolds, FilesIndexed, SettledKept, At
  <1>7. Reserved = {}
    BY <1>2 DEF Reserved, Inflight, Init
  <1>8. Budgeted
    BY <1>2, <1>4, <1>7, FS_EmptySet DEF Budgeted, Inflight, StoreAssumption
  <1> QED
    BY <1>1, <1>3, <1>5, <1>6, <1>8 DEF IInv

\* What is used of the assumption: digests are finitely many and have sizes.
LEMMA SizeFacts ==
  ASSUME StoreAssumption
  PROVE  IsFiniteSet(Digests) /\ Size \in [Digests -> Nat]
  BY DEF StoreAssumption

\* A step of a thread keeps the types and the accounting.
LEMMA StepTypes ==
  ASSUME IInv, StoreAssumption, NEW t \in Threads, Publish(t) \/ Read(t)
  PROVE  TypeOK' /\ ThreadControl' /\ Accounting'
  <1>1. TypeOK /\ ThreadControl /\ Accounting
    BY DEF IInv
  <1>2. thread' \in [Threads -> ThreadType] /\ ThreadControl'
    BY <1>1, ThreadSteps
  <1>3. used = Total(Size, index) /\ used \in Nat /\ index \in SUBSET Digests
    BY <1>1, BytesTotal DEF Accounting, TypeOK
  <1> DEFINE Rest5 == /\ payload' \in [Digests -> {"none", "good", "bad"}]
                      /\ meta' \in [Digests -> BOOLEAN]
                      /\ settled' \subseteq Digests /\ raced' \subseteq Digests
                      /\ taken' \subseteq Digests
  <1>4. ASSUME index' \in SUBSET Digests, used' = Total(Size, index'), Rest5, crowded' \in BOOLEAN
        PROVE  TypeOK' /\ Accounting'
    <2>1. used' \in Nat
      BY <1>4, SizeFacts, TotalIsNat
    <2>2. TypeOK'
      BY <1>2, <1>4, <2>1 DEF TypeOK, ThreadType
    <2>3. used' = Total(Size, index')
      BY <1>4
    <2>4. Accounting'
      BY <2>3, BytesTotal DEF Accounting
    <2> QED BY <2>2, <2>4
  <1>5. /\ payload \in [Digests -> {"none", "good", "bad"}] /\ meta \in [Digests -> BOOLEAN]
        /\ settled \subseteq Digests /\ raced \subseteq Digests /\ crowded \in BOOLEAN
        /\ taken \subseteq Digests
    BY <1>1 DEF TypeOK
  <1>6. CASE Insert(t)
    <2>1. Dig(t) \in Digests
      BY <1>1, <1>6, DigTyped DEF Insert
    <2>2. index' \in SUBSET Digests /\ index' = index \cup {Dig(t)}
      BY <1>3, <1>6, <2>1 DEF Insert
    <2>3. used' = Total(Size, index')
      <3>1. Total(Size, index \cup {Dig(t)})
              = IF Dig(t) \in index THEN used ELSE Size[Dig(t)] + used
        BY <1>3, <2>1, SizeFacts, TotalAdd
      <3>2. Size[Dig(t)] + used = used + Size[Dig(t)]
        BY <1>3, <2>1, SizeFacts
      <3> QED BY <1>6, <2>2, <3>1, <3>2 DEF Insert
    <2>4. Rest5 /\ crowded' \in BOOLEAN
      BY <1>5, <1>6, <2>1 DEF Insert, files
    <2> QED BY <1>2, <1>4, <2>2, <2>3, <2>4
  <1>7. CASE Unindex(t)
    <2>1. Dig(t) \in Digests
      BY <1>1, <1>7, DigTyped DEF Unindex
    <2>2. index' \in SUBSET Digests
      BY <1>3, <1>7 DEF Unindex, memory
    <2>3. used' = Total(Size, index')
      <3>1. CASE Dig(t) \in index
        <4>1. /\ index' = index \ {Dig(t)}
              /\ used' = IF used > Size[Dig(t)] THEN used - Size[Dig(t)] ELSE 0
          BY <1>7, <3>1 DEF Unindex
        <4>2. used = Size[Dig(t)] + Total(Size, index \ {Dig(t)})
          BY <1>3, <3>1, SizeFacts, TotalRemove
        <4>3. Size[Dig(t)] \in Nat /\ Total(Size, index \ {Dig(t)}) \in Nat
          BY <1>3, <2>1, SizeFacts, TotalIsNat
        <4> QED BY <1>3, <4>1, <4>2, <4>3
      <3>2. CASE Dig(t) \notin index
        BY <1>3, <1>7, <3>2 DEF Unindex, memory
      <3> QED BY <3>1, <3>2
    <2>4. Rest5 /\ crowded' \in BOOLEAN
      BY <1>5, <1>7, <2>1 DEF Unindex, files, history
    <2> QED BY <1>2, <1>4, <2>2, <2>3, <2>4
  <1>8. CASE ~Insert(t) /\ ~Unindex(t)
    <2>1. UNCHANGED <<index, used>>
      BY <1>8 DEF Publish, Read, Stage, CheckBudget, Rename, RenameFails, WriteMetadata,
                  MetadataFails, Restore, RestoreFails, StartRead, StartVerify, OpenReader,
                  ReadChunk, ReadFails, Close, Quarantine, memory
    <2>2. crowded' \in BOOLEAN
      <3>1. UNCHANGED crowded \/ \E o : crowded' = (crowded \/ o # {})
        BY <1>8, Zenon DEF Publish, Read, Stage, CheckBudget, Rename, RenameFails, WriteMetadata,
                  MetadataFails, Restore, RestoreFails, StartRead, StartVerify, OpenReader,
                  ReadChunk, ReadFails, Close, Quarantine, history
      <3> QED BY <1>5, <3>1, Zenon
    <2>3. CASE Rename(t)
      <3>1. thread[t].bytes \in {"none", "good", "bad"} /\ Dig(t) \in Digests
        BY <1>1, <2>3, DigTyped DEF TypeOK, Rename
      <3> QED BY <1>2, <1>3, <1>4, <1>5, <2>1, <2>2, <2>3, <3>1 DEF Rename, history
    <2>4. CASE WriteMetadata(t) \/ Restore(t)
      <3>1. Dig(t) \in Digests
        BY <1>1, <2>4, DigTyped DEF WriteMetadata, Restore
      <3> QED BY <1>2, <1>3, <1>4, <1>5, <2>1, <2>2, <2>4, <3>1 DEF WriteMetadata, Restore, history
    <2>5. CASE MetadataFails(t) \/ Quarantine(t)
      <3>1. Dig(t) \in Digests
        BY <1>1, <2>5, DigTyped DEF MetadataFails, Quarantine
      <3>2. \/ UNCHANGED <<payload, raced>>
            \/ /\ payload' = [payload EXCEPT ![Dig(t)] = "none"]
               /\ raced' \in {raced, raced \cup {Dig(t)}}
        BY <2>5 DEF MetadataFails, Quarantine, Removed
      <3>5. settled' \in {settled, settled \ {Dig(t)}} /\ taken' \in {taken, taken \cup {Dig(t)}}
        BY <2>5 DEF MetadataFails, Quarantine
      <3>3. UNCHANGED meta
        BY <2>5 DEF MetadataFails, Quarantine
      <3>4. Rest5
        BY <1>5, <3>1, <3>2, <3>3, <3>5
      <3> QED BY <1>2, <1>3, <1>4, <2>1, <2>2, <3>4
    <2>6. CASE ~(Rename(t) \/ WriteMetadata(t) \/ Restore(t) \/ MetadataFails(t) \/ Quarantine(t))
      <3>1. UNCHANGED <<payload, meta, settled, raced, taken>>
        BY <1>8, <2>6 DEF Publish, Read, Stage, CheckBudget, RenameFails, RestoreFails,
                  StartRead, StartVerify, OpenReader, ReadChunk, ReadFails, Close, files, history
      <3> QED BY <1>2, <1>3, <1>4, <1>5, <2>1, <2>2, <3>1
    <2> QED BY <2>3, <2>4, <2>5, <2>6
  <1> QED
    BY <1>2, <1>6, <1>7, <1>8

-----------------------------------------------------------------------------
(* Every digest whose payload was not taken away while it was published.   *)

\* A step that moves one thread to a place of no consequence, or to one where
\* what the invariant asks of it holds already, and changes nothing else.
LEMMA SoundWhenMoved ==
  ASSUME NEW d \in Digests, Sound(d), NEW t \in Threads,
         \A u \in Threads \ {t} : thread'[u] = thread[u],
         UNCHANGED <<payload, meta, index, settled, taken>>,
         ~At(t, d, {"meta", "insert"}),
         ~At(t, d, Inflight \cup {"unindex"})',
         At(t, d, {"reading", "quarantine", "restore"})' =>
            d \in index \/ At(t, d, {"reading", "quarantine", "restore"}),
         At(t, d, {"reading", "restore"})' /\ thread'[t].for = "publish" =>
            \/ d \in index /\ payload[d] # "none"
            \/ At(t, d, {"reading", "restore"}) /\ thread[t].for = "publish"
  PROVE  Sound(d)'
  <1>0. \A pcs : \A u \in Threads : u # t => (At(u, d, pcs)' <=> At(u, d, pcs))
    BY DEF At
  <1>1. LeavesAlone(d)'
    BY <1>0 DEF Sound, LeavesAlone, At, Inflight
  <1>2. Arriving(d) => Arriving(d)'
    BY <1>0 DEF Arriving, At
  <1>3. ReadsIndexed(d)'
    BY <1>0, <1>2 DEF Sound, ReadsIndexed, At
  <1>4. PublishHolds(d)'
    BY <1>0 DEF Sound, PublishHolds, At, Inflight
  <1>5. FilesIndexed(d)'
    BY <1>2 DEF Sound, FilesIndexed
  <1> QED
    BY <1>1, <1>3, <1>4, <1>5 DEF Sound, SettledKept

\* A digest about to leave the index stays left alone by a step of a thread that
\* does not come to publish or remove it.
LEMMA StillLeftAlone ==
  ASSUME NEW d \in Digests, LeavesAlone(d), NEW t \in Threads,
         \A pcs : \A u \in Threads : u # t => (At(u, d, pcs)' <=> At(u, d, pcs)),
         payload'[d] = payload[d], d \in index => d \in index',
         ~At(t, d, {"unindex"})',
         At(t, d, Inflight \cup {"unindex"})' => At(t, d, Inflight \cup {"unindex"})
  PROVE  LeavesAlone(d)'
  <1>1. \A u \in Threads : At(u, d, {"unindex"})' => u # t /\ At(u, d, {"unindex"})
    OBVIOUS
  <1>2. \A u \in Threads : At(u, d, Inflight \cup {"unindex"})' => At(u, d, Inflight \cup {"unindex"})
    OBVIOUS
  <1> QED BY <1>1, <1>2 DEF LeavesAlone

\* Publishing keeps what was published, of this digest and of the others.
LEMMA PublishSound ==
  ASSUME IInv, StoreAssumption, NEW t \in Threads, Publish(t),
         NEW d \in Digests, d \notin raced'
  PROVE  Sound(d)'
  <1>1. TypeOK /\ ThreadControl /\ thread \in [Threads -> ThreadType]
    BY DEF IInv, TypeOK, ThreadType
  <1>2. /\ \A u \in Threads \ {t} : thread'[u] = thread[u]
        /\ ThreadControl'
    BY <1>1, ThreadSteps
  <1>3. d \notin raced
    BY DEF Publish, Stage, CheckBudget, Rename, RenameFails, WriteMetadata, MetadataFails,
           Insert, Restore, RestoreFails, Removed, history
  <1>4. Sound(d)
    BY <1>3 DEF IInv
  <1>5. CASE \E e \in Digests, bytes \in {"good", "bad"} : Stage(t, e, bytes)
    <2>1. thread[t].pc = "idle" /\ thread'[t].pc = "budget"
      BY <1>1, <1>5 DEF Stage, Idle
    <2> QED BY <1>2, <1>4, <1>5, <2>1, SoundWhenMoved DEF Stage, At, Inflight, files, memory, history
  <1>6. \A p : Goto(t, p) => thread'[t] = [thread[t] EXCEPT !.pc = p]
    BY <1>1 DEF Goto
  <1>7. ASSUME NEW p, Goto(t, p)
        PROVE  /\ thread'[t].pc = p /\ thread'[t].dig = thread[t].dig
               /\ thread'[t].for = thread[t].for
    <2>1. thread[t] \in ThreadType /\ thread'[t] = [thread[t] EXCEPT !.pc = p]
      BY <1>1, <1>6, <1>7
    <2> DEFINE r == thread[t]
    <2>2. r \in ThreadType /\ thread'[t] = [r EXCEPT !.pc = p]
      BY <2>1
    <2> HIDE DEF r
    <2>3. thread'[t].pc = p /\ thread'[t].dig = r.dig /\ thread'[t].for = r.for
      BY <2>2 DEF ThreadType
    <2> QED BY <2>3 DEF r
  <1>8. Done(t) => thread'[t].pc = "idle"
    BY <1>1, DoneType DEF Idle
  <1>9. \A pcs : \A u \in Threads : u # t => (At(u, d, pcs)' <=> At(u, d, pcs))
    BY <1>2 DEF At
  <1>10. CASE RenameFails(t)
    BY <1>2, <1>4, <1>8, <1>10, SoundWhenMoved DEF RenameFails, At, Inflight, files, memory, history
  <1>11. CASE RestoreFails(t)
    BY <1>2, <1>4, <1>8, <1>11, SoundWhenMoved DEF RestoreFails, At, Inflight, files, memory, history
  <1>12. CASE CheckBudget(t)
    <2>1. UNCHANGED <<payload, meta, index, settled, taken>> /\ thread[t].pc = "budget"
      BY <1>12 DEF CheckBudget, files, memory
    <2>2. CASE Goto(t, "open") \/ Done(t)
      BY <1>2, <1>4, <1>7, <1>8, <2>1, <2>2, SoundWhenMoved DEF At, Inflight
    <2>3. CASE Goto(t, "rename") /\ Dig(t) \notin index
      <3>1. thread'[t].pc = "rename" /\ thread'[t].dig = Dig(t)
        BY <1>7, <2>3 DEF Dig
      <3>2. LeavesAlone(d)'
        <4>1. \A u \in Threads : At(u, d, {"unindex"})' => u # t /\ At(u, d, {"unindex"})
          BY <1>9, <3>1 DEF At
        <4>2. d \in index => ~At(t, d, Inflight \cup {"unindex"})'
          BY <2>3, <3>1 DEF At
        <4> QED BY <1>4, <1>9, <2>1, <4>1, <4>2 DEF Sound, LeavesAlone
      <3>3. Arriving(d) => Arriving(d)'
        <4>1. ~At(t, d, {"meta", "insert"})
          BY <2>1 DEF At
        <4> QED BY <1>9, <4>1 DEF Arriving
      <3>4. ReadsIndexed(d)'
        BY <1>4, <1>9, <2>1, <3>1, <3>3 DEF Sound, ReadsIndexed, At
      <3>5. PublishHolds(d)'
        BY <1>2, <1>4, <1>9, <2>1, <3>1 DEF Sound, PublishHolds, At
      <3> QED BY <1>4, <2>1, <3>2, <3>3, <3>4, <3>5 DEF Sound, FilesIndexed, SettledKept
    <2> QED BY <1>12, <2>2, <2>3 DEF CheckBudget
  <1>13. CASE Rename(t)
    <2>1. /\ thread[t].pc = "rename" /\ Dig(t) \in Digests
          /\ thread'[t].pc = "meta" /\ thread'[t].dig = Dig(t)
      BY <1>1, <1>7, <1>13, DigTyped DEF Rename, Dig
    <2>2. CASE d # Dig(t)
      <3>1. payload'[d] = payload[d] /\ UNCHANGED <<meta, index, settled, taken>>
        BY <1>1, <1>13, <2>2 DEF Rename, TypeOK, memory, history
      <3>2. \A pcs : ~At(t, d, pcs) /\ ~At(t, d, pcs)'
        BY <2>1, <2>2 DEF At, Dig
      <3>3. LeavesAlone(d)'
        <4>1. LeavesAlone(d)
          BY <1>4 DEF Sound
        <4> QED BY <1>9, <3>1, <3>2, <4>1, StillLeftAlone
      <3>4. Arriving(d) => Arriving(d)'
        BY <1>9, <3>2 DEF Arriving
      <3>5. ReadsIndexed(d)'
        BY <1>4, <1>9, <3>1, <3>2, <3>4 DEF Sound, ReadsIndexed
      <3>6. PublishHolds(d)'
        BY <1>2, <1>4, <1>9, <3>1, <3>2 DEF Sound, PublishHolds
      <3> QED BY <1>4, <3>1, <3>3, <3>4, <3>5, <3>6 DEF Sound, FilesIndexed, SettledKept
    <2>3. CASE d = Dig(t)
      <3>1. payload'[d] # "none" /\ UNCHANGED <<meta, index, settled, taken>>
        BY <1>1, <1>13, <2>3 DEF Rename, TypeOK, ThreadControl, memory, history
      <3>2. At(t, d, Inflight) /\ At(t, d, {"meta"})'
        BY <2>1, <2>3 DEF At, Dig, Inflight
      <3>3. \A u \in Threads : ~At(u, d, {"unindex"})'
        BY <1>4, <1>9, <2>1, <2>3, <3>2 DEF Sound, LeavesAlone, At, Inflight
      <3>4. Arriving(d)'
        BY <3>2 DEF Arriving, At
      <3>5. PublishHolds(d)'
        BY <1>2, <1>4, <1>9, <2>1, <3>1 DEF Sound, PublishHolds, At
      <3> QED BY <1>4, <3>1, <3>3, <3>4, <3>5
              DEF Sound, LeavesAlone, ReadsIndexed, FilesIndexed, SettledKept, At
    <2> QED BY <2>2, <2>3
  <1>14. CASE WriteMetadata(t)
    <2>1. /\ thread[t].pc = "meta" /\ Dig(t) \in Digests
          /\ thread'[t].pc = "insert" /\ thread'[t].dig = Dig(t)
          /\ UNCHANGED <<payload, index, settled, taken>>
      BY <1>1, <1>7, <1>14, DigTyped DEF WriteMetadata, Dig, memory, history
    <2>2. meta'[d] = IF d = Dig(t) THEN TRUE ELSE meta[d]
      BY <1>1, <1>14, <2>1 DEF WriteMetadata, TypeOK
    <2>3. LeavesAlone(d)'
      <3>1. \A u \in Threads : At(u, d, {"unindex"})' => u # t /\ At(u, d, {"unindex"})
        BY <1>9, <2>1 DEF At
      <3>2. At(t, d, Inflight \cup {"unindex"})' => At(t, d, Inflight \cup {"unindex"})
        BY <2>1 DEF At, Dig, Inflight
      <3> QED BY <1>4, <1>9, <2>1, <3>1, <3>2 DEF Sound, LeavesAlone
    <2>4. Arriving(d) => Arriving(d)'
      <3>1. At(t, d, {"meta", "insert"}) => At(t, d, {"meta", "insert"})'
        BY <2>1 DEF At, Dig
      <3> QED BY <1>9, <3>1 DEF Arriving
    <2>5. ReadsIndexed(d)'
      BY <1>4, <1>9, <2>1, <2>4 DEF Sound, ReadsIndexed, At
    <2>6. PublishHolds(d)'
      BY <1>2, <1>4, <1>9, <2>1, <2>2 DEF Sound, PublishHolds, At, Dig
    <2>7. FilesIndexed(d)'
      <3>1. d = Dig(t) => Arriving(d)'
        BY <2>1 DEF Arriving, At, Dig
      <3> QED BY <1>4, <2>1, <2>2, <2>4, <3>1 DEF Sound, FilesIndexed
    <2> QED BY <1>4, <2>1, <2>2, <2>3, <2>5, <2>6, <2>7 DEF Sound, SettledKept
  <1>15. CASE MetadataFails(t)
    <2>1. /\ thread[t].pc = "meta" /\ Dig(t) \in Digests /\ thread'[t].pc = "idle"
          /\ UNCHANGED <<meta, index, settled, taken>>
          /\ payload' = [payload EXCEPT ![Dig(t)] = "none"]
      BY <1>1, <1>8, <1>15, DigTyped DEF MetadataFails, Removed, memory
    <2>2. CASE d # Dig(t)
      <3>1. payload'[d] = payload[d]
        BY <1>1, <2>1, <2>2 DEF TypeOK
      <3>2. LeavesAlone(d)'
        <4>1. LeavesAlone(d)
          BY <1>4 DEF Sound
        <4>2. ~At(t, d, {"unindex"})' /\ ~At(t, d, Inflight \cup {"unindex"})'
          BY <2>1 DEF At, Inflight
        <4> QED BY <1>9, <2>1, <3>1, <4>1, <4>2, StillLeftAlone
      <3>3. Arriving(d) => Arriving(d)'
        BY <1>9, <2>1, <2>2 DEF Arriving, At, Dig
      <3>4. ReadsIndexed(d)'
        BY <1>4, <1>9, <2>1, <3>1, <3>3 DEF Sound, ReadsIndexed, At
      <3>5. PublishHolds(d)'
        BY <1>2, <1>4, <1>9, <2>1, <3>1 DEF Sound, PublishHolds, At
      <3> QED BY <1>4, <2>1, <3>1, <3>2, <3>3, <3>4, <3>5 DEF Sound, FilesIndexed, SettledKept
    <2>3. CASE d = Dig(t)
      <3>1. /\ payload'[d] = "none" /\ d \notin index
            /\ \A u \in Threads \ {t} : ~Publishing(u, d)
        BY <1>1, <1>15, <2>1, <2>3 DEF TypeOK, MetadataFails, Removed
      <3>2. \A u \in Threads \ {t} : thread[u].dig = d /\ thread[u].pc \in Inflight => FALSE
        BY <1>1, <3>1 DEF Publishing, ThreadControl, Inflight
      <3>3. \A u \in Threads : ~At(u, d, {"unindex"} \cup Inflight)'
        <4>1. ~At(t, d, {"unindex"} \cup Inflight)' /\ At(t, d, Inflight \cup {"unindex"})
          BY <2>1, <2>3 DEF At, Inflight, Dig
        <4>2. LeavesAlone(d)
          BY <1>4 DEF Sound
        <4>3. ASSUME NEW u \in Threads, u # t
              PROVE  ~At(u, d, {"unindex"} \cup Inflight)
          <5>1. ~At(u, d, {"unindex"})
            BY <4>1, <4>2, <4>3 DEF LeavesAlone
          <5>2. ~At(u, d, Inflight)
            BY <3>2, <4>3 DEF At
          <5> QED BY <5>1, <5>2 DEF At
        <4> QED BY <1>9, <4>1, <4>3
      <3>4. LeavesAlone(d)'
        BY <3>3 DEF LeavesAlone, At
      <3>5. PublishHolds(d)'
        BY <1>2, <2>1, <3>1, <3>3 DEF PublishHolds, At, Publishing, Inflight
      <3> QED BY <1>4, <2>1, <3>1, <3>4, <3>5 DEF Sound, ReadsIndexed, FilesIndexed, SettledKept
    <2> QED BY <2>2, <2>3
  <1>16. CASE Insert(t)
    <2>1. /\ thread[t].pc = "insert" /\ Dig(t) \in Digests /\ thread'[t].pc = "idle"
          /\ UNCHANGED <<payload, meta>> /\ settled' \ taken' = (settled \ taken) \cup {Dig(t)}
          /\ index' = index \cup {Dig(t)}
      BY <1>1, <1>8, <1>16, DigTyped DEF Insert, files
    <2>2. LeavesAlone(d)'
      BY <1>4, <1>9, <2>1 DEF Sound, LeavesAlone, At, Inflight, Dig
    <2>3. Arriving(d) => Arriving(d)' \/ d \in index'
      BY <1>9, <2>1 DEF Arriving, At, Dig
    <2>4. ReadsIndexed(d)'
      BY <1>4, <1>9, <2>1, <2>3 DEF Sound, ReadsIndexed, At
    <2>5. PublishHolds(d)'
      BY <1>2, <1>4, <1>9, <2>1 DEF Sound, PublishHolds, At, Dig
    <2>6. SettledKept(d)'
      BY <1>4, <2>1 DEF Sound, SettledKept, PublishHolds, At, Dig
    <2> QED BY <1>4, <2>1, <2>2, <2>3, <2>4, <2>5, <2>6 DEF Sound, FilesIndexed
  <1>17. CASE Restore(t)
    <2>1. /\ thread[t].pc = "restore" /\ Dig(t) \in Digests /\ thread'[t].pc = "idle"
          /\ UNCHANGED <<payload, index>> /\ settled' \ taken' = (settled \ taken) \cup {Dig(t)}
          /\ meta' = [meta EXCEPT ![Dig(t)] = TRUE] /\ thread[t].for = "publish"
      BY <1>1, <1>8, <1>17, DigTyped DEF Restore, memory, ThreadControl
    <2>2. meta'[d] = IF d = Dig(t) THEN TRUE ELSE meta[d]
      BY <1>1, <2>1 DEF TypeOK
    <2>3. d = Dig(t) => d \in index /\ payload[d] # "none"
      BY <1>4, <2>1 DEF Sound, PublishHolds, At, Dig
    <2>4. LeavesAlone(d)'
      <3>1. LeavesAlone(d)
        BY <1>4 DEF Sound
      <3>2. ~At(t, d, {"unindex"})' /\ ~At(t, d, Inflight \cup {"unindex"})'
        BY <2>1 DEF At, Inflight
      <3> QED BY <1>9, <2>1, <3>1, <3>2, StillLeftAlone
    <2>5. Arriving(d) => Arriving(d)'
      BY <1>9, <2>1 DEF Arriving, At
    <2>6. ReadsIndexed(d)'
      BY <1>4, <1>9, <2>1, <2>5 DEF Sound, ReadsIndexed, At
    <2>7. PublishHolds(d)'
      BY <1>2, <1>4, <1>9, <2>1, <2>2 DEF Sound, PublishHolds, At
    <2>8. FilesIndexed(d)' /\ SettledKept(d)'
      BY <1>4, <2>1, <2>2, <2>3, <2>5 DEF Sound, FilesIndexed, SettledKept
    <2> QED BY <2>4, <2>6, <2>7, <2>8 DEF Sound
  <1> QED
    BY <1>5, <1>10, <1>11, <1>12, <1>13, <1>14, <1>15, <1>16, <1>17 DEF Publish

\* So do reading, verifying and quarantining.
LEMMA ReadSound ==
  ASSUME IInv, StoreAssumption, NEW t \in Threads, Read(t),
         NEW d \in Digests, d \notin raced'
  PROVE  Sound(d)'
  <1>1. TypeOK /\ ThreadControl /\ thread \in [Threads -> ThreadType]
    BY DEF IInv, TypeOK, ThreadType
  <1>2. \A u \in Threads \ {t} : thread'[u] = thread[u]
    BY <1>1, ThreadSteps
  <1>3. d \notin raced
    BY DEF Read, StartRead, StartVerify, OpenReader, ReadChunk, ReadFails, Close, Quarantine,
           Unindex, Removed, history
  <1>4. Sound(d)
    BY <1>3 DEF IInv
  <1>5. Done(t) => thread'[t].pc = "idle"
    BY <1>1, DoneType DEF Idle
  <1>6. ASSUME NEW p \in {"failed", "quarantine", "unindex"}, Goto(t, p)
        PROVE  thread'[t].pc = p /\ thread'[t].dig = thread[t].dig
    <2>1. thread[t] \in ThreadType /\ thread'[t] = [thread[t] EXCEPT !.pc = p]
      BY <1>1, <1>6 DEF Goto
    <2> DEFINE r == thread[t]
    <2>2. r \in ThreadType /\ thread'[t] = [r EXCEPT !.pc = p]
      BY <2>1
    <2> HIDE DEF r
    <2>3. thread'[t].pc = p /\ thread'[t].dig = r.dig
      BY <2>2 DEF ThreadType
    <2> QED BY <2>3 DEF r
  <1>7. \A pcs : \A u \in Threads : u # t => (At(u, d, pcs)' <=> At(u, d, pcs))
    BY <1>2 DEF At
  <1>8. CASE \/ \E e \in Digests : \E offset \in 0 .. Size[e] - 1 : StartRead(t, e, offset)
             \/ \E e \in Digests : StartVerify(t, e)
    <2>1. thread[t].pc = "idle" /\ thread'[t].pc = "open"
      BY <1>1, <1>8 DEF StartRead, StartVerify, Idle
    <2>2. UNCHANGED <<payload, meta, index, settled, taken>>
      BY <1>8 DEF StartRead, StartVerify, files, memory, history
    <2> QED BY <1>2, <1>4, <2>1, <2>2, SoundWhenMoved DEF At, Inflight
  <1>9. CASE OpenReader(t)
    <2>1. thread[t].pc = "open" /\ UNCHANGED <<payload, meta, index, settled, taken>>
      BY <1>9 DEF OpenReader, files, memory, history
    <2>2. CASE Done(t)
      BY <1>2, <1>4, <1>5, <2>1, <2>2, SoundWhenMoved DEF At, Inflight
    <2>3. CASE ~Done(t)
      <3>1. /\ Dig(t) \in index /\ payload[Dig(t)] # "none"
            /\ thread' = [thread EXCEPT ![t].pc = "reading", ![t].bytes = payload[Dig(t)],
                                        ![t].reader = NewReader]
        BY <1>9, <2>3 DEF OpenReader
      <3>2. thread'[t].pc = "reading" /\ thread'[t].dig = Dig(t)
        BY <1>1, <3>1 DEF ThreadType, Dig
      <3> QED BY <1>2, <1>4, <2>1, <3>1, <3>2, SoundWhenMoved DEF At, Inflight
    <2> QED BY <2>2, <2>3
  <1>10. CASE ReadChunk(t)
    <2>1. /\ thread[t].pc = "reading" /\ UNCHANGED <<payload, meta, index, settled, taken>>
          /\ thread'[t].pc \in {"reading", "restore", "done"}
          /\ thread'[t].dig = thread[t].dig /\ thread'[t].for = thread[t].for
      BY <1>1, <1>10 DEF ReadChunk, files, memory, history, ThreadType
    <2> QED BY <1>2, <1>4, <2>1, SoundWhenMoved DEF At, Inflight
  <1>11. CASE ReadFails(t)
    <2>1. /\ thread[t].pc = "reading" /\ UNCHANGED <<payload, meta, index, settled, taken>>
          /\ thread'[t].pc \in {"failed", "quarantine"} /\ thread'[t].dig = thread[t].dig
      BY <1>6, <1>11 DEF ReadFails, files, memory, history
    <2> QED BY <1>2, <1>4, <2>1, SoundWhenMoved DEF At, Inflight
  <1>12. CASE Close(t)
    <2>1. /\ thread[t].pc \in {"done", "failed"} /\ UNCHANGED <<payload, meta, index, settled, taken>>
          /\ thread'[t].pc = "idle"
      BY <1>5, <1>12 DEF Close, files, memory, history
    <2> QED BY <1>2, <1>4, <2>1, SoundWhenMoved DEF At, Inflight
  <1>13. CASE Quarantine(t) /\ payload[Dig(t)] = "none"
    <2>1. /\ thread[t].pc = "quarantine" /\ UNCHANGED <<payload, meta, index, settled, taken>>
          /\ thread'[t].pc = "idle"
      BY <1>5, <1>13 DEF Quarantine, memory
    <2> QED BY <1>2, <1>4, <2>1, SoundWhenMoved DEF At, Inflight
  <1>14. CASE Quarantine(t) /\ payload[Dig(t)] # "none"
    <2>1. /\ thread[t].pc = "quarantine" /\ Dig(t) \in Digests
          /\ thread'[t].pc = "unindex" /\ thread'[t].dig = Dig(t)
          /\ UNCHANGED <<meta, index>> /\ settled' \ taken' = (settled \ taken) \ {Dig(t)}
          /\ payload' = [payload EXCEPT ![Dig(t)] = "none"]
      <3>1. payload[Dig(t)] \in {"good", "bad"} /\ Dig(t) \in Digests
        BY <1>1, <1>14, DigTyped DEF Quarantine, TypeOK
      <3>2. settled' \ taken' = (settled \ taken) \ {Dig(t)}
        BY <1>14, <3>1 DEF Quarantine
      <3> QED BY <1>1, <1>6, <1>14, <3>1, <3>2 DEF Quarantine, Removed, memory, Dig
    <2>2. CASE d # Dig(t)
      <3>1. payload'[d] = payload[d] /\ (d \in settled' \ taken' <=> d \in settled \ taken)
        BY <1>1, <2>1, <2>2 DEF TypeOK
      <3>2. \A pcs : ~At(t, d, pcs) /\ ~At(t, d, pcs)'
        BY <2>1, <2>2 DEF At, Dig
      <3>3. LeavesAlone(d)'
        BY <1>4, <1>7, <2>1, <3>1, <3>2 DEF Sound, LeavesAlone
      <3>4. Arriving(d) => Arriving(d)'
        BY <1>7, <3>2 DEF Arriving
      <3>5. ReadsIndexed(d)'
        BY <1>4, <1>7, <2>1, <3>1, <3>2, <3>4 DEF Sound, ReadsIndexed
      <3>6. PublishHolds(d)'
        BY <1>2, <1>4, <1>7, <2>1, <3>1, <3>2 DEF Sound, PublishHolds
      <3> QED BY <1>4, <2>1, <3>1, <3>3, <3>4, <3>5, <3>6 DEF Sound, FilesIndexed, SettledKept
    <2>3. CASE d = Dig(t)
      <3>1. /\ payload'[d] = "none" /\ d \notin settled' \ taken'
            /\ \A u \in Threads \ {t} : ~Publishing(u, d)
        BY <1>1, <1>14, <2>1, <2>3 DEF TypeOK, Quarantine, Removed
      <3>2. \A u \in Threads \ {t} : ~At(u, d, Inflight)
        BY <1>1, <3>1 DEF Publishing, ThreadControl, Inflight, At
      <3>3. ~Arriving(d)
        BY <2>1, <3>2 DEF Arriving, At, Inflight
      <3>4. d \in index
        BY <1>4, <1>14, <2>1, <2>3, <3>3 DEF Sound, ReadsIndexed, At, Dig
      <3>5. \A u \in Threads : ~At(u, d, {"unindex"})
        BY <1>4, <1>14, <2>3 DEF Sound, LeavesAlone
      <3>6. LeavesAlone(d)'
        <4>1. \A u \in Threads \ {t} : ~At(u, d, Inflight \cup {"unindex"})'
          BY <1>7, <3>2, <3>5 DEF At
        <4> QED BY <2>1, <3>1, <3>4, <4>1 DEF LeavesAlone, At
      <3>7. PublishHolds(d)'
        BY <1>2, <2>1, <3>1, <3>2 DEF PublishHolds, At, Publishing, Inflight
      <3> QED BY <3>1, <3>6, <3>7 DEF Sound, ReadsIndexed, FilesIndexed, SettledKept
    <2> QED BY <2>2, <2>3
  <1>15. CASE Unindex(t)
    <2>1. /\ thread[t].pc = "unindex" /\ Dig(t) \in Digests /\ thread'[t].pc = "idle"
          /\ UNCHANGED <<payload, meta, settled, taken>>
          /\ index' = index \ {Dig(t)}
      BY <1>1, <1>5, <1>15, DigTyped DEF Unindex, files, memory, history
    <2>2. \A pcs : "idle" \notin pcs => ~At(t, d, pcs)'
      BY <2>1 DEF At
    <2>3. Arriving(d) => Arriving(d)'
      <3>1. ~At(t, d, {"meta", "insert"})
        BY <2>1 DEF At
      <3> QED BY <1>7, <3>1 DEF Arriving
    <2>4. CASE d # Dig(t)
      <3>1. d \in index' <=> d \in index
        BY <2>1, <2>4
      <3>2. LeavesAlone(d)'
        <4>1. \A u \in Threads : At(u, d, {"unindex"})' => u # t
          BY <2>2
        <4>2. ~At(t, d, Inflight \cup {"unindex"})'
          BY <2>2 DEF Inflight
        <4> QED BY <1>4, <1>7, <2>1, <3>1, <4>1, <4>2 DEF Sound, LeavesAlone
      <3>3. ReadsIndexed(d)'
        BY <1>4, <1>7, <2>1, <2>2, <2>3, <3>1 DEF Sound, ReadsIndexed
      <3>4. PublishHolds(d)'
        BY <1>2, <1>4, <1>7, <2>1, <2>2, <3>1 DEF Sound, PublishHolds
      <3> QED BY <1>4, <2>1, <2>3, <3>1, <3>2, <3>3, <3>4 DEF Sound, FilesIndexed, SettledKept
    <2>5. CASE d = Dig(t)
      <3>1. At(t, d, {"unindex"})
        BY <2>1, <2>5 DEF At, Dig
      <3>2. payload[d] = "none" /\ \A u \in Threads \ {t} : ~At(u, d, Inflight \cup {"unindex"})
        BY <1>4, <3>1 DEF Sound, LeavesAlone
      <3>3. \A u \in Threads : ~At(u, d, Inflight \cup {"unindex"})'
        BY <1>7, <2>2, <3>2 DEF Inflight
      <3>4. LeavesAlone(d)'
        BY <3>3 DEF LeavesAlone, At
      <3>5. PublishHolds(d)'
        BY <1>2, <1>4, <1>7, <2>1, <2>2, <3>2, <3>3 DEF Sound, PublishHolds, At, Inflight
      <3> QED BY <1>4, <2>1, <2>5, <3>2, <3>4, <3>5 DEF Sound, ReadsIndexed, FilesIndexed, SettledKept
    <2> QED BY <2>4, <2>5
  <1> QED
    BY <1>8, <1>9, <1>10, <1>11, <1>12, <1>13, <1>14, <1>15 DEF Read

-----------------------------------------------------------------------------
(* The budget.                                                             *)

LEMMA ReservedType ==
  ASSUME TypeOK, ThreadControl, StoreAssumption
  PROVE  Reserved \in SUBSET Digests
  BY DEF TypeOK, ThreadControl, Reserved, Inflight

\* What was within the budget stays so when nothing is added.
LEMMA Smaller ==
  ASSUME StoreAssumption, NEW S \in SUBSET Digests, NEW T \in SUBSET S,
         Total(Size, S) <= MaxTotalBytes, Cardinality(S) <= MaxArtifacts
  PROVE  Total(Size, T) <= MaxTotalBytes /\ Cardinality(T) <= MaxArtifacts
  <1>1. IsFiniteSet(S)
    BY SizeFacts, FS_Subset
  <1>2. IsFiniteSet(T) /\ Cardinality(T) <= Cardinality(S)
    BY <1>1, FS_Subset
  <1>3. Cardinality(S) \in Nat /\ Cardinality(T) \in Nat
    BY <1>1, <1>2, FS_CardinalityType
  <1>4. Total(Size, T) <= Total(Size, S)
    BY SizeFacts, TotalMonotone
  <1>5. T \in SUBSET Digests
    OBVIOUS
  <1>6. Total(Size, T) \in Nat /\ Total(Size, S) \in Nat
    BY <1>5, SizeFacts, TotalIsNat
  <1> QED
    BY <1>2, <1>3, <1>4, <1>6 DEF StoreAssumption

\* A step of a thread keeps the account of what was admitted against the
\* budget.
LEMMA StepBudget ==
  ASSUME IInv, StoreAssumption, NEW t \in Threads, Publish(t) \/ Read(t)
  PROVE  Budgeted'
  <1>1. TypeOK /\ ThreadControl /\ thread \in [Threads -> ThreadType] /\ Budgeted /\ Accounting
    BY DEF IInv, TypeOK, ThreadType
  <1>2. \A u \in Threads \ {t} : thread'[u] = thread[u]
    BY <1>1, ThreadSteps
  <1>3. TypeOK' /\ ThreadControl'
    BY StepTypes
  <1>4. Reserved \in SUBSET Digests /\ Reserved' \in SUBSET Digests
    <2>1. Reserved \in SUBSET Digests
      BY <1>1, ReservedType
    <2>2. \A u \in Threads : thread'[u].pc \in Inflight => thread'[u].dig \in Digests
      BY <1>3 DEF ThreadControl, Inflight
    <2>3. index' \subseteq Digests
      BY <1>3 DEF TypeOK
    <2> QED BY <2>1, <2>2, <2>3 DEF Reserved, Inflight
  <1>5. raced' = {} => raced = {}
    <2>1. CASE MetadataFails(t) \/ Quarantine(t)
      <3>1. UNCHANGED raced \/ raced' \in {raced, raced \cup {Dig(t)}}
        BY <2>1 DEF MetadataFails, Quarantine, Removed
      <3> QED BY <3>1
    <2>2. CASE ~(MetadataFails(t) \/ Quarantine(t))
      <3>1. UNCHANGED raced
        BY <2>2 DEF Publish, Read, Stage, CheckBudget, Rename, RenameFails, WriteMetadata,
             Insert, Restore, RestoreFails, StartRead, StartVerify, OpenReader, ReadChunk,
             ReadFails, Close, Unindex, history
      <3> QED BY <3>1
    <2> QED BY <2>1, <2>2
  <1>6. ASSUME crowded' = crowded, Reserved' \subseteq Reserved,
               thread'[t].pc \in Inflight => thread[t].pc \in Inflight
        PROVE  Budgeted'
    <2>1. ASSUME ~crowded', NEW u \in Threads, NEW v \in Threads,
                 thread'[u].pc \in Inflight, thread'[v].pc \in Inflight
          PROVE  u = v
      BY <1>1, <1>2, <1>6, <2>1 DEF Budgeted
    <2>2. ASSUME ~crowded', raced' = {}
          PROVE  Total(Size, Reserved') <= MaxTotalBytes /\ Cardinality(Reserved') <= MaxArtifacts
      <3>1. Total(Size, Reserved) <= MaxTotalBytes /\ Cardinality(Reserved) <= MaxArtifacts
        BY <1>1, <1>5, <1>6, <2>2 DEF Budgeted
      <3> QED BY <1>4, <1>6, <3>1, Smaller
    <2> QED BY <2>1, <2>2 DEF Budgeted, Inflight
  <1>7. ASSUME crowded' = crowded, index' \subseteq Reserved,
               thread'[t].pc \in Inflight => thread[t].pc \in Inflight /\ thread'[t].dig = thread[t].dig
        PROVE  Budgeted'
    <2>1. Reserved' \subseteq Reserved
      BY <1>2, <1>7 DEF Reserved
    <2> QED BY <1>6, <1>7, <2>1
  <1>8. CASE Insert(t)
    <2>1. thread'[t].pc = "idle"
      BY <1>1, <1>8, DoneType DEF Insert, Idle
    <2>2. index' \subseteq Reserved
      BY <1>8 DEF Insert, Reserved, Dig, Inflight
    <2> QED BY <1>7, <1>8, <2>1, <2>2 DEF Insert, Inflight
  <1>9. CASE CheckBudget(t) /\ Goto(t, "rename")
    <2> DEFINE d == Dig(t)
               others == {u \in Threads \ {t} : thread[u].pc \in Inflight}
    <2>1. /\ d \notin index /\ ~Full(d) /\ crowded' = (crowded \/ others # {})
          /\ UNCHANGED index /\ thread[t].pc = "budget"
      <3>1. thread[t].pc = "budget" /\ thread'[t].pc = "rename"
        BY <1>1, <1>9 DEF CheckBudget, Goto, ThreadType
      <3>2. ~Goto(t, "open") /\ ~Done(t)
        BY <1>1, <3>1 DEF Goto, Done, Idle, ThreadType
      <3> QED BY <1>9, <3>1, <3>2 DEF CheckBudget, Inflight, memory
    <2>2. thread'[t].pc = "rename" /\ thread'[t].dig = d /\ d \in Digests
      BY <1>1, <1>9, <2>1, DigTyped DEF Goto, ThreadType, Dig
    <2>3. ASSUME ~crowded'
          PROVE  /\ \A u \in Threads \ {t} : thread[u].pc \notin Inflight
                 /\ Reserved' = index \cup {d}
      <3>1. others = {}
        BY <2>1, <2>3
      <3>2. \A u \in Threads \ {t} : thread[u].pc \notin Inflight
        BY <3>1
      <3>3. \A u \in Threads : thread'[u].pc \in Inflight <=> u = t
        BY <1>2, <2>2, <3>2 DEF Inflight
      <3>4. Reserved' = index' \cup {thread'[t].dig}
        BY <3>3 DEF Reserved, Inflight
      <3> QED BY <2>1, <2>2, <3>2, <3>4
    <2>4. Total(Size, index \cup {d}) <= MaxTotalBytes
      <3>1. /\ used = Total(Size, index) /\ used \in Nat /\ index \in SUBSET Digests
        BY <1>1, BytesTotal DEF Accounting, TypeOK
      <3>2. Total(Size, index \cup {d}) = Size[d] + used
        BY <2>1, <2>2, <3>1, SizeFacts, TotalAdd
      <3>3. used <= MaxTotalBytes - Size[d] /\ Size[d] \in Nat /\ MaxTotalBytes \in Nat
        <4>1. Size[d] \in Nat /\ MaxTotalBytes \in Nat
          BY <2>2, SizeFacts DEF StoreAssumption
        <4>2. ~(used > MaxTotalBytes - Size[d])
          BY <2>1 DEF Full
        <4> QED BY <3>1, <4>1, <4>2
      <3> QED BY <3>1, <3>2, <3>3
    <2>5. Cardinality(index \cup {d}) <= MaxArtifacts
      <3>1. index \in SUBSET Digests /\ MaxArtifacts \in Nat
        BY <1>1 DEF TypeOK, StoreAssumption
      <3>2. IsFiniteSet(index)
        BY <3>1, SizeFacts, FS_Subset
      <3>3. Cardinality(index) \in Nat /\ Cardinality(index \cup {d}) = Cardinality(index) + 1
        BY <2>1, <3>2, FS_CardinalityType, FS_AddElement
      <3>4. ~(Cardinality(index) >= MaxArtifacts)
        BY <2>1 DEF Full
      <3> QED BY <3>1, <3>3, <3>4
    <2>6. ASSUME ~crowded', NEW u \in Threads, NEW v \in Threads,
                 thread'[u].pc \in Inflight, thread'[v].pc \in Inflight
          PROVE  u = v
      BY <1>2, <2>3, <2>6
    <2> QED BY <2>3, <2>4, <2>5, <2>6 DEF Budgeted, Inflight
  <1>10. CASE ~Insert(t) /\ ~(CheckBudget(t) /\ Goto(t, "rename"))
    <2>1. index' \subseteq index /\ crowded' = crowded
      BY <1>10 DEF Publish, Read, Stage, CheckBudget, Rename, RenameFails, WriteMetadata,
           MetadataFails, Restore, RestoreFails, StartRead, StartVerify, OpenReader, ReadChunk,
           ReadFails, Close, Quarantine, Unindex, history, memory
    <2>2. thread'[t].pc \in Inflight => thread[t].pc \in Inflight /\ thread'[t].dig = thread[t].dig
      <3>1. Done(t) => thread'[t].pc \notin Inflight
        BY <1>1, DoneType DEF Idle, Inflight
      <3>2. CASE Rename(t) \/ WriteMetadata(t)
        BY <1>1, <3>2 DEF Rename, WriteMetadata, Goto, ThreadType, Inflight
      <3>3. CASE CheckBudget(t) \/ ReadFails(t) \/ Quarantine(t)
        <4>1. Done(t) \/ \E p \in {"open", "failed", "quarantine", "unindex"} : Goto(t, p)
          BY <1>10, <3>3 DEF CheckBudget, ReadFails, Quarantine
        <4>2. \A p : Goto(t, p) => thread'[t] = [thread[t] EXCEPT !.pc = p]
          BY <1>1 DEF Goto
        <4>3. \A p, r : r \in ThreadType => [r EXCEPT !.pc = p].pc = p
          BY DEF ThreadType
        <4>4. \A p : Goto(t, p) => thread'[t].pc = p
          <5> TAKE p
          <5>1. thread[t] \in ThreadType
            BY <1>1
          <5> DEFINE r == thread[t]
          <5>2. r \in ThreadType /\ (Goto(t, p) => thread'[t] = [r EXCEPT !.pc = p])
            BY <4>2, <5>1
          <5> HIDE DEF r
          <5> QED BY <4>3, <5>2
        <4> QED BY <3>1, <4>1, <4>4 DEF Inflight
      <3>4. CASE \/ \E d \in Digests, bytes \in {"good", "bad"} : Stage(t, d, bytes)
                 \/ \E d \in Digests : \E offset \in 0 .. Size[d] - 1 : StartRead(t, d, offset)
                 \/ \E d \in Digests : StartVerify(t, d)
        <4>1. thread'[t].pc \in {"budget", "open"}
          BY <1>1, <3>4 DEF Stage, StartRead, StartVerify, Idle
        <4> QED BY <4>1 DEF Inflight
      <3>5. CASE OpenReader(t) \/ ReadChunk(t)
        <4>1. Done(t) \/ thread'[t].pc \in {"reading", "restore", "done"}
          BY <1>1, <3>5 DEF OpenReader, ReadChunk, ThreadType
        <4> QED BY <3>1, <4>1 DEF Inflight
      <3>6. CASE RenameFails(t) \/ MetadataFails(t) \/ Restore(t) \/ RestoreFails(t)
                 \/ Close(t) \/ Unindex(t)
        BY <3>1, <3>6 DEF RenameFails, MetadataFails, Restore, RestoreFails, Close, Unindex
      <3> QED BY <1>10, <3>2, <3>3, <3>4, <3>5, <3>6 DEF Publish, Read
    <2> QED BY <1>7, <2>1, <2>2 DEF Reserved
  <1> QED
    BY <1>8, <1>9, <1>10

-----------------------------------------------------------------------------
(* What happens to the files and to the process, and the theorems.         *)

\* Damage at rest and the loss of a metadata file keep the invariant.
LEMMA DamageKeeps ==
  ASSUME IInv, StoreAssumption, NEW e \in Digests, DamagePayload(e) \/ LoseMetadata(e)
  PROVE  IInv'
  <1>1. UNCHANGED <<index, used, thread, crowded, raced, taken>>
    BY DEF DamagePayload, LoseMetadata, memory, history
  <1>2. TypeOK'
    <2>1. /\ payload' \in [Digests -> {"none", "good", "bad"}]
          /\ meta' \in [Digests -> BOOLEAN] /\ settled' \subseteq Digests
      BY DEF IInv, TypeOK, DamagePayload, LoseMetadata, history
    <2> QED BY <1>1, <2>1 DEF IInv, TypeOK
  <1>3. ThreadControl' /\ Accounting' /\ Budgeted'
    <2>1. ThreadControl'
      BY <1>1 DEF IInv, ThreadControl
    <2>2. Accounting'
      BY <1>1 DEF IInv, Accounting
    <2>3. Reserved' = Reserved
      BY <1>1 DEF Reserved
    <2>4. Budgeted'
      BY <1>1, <2>3 DEF IInv, Budgeted
    <2> QED BY <2>1, <2>2, <2>4
  <1>4. ASSUME NEW d \in Digests \ raced
        PROVE  Sound(d)'
    <2>1. Sound(d)
      BY <1>4 DEF IInv
    <2>2. \A pcs : \A u \in Threads : At(u, d, pcs)' <=> At(u, d, pcs)
      BY <1>1 DEF At
    <2>3. /\ payload'[d] = "none" <=> payload[d] = "none"
          /\ meta'[d] => meta[d]
          /\ d \in settled' => d \in settled /\ meta'[d] = meta[d]
          /\ meta[d] /\ ~meta'[d] => \A u \in Threads : ~Publishing(u, d)
      BY <1>4 DEF IInv, TypeOK, DamagePayload, LoseMetadata, history
    <2>4. Arriving(d)' <=> Arriving(d)
      BY <2>2 DEF Arriving
    <2>5. LeavesAlone(d)'
      BY <1>1, <2>1, <2>2, <2>3 DEF Sound, LeavesAlone
    <2>6. ReadsIndexed(d)'
      BY <1>1, <2>1, <2>2, <2>3, <2>4 DEF Sound, ReadsIndexed
    <2>7. PublishHolds(d)'
      <3>1. \A u \in Threads : At(u, d, {"insert"}) => Publishing(u, d)
        BY DEF IInv, ThreadControl, At, Publishing
      <3> QED BY <1>1, <2>1, <2>2, <2>3, <3>1 DEF Sound, PublishHolds
    <2>8. FilesIndexed(d)' /\ SettledKept(d)'
      BY <1>1, <2>1, <2>3, <2>4 DEF Sound, FilesIndexed, SettledKept
    <2> QED BY <2>5, <2>6, <2>7, <2>8 DEF Sound
  <1> QED
    BY <1>1, <1>2, <1>3, <1>4 DEF IInv

\* A restart takes what has both files: nothing that was not in the index or
\* on its way there, and everything that was published.
LEMMA RestartKeeps ==
  ASSUME IInv, StoreAssumption, Restart
  PROVE  IInv'
  <1>1. /\ UNCHANGED <<payload, meta, settled, crowded, raced, taken>>
        /\ index' = {d \in Digests : meta[d] /\ payload[d] # "none"}
        /\ used' = Total(Size, index')
    BY BytesTotal DEF Restart, files, history
  <1>2. /\ thread' \in [Threads -> ThreadType]
        /\ \A t \in Threads : thread'[t].pc = "idle"
    BY IdleType DEF Restart, Idle
  <1>3. TypeOK'
    <2>1. used' \in Nat
      BY <1>1, SizeFacts, TotalIsNat
    <2> QED BY <1>1, <1>2, <2>1 DEF IInv, TypeOK, ThreadType
  <1>4. ThreadControl'
    BY <1>2 DEF ThreadControl
  <1>5. Accounting'
    BY DEF Restart, Accounting
  <1>6. ASSUME NEW d \in Digests \ raced
        PROVE  Sound(d)'
    <2>1. \A pcs : \A u \in Threads : "idle" \notin pcs => ~At(u, d, pcs)'
      BY <1>2 DEF At
    <2>2. FilesIndexed(d)' /\ SettledKept(d)'
      BY <1>1, <1>6 DEF IInv, Sound, FilesIndexed, SettledKept
    <2> QED BY <2>1, <2>2 DEF Sound, LeavesAlone, ReadsIndexed, PublishHolds
  <1>7. Budgeted'
    <2>1. Reserved' = index'
      BY <1>2 DEF Reserved, Inflight
    <2>2. ASSUME ~crowded, raced = {}
          PROVE  Total(Size, index') <= MaxTotalBytes /\ Cardinality(index') <= MaxArtifacts
      <3>1. \A d \in Digests : FilesIndexed(d)
        BY <2>2 DEF IInv, Sound
      <3>2. index' \in SUBSET Reserved
        BY <1>1, <3>1 DEF FilesIndexed, Arriving, At, Reserved, Inflight
      <3>3. Reserved \in SUBSET Digests
        BY ReservedType DEF IInv
      <3>4. Total(Size, Reserved) <= MaxTotalBytes /\ Cardinality(Reserved) <= MaxArtifacts
        BY <2>2 DEF IInv, Budgeted
      <3> QED BY <3>2, <3>3, <3>4, Smaller
    <2> QED BY <1>1, <1>2, <2>1, <2>2 DEF Budgeted, Inflight
  <1> QED
    BY <1>1, <1>3, <1>4, <1>5, <1>6, <1>7 DEF IInv

\* A step that changes nothing keeps the invariant.
LEMMA StutterKeeps ==
  ASSUME IInv, UNCHANGED vars
  PROVE  IInv'
  <1>1. UNCHANGED <<payload, meta, index, used, thread, settled, crowded, raced, taken>>
    BY DEF vars, files, memory, history
  <1>2. TypeOK' /\ ThreadControl' /\ Accounting'
    BY <1>1 DEF IInv, TypeOK, ThreadControl, Accounting
  <1>3. \A d \in Digests \ raced : Sound(d)'
    <2> TAKE d \in Digests \ raced
    <2>1. Sound(d)
      BY DEF IInv
    <2> QED BY <1>1, <2>1
            DEF Sound, LeavesAlone, ReadsIndexed, PublishHolds, FilesIndexed, SettledKept, At, Arriving
  <1>4. Reserved' = Reserved
    BY <1>1 DEF Reserved
  <1>5. Budgeted'
    BY <1>1, <1>4 DEF IInv, Budgeted
  <1> QED
    BY <1>1, <1>2, <1>3, <1>5 DEF IInv

\* Every step of the store keeps the invariant.
LEMMA NextKeeps ==
  ASSUME IInv, StoreAssumption, [Next]_vars
  PROVE  IInv'
  <1>1. ASSUME NEW t \in Threads, Publish(t) \/ Read(t)
        PROVE  IInv'
    <2>1. TypeOK' /\ ThreadControl' /\ Accounting'
      BY <1>1, StepTypes
    <2>2. \A d \in Digests \ raced' : Sound(d)'
      BY <1>1, PublishSound, ReadSound
    <2>3. Budgeted'
      BY <1>1, StepBudget
    <2> QED BY <2>1, <2>2, <2>3 DEF IInv
  <1> QED
    BY <1>1, DamageKeeps, RestartKeeps, StutterKeeps DEF Next

\* The inductive invariant, for any threads, artifacts, sizes and budgets.
THEOREM StoreInvariant == Spec => []IInv
  <1>1. Init => IInv
    BY InitIInv, StoreAssumption
  <1>2. IInv /\ [Next]_vars => IInv'
    BY NextKeeps, StoreAssumption
  <1> QED
    BY <1>1, <1>2, PTL DEF Spec

\* The state keeps its types.
THEOREM StoreTypes == Spec => []TypeOK
  <1>1. IInv => TypeOK
    BY DEF IInv
  <1> QED
    BY <1>1, StoreInvariant, PTL

\* usedBytes_ is the sum of the sizes of the index, whatever publishes,
\* quarantines and restarts interleave: the guarded subtraction of quarantine
\* never cuts at zero.
THEOREM StoreAccounting == Spec => []Accounting
  <1>1. IInv => Accounting
    BY DEF IInv
  <1> QED
    BY <1>1, StoreInvariant, PTL

\* The budget is kept unless two publishes passed its check together or a
\* payload was taken away under a publish: the index is part of what has been
\* reserved, and a restart brings back nothing else.
THEOREM StoreBudget == Spec => []BudgetKept
  <1>1. IInv => BudgetKept
    <2> SUFFICES ASSUME IInv, ~crowded, raced = {}
                 PROVE  used <= MaxTotalBytes /\ Cardinality(index) <= MaxArtifacts
      BY DEF BudgetKept
    <2>1. Reserved \in SUBSET Digests
      BY ReservedType, StoreAssumption DEF IInv
    <2>2. Total(Size, Reserved) <= MaxTotalBytes /\ Cardinality(Reserved) <= MaxArtifacts
      BY DEF IInv, Budgeted
    <2>3. index \in SUBSET Reserved
      BY DEF Reserved
    <2>4. Total(Size, index) <= MaxTotalBytes /\ Cardinality(index) <= MaxArtifacts
      BY <2>1, <2>2, <2>3, Smaller, StoreAssumption
    <2>5. used = Total(Size, index)
      BY BytesTotal DEF IInv, Accounting
    <2> QED BY <2>4, <2>5
  <1> QED
    BY <1>1, StoreInvariant, PTL

\* What was published successfully stays in the index with both its files,
\* across restarts, until a damaged payload of it is quarantined or its metadata
\* is lost.  Digests that a race of quarantine has hit are left out: a payload
\* removed under its publish, and a good one renamed by a late quarantine until
\* it is published again.
THEOREM StoreKeepsPublished == Spec => []PublishedIsKept
  <1>1. IInv => PublishedIsKept
    BY DEF IInv, TypeOK, Sound, SettledKept, PublishedIsKept
  <1> QED
    BY <1>1, StoreInvariant, PTL
=============================================================================
