--------------------------- MODULE ArtifactStore ---------------------------
(***************************************************************************)
(* The artifact store of the distributor (src/src/artifact.cpp): content   *)
(* under its digest as a payload file and a metadata file, an index of     *)
(* what is there and the bytes it takes, in memory.  Only the index is     *)
(* behind the mutex; files are read, renamed and removed outside it.       *)
(*                                                                         *)
(* Threads publish (the main thread at start-up and the control thread),   *)
(* verify (the control thread) and read (the workers, at the byte count    *)
(* their target reported).  A staged .part file belongs to its publish and *)
(* is removed at the next open.  Sizes are in chunks.  A reader keeps the  *)
(* content it opened, whatever becomes of the name.                        *)
(*                                                                         *)
(* Checks that refuse an artifact before anything is staged are left out,  *)
(* and so is collectGarbage, which nothing calls.                          *)
(***************************************************************************)
EXTENDS ArtifactReader, FiniteSets, FiniteSetsExt

CONSTANTS
  Digests,
  Size,              \* the size of each artifact; never empty
  MaxTotalBytes,
  MaxArtifacts,
  Threads,
  NoDigest

ASSUME StoreAssumption ==
  /\ IsFiniteSet(Digests) /\ NoDigest \notin Digests
  /\ Size \in [Digests -> Nat \ {0}]
  /\ MaxTotalBytes \in Nat /\ MaxArtifacts \in Nat

VARIABLES
  payload,   \* the payload file of each digest: "none", "good" or "bad"
  meta,      \* is its metadata file there?
  index,     \* index_
  used,      \* usedBytes_
  thread,    \* what each thread does, and how far it is
  settled,   \* history: published successfully; damaged payload not taken away since
  crowded,   \* history: two publishes have passed the budget check together
  raced,     \* history: digests whose payload was removed while being published
  taken      \* history: a late quarantine took a good payload, none published since

files == <<payload, meta>>
memory == <<index, used>>
history == <<settled, crowded, raced, taken>>
vars == <<files, memory, thread, history>>

Idle == [pc |-> "idle", for |-> "none", dig |-> NoDigest, bytes |-> "none",
         reader |-> NewReader, offset |-> 0]

Goto(t, pc) == thread' = [thread EXCEPT ![t].pc = pc]
Done(t) == thread' = [thread EXCEPT ![t] = Idle]

Dig(t) == thread[t].dig
Publishing(t, d) == thread[t].for = "publish" /\ thread[t].dig = d

\* The payload of d goes away: it may be one that another thread publishes.
Removed(t, d, also) ==
  /\ payload' = [payload EXCEPT ![d] = "none"]
  /\ raced' = IF also \/ \E u \in Threads \ {t} : Publishing(u, d) THEN raced \cup {d} ELSE raced

-----------------------------------------------------------------------------
(* ArtifactReader and verify.                                              *)

\* A worker opens an artifact to send it from an offset on.
StartRead(t, d, offset) ==
  /\ thread[t].pc = "idle"
  /\ thread' = [thread EXCEPT ![t] = [Idle EXCEPT !.pc = "open", !.for = "read", !.dig = d,
                                                  !.offset = offset]]
  /\ UNCHANGED <<files, memory, history>>

\* verify, and verifyAll for each digest of the index.
StartVerify(t, d) ==
  /\ thread[t].pc = "idle"
  /\ d \in index
  /\ thread' = [thread EXCEPT ![t] = [Idle EXCEPT !.pc = "open", !.for = "verify", !.dig = d]]
  /\ UNCHANGED <<files, memory, history>>

\* ArtifactReader::open: the artifact is indexed and its file is there.
OpenReader(t) ==
  /\ thread[t].pc = "open"
  /\ IF Dig(t) \in index /\ payload[Dig(t)] # "none"
     THEN thread' = [thread EXCEPT ![t].pc = "reading", ![t].bytes = payload[Dig(t)],
                                   ![t].reader = NewReader]
     ELSE Done(t)
  /\ UNCHANGED <<files, memory, history>>

Mismatch(t) ==
  DigestFails(thread[t].reader, thread[t].offset, 1, Size[Dig(t)], thread[t].bytes = "good")

\* readAt, a chunk at a time; after the last one verify has succeeded.
ReadChunk(t) ==
  LET at == thread[t].offset IN
  /\ thread[t].pc = "reading"
  /\ ~Mismatch(t)
  /\ thread' = [thread EXCEPT
       ![t].offset = at + 1, ![t].reader = AfterRead(@, at, 1),
       ![t].pc = IF at + 1 < Size[Dig(t)] THEN "reading"
                 ELSE IF thread[t].for = "publish" THEN "restore" ELSE "done"]
  /\ UNCHANGED <<files, memory, history>>

\* The digest does not match, or the payload ends early.
ReadFails(t) ==
  /\ thread[t].pc = "reading"
  /\ Mismatch(t) \/ thread[t].bytes = "bad"
  /\ Goto(t, IF thread[t].for = "read" THEN "failed" ELSE "quarantine")
  /\ UNCHANGED <<files, memory, history>>

Close(t) ==
  /\ thread[t].pc \in {"done", "failed"}
  /\ Done(t)
  /\ UNCHANGED <<files, memory, history>>

\* quarantine: whatever is under the name now is renamed, be it the damaged
\* payload that was read or a good one that has replaced it ...
Quarantine(t) ==
  /\ thread[t].pc = "quarantine"
  /\ IF payload[Dig(t)] = "none" THEN Done(t) /\ UNCHANGED <<payload, raced>>
     ELSE Removed(t, Dig(t), FALSE) /\ Goto(t, "unindex")
  /\ settled' = IF payload[Dig(t)] = "bad" THEN settled \ {Dig(t)} ELSE settled
  /\ taken' = IF payload[Dig(t)] = "good" THEN taken \cup {Dig(t)} ELSE taken
  /\ UNCHANGED <<meta, memory, crowded>>

\* Mutant: the bytes are given back whether or not the index had them.
UnindexBlind(t) ==
  /\ thread[t].pc = "unindex"
  /\ used' = used - Size[Dig(t)]
  /\ index' = index \ {Dig(t)}
  /\ Done(t)
  /\ UNCHANGED <<files, history>>

\* ... and leaves the index.
Unindex(t) ==
  /\ thread[t].pc = "unindex"
  /\ IF Dig(t) \in index
     THEN /\ used' = IF used > Size[Dig(t)] THEN used - Size[Dig(t)] ELSE 0
          /\ index' = index \ {Dig(t)}
     ELSE UNCHANGED memory
  /\ Done(t)
  /\ UNCHANGED <<files, history>>

-----------------------------------------------------------------------------
(* ingestFromFile, ingestBytes and publish.                                *)

\* The content is staged and its digest is that of the declaration.  A flush
\* that fails is not noticed in ingestFromFile: what is staged may be short.
Stage(t, d, bytes) ==
  /\ thread[t].pc = "idle"
  /\ thread' = [thread EXCEPT ![t] = [Idle EXCEPT !.pc = "budget", !.for = "publish", !.dig = d,
                                                  !.bytes = bytes]]
  /\ UNCHANGED <<files, memory, history>>

\* Mutant: what is used already is compared with the limit.
FullAfterwards(d) == Cardinality(index) >= MaxArtifacts \/ used > MaxTotalBytes

Full(d) == \/ Cardinality(index) >= MaxArtifacts
           \/ Size[d] > MaxTotalBytes
           \/ used > MaxTotalBytes - Size[d]

\* The budget is checked under the lock, and nothing is reserved; what is
\* there already is verified instead.
CheckBudget(t) ==
  LET d == Dig(t)
      others == {u \in Threads \ {t} : thread[u].pc \in {"rename", "meta", "insert"}} IN
  /\ thread[t].pc = "budget"
  /\ \/ d \in index /\ Goto(t, "open") /\ UNCHANGED crowded
     \/ d \notin index /\ Full(d) /\ Done(t) /\ UNCHANGED crowded
     \/ /\ d \notin index
        /\ ~Full(d)
        /\ Goto(t, "rename")
        /\ crowded' = (crowded \/ others # {})
  /\ UNCHANGED <<files, memory, settled, raced, taken>>

\* Mutant: the metadata is left for later.
RenameOnly(t) ==
  /\ thread[t].pc = "rename"
  /\ payload' = [payload EXCEPT ![Dig(t)] = thread[t].bytes]
  /\ Goto(t, "insert")
  /\ UNCHANGED <<meta, memory, history>>

\* The payload takes its name, over anything that has it.
Rename(t) ==
  /\ thread[t].pc = "rename"
  /\ payload' = [payload EXCEPT ![Dig(t)] = thread[t].bytes]
  /\ Goto(t, "meta")
  /\ UNCHANGED <<meta, memory, history>>

RenameFails(t) ==
  /\ thread[t].pc = "rename"
  /\ Done(t)
  /\ UNCHANGED <<files, memory, history>>

WriteMetadata(t) ==
  /\ thread[t].pc = "meta"
  /\ meta' = [meta EXCEPT ![Dig(t)] = TRUE]
  /\ Goto(t, "insert")
  /\ UNCHANGED <<payload, memory, history>>

\* Without metadata the payload is removed again, even if another publish of
\* the same content has finished.
MetadataFails(t) ==
  /\ thread[t].pc = "meta"
  /\ Removed(t, Dig(t), Dig(t) \in index)
  /\ Done(t)
  /\ UNCHANGED <<meta, memory, settled, crowded, taken>>

\* Mutant: a concurrent publish of the same content is counted again.
InsertAgain(t) ==
  /\ thread[t].pc = "insert"
  /\ index' = index \cup {Dig(t)}
  /\ used' = used + Size[Dig(t)]
  /\ settled' = settled \cup {Dig(t)} /\ taken' = taken \ {Dig(t)}
  /\ Done(t)
  /\ UNCHANGED <<files, crowded, raced>>

\* The index takes the artifact, unless a concurrent publish was first.
Insert(t) ==
  /\ thread[t].pc = "insert"
  /\ index' = index \cup {Dig(t)}
  /\ used' = IF Dig(t) \in index THEN used ELSE used + Size[Dig(t)]
  /\ settled' = settled \cup {Dig(t)} /\ taken' = taken \ {Dig(t)}
  /\ Done(t)
  /\ UNCHANGED <<files, crowded, raced>>

\* What was published before has proved intact; lost metadata is written again.
Restore(t) ==
  /\ thread[t].pc = "restore"
  /\ meta' = [meta EXCEPT ![Dig(t)] = TRUE]
  /\ settled' = settled \cup {Dig(t)} /\ taken' = taken \ {Dig(t)}
  /\ Done(t)
  /\ UNCHANGED <<payload, memory, crowded, raced>>

RestoreFails(t) ==
  /\ thread[t].pc = "restore"
  /\ ~meta[Dig(t)]
  /\ Done(t)
  /\ UNCHANGED <<files, memory, history>>

-----------------------------------------------------------------------------
\* A payload is damaged at rest.
DamagePayload(d) ==
  /\ payload[d] = "good"
  /\ payload' = [payload EXCEPT ![d] = "bad"]
  /\ UNCHANGED <<meta, memory, thread, history>>

\* A metadata file that nobody is writing is lost.
LoseMetadata(d) ==
  /\ meta[d]
  /\ \A t \in Threads : ~Publishing(t, d)
  /\ meta' = [meta EXCEPT ![d] = FALSE]
  /\ settled' = settled \ {d}
  /\ UNCHANGED <<payload, memory, thread, crowded, raced, taken>>

\* What loadIndex counts for the artifacts it takes.
BytesOf(S) == MapThenSumSet(LAMBDA d : Size[d], S)

\* The process dies and opens the store again: loadIndex takes every digest
\* that has both files, whatever its payload holds.
Restart ==
  /\ index' = {d \in Digests : meta[d] /\ payload[d] # "none"}
  /\ used' = BytesOf(index')
  /\ thread' = [t \in Threads |-> Idle]
  /\ UNCHANGED <<files, history>>

Init ==
  /\ payload = [d \in Digests |-> "none"]
  /\ meta = [d \in Digests |-> FALSE]
  /\ index = {} /\ used = 0
  /\ thread = [t \in Threads |-> Idle]
  /\ settled = {} /\ crowded = FALSE /\ raced = {} /\ taken = {}

Publish(t) ==
  \/ \E d \in Digests, bytes \in {"good", "bad"} : Stage(t, d, bytes)
  \/ CheckBudget(t) \/ Rename(t) \/ RenameFails(t) \/ WriteMetadata(t) \/ MetadataFails(t)
  \/ Insert(t) \/ Restore(t) \/ RestoreFails(t)

Read(t) ==
  \/ \E d \in Digests : \E offset \in 0 .. Size[d] - 1 : StartRead(t, d, offset)
  \/ \E d \in Digests : StartVerify(t, d)
  \/ OpenReader(t) \/ ReadChunk(t) \/ ReadFails(t) \/ Close(t) \/ Quarantine(t) \/ Unindex(t)

Next ==
  \/ \E t \in Threads : Publish(t) \/ Read(t)
  \/ \E d \in Digests : DamagePayload(d) \/ LoseMetadata(d)
  \/ Restart

Spec == Init /\ [][Next]_vars

-----------------------------------------------------------------------------
(* Properties.                                                             *)

\* The types of the state.
TypeOK ==
  /\ payload \in [Digests -> {"none", "good", "bad"}]
  /\ meta \in [Digests -> BOOLEAN]
  /\ index \subseteq Digests /\ used \in Nat
  /\ thread \in [Threads ->
       [pc : {"idle", "open", "reading", "done", "failed", "quarantine", "unindex", "budget",
              "rename", "meta", "insert", "restore"},
        for : {"none", "read", "verify", "publish"}, dig : Digests \cup {NoDigest},
        bytes : {"none", "good", "bad"}, reader : Reader, offset : Nat]]
  /\ settled \subseteq Digests /\ crowded \in BOOLEAN
  /\ raced \subseteq Digests /\ taken \subseteq Digests

\* The byte accounting agrees with the index after any interleaving of
\* publishes, quarantines and restarts.
Accounting == used = BytesOf(index)

\* The index stays within the budget, across restarts that rebuild it from the
\* files, unless two publishes passed the check of the budget together (it is
\* checked under the lock but reserved only at the insertion) or a payload was
\* taken away while it was being published.
BudgetKept ==
  ~crowded /\ raced = {} => used <= MaxTotalBytes /\ Cardinality(index) <= MaxArtifacts

\* What was published successfully is there, and would be found again after a
\* crash, until a damaged payload of it is taken away.  Two races of quarantine
\* are left out, by the digests they hit: a payload removed while it was being
\* published, and a good payload renamed by a thread that had read an earlier,
\* damaged one (QuarantineSparesIntact is about those).
PublishedIsKept ==
  \A d \in settled \ (raced \cup taken) : d \in index /\ payload[d] # "none" /\ meta[d]

\* "A corrupted artifact is quarantined": quarantine takes away what is corrupt.
\* What was published and never found damaged keeps its payload.
QuarantineSparesIntact == \A d \in settled \ raced : payload[d] # "none"

\* "Budget is reserved before anything on disk changes": the index is within
\* the budget whoever publishes at the same time.
BudgetReserved == used <= MaxTotalBytes

\* "A controller disconnect mid-transfer resumes from the target's byte
\* count": reading an intact artifact does not fail, from whatever offset.
IntactIsServed ==
  \A t \in Threads : thread[t].pc = "failed" => thread[t].bytes = "bad"
=============================================================================
