------------------------------- MODULE Agent -------------------------------
(***************************************************************************)
(* The target agent (src/src/agent.cpp, class TargetAgent): the process    *)
(* that owns the live configuration area of one target.  Its durable state *)
(* is the AgentState journal plus three kinds of files: one staging file   *)
(* per deployment, and per configuration key a pointer `current`, a marker *)
(* `pending` and a directory of payloads.                                  *)
(*                                                                         *)
(* Every handler of a session is an action.  A handler that makes several  *)
(* durable changes is a chain of actions joined by pc, so that a crash may *)
(* fall between any two of them; no other handler runs in between, because *)
(* an agent serves one session at a time and a session one frame at a      *)
(* time.  The peer is unconstrained: any frame about any deployment may    *)
(* arrive at any time, which covers lost, repeated and reordered requests. *)
(***************************************************************************)
EXTENDS DeploymentSet, Integers, Sequences, FiniteSets

CONSTANTS
  Keys,                 \* configuration keys of the target
  NoKey,
  MaxArtifact,          \* maxArtifactBytes, in chunks
  CheckpointChunks,     \* kTransferCheckpointChunks
  RetainedPayloads,     \* retainedPayloadsPerKey
  MaxFindings,          \* kMaxFindingsPerAgent
  MaxTerm,              \* bound: process starts
  MaxRollbacks          \* bound: rollbacks after which no window is opened

Gens == {d.gen : d \in Deployments}

ASSUME DeploymentsAssumption ==
  Deployments \subseteq [key : Keys, gen : Nat \ {0}, digest : Digests,
                         size : Nat \ {0}, strict : BOOLEAN]
ASSUME NoValueAssumption == NoDeployment \notin Deployments /\ NoKey \notin Keys
ASSUME AtomicAssumption == Atomic \in BOOLEAN
ASSUME BoundsAssumption ==
  /\ MaxArtifact \in Nat \ {0}
  /\ CheckpointChunks \in Nat \ {0}
  /\ RetainedPayloads \in Nat \ {0}
  /\ MaxFindings \in Nat \ {0}
  /\ MaxTerm \in Nat \ {0}
  /\ MaxRollbacks \in Nat
ASSUME NoDigestAssumption == NoDigest \notin Digests

VARIABLES
  \* AgentState: journaled, so it survives a crash.
  term,            \* boot term
  committed,       \* committedGeneration and committedDigest; gen 0 is unset
  prepared,        \* applyPrepared and the deployment holding the window
  xfer,            \* transfers; bytes is the count in memory, saved the
                   \* count in the last checkpoint
  findings,        \* applied findings, oldest first
  applyRollbacks,
  \* Files.
  staging,         \* staging file of each deployment
  payload,         \* payload files of each key
  current,         \* live pointer of each key; gen 0 is absent
  pending,         \* is there a prepare marker in the key's directory
  \* The process.
  pc,
  job,             \* deployment the current handler works on
  scan,            \* key directories recovery has still to visit
  dir,             \* key directory recovery is in
  chunkCounter,    \* chunkCounter_ modulo CheckpointChunks
  acked            \* the delivery acknowledgements the last step sent

journal == <<term, committed, prepared, xfer, findings, applyRollbacks>>
files   == <<staging, payload, current, pending>>
process == <<pc, job, scan, dir, chunkCounter, acked>>
agentVars    == <<journal, files, process>>

Ptr(d) == [gen |-> d.gen, digest |-> d.digest]
NoWindow == [on |-> FALSE, dep |-> NoDeployment]
NoXfer == [open |-> FALSE, bytes |-> 0, saved |-> 0,
           verified |-> FALSE, staged |-> FALSE]
NoFile == [here |-> FALSE, len |-> 0, good |-> 0]

-----------------------------------------------------------------------------
(* Types.                                                                  *)

Pointer == {Unset} \cup [gen : Nat \ {0}, digest : Digests]

\* A staging file of len chunks whose first good chunks are the right bytes.
StagingFile == [here : BOOLEAN, len : Nat, good : Nat]

\* A file in the payload directory of a key.  A payload is named after a
\* generation and a digest, and ok says that it hashes to that digest; a copy
\* that has not been renamed yet has no such name (gen 0).  There are `age`
\* files in the directory that were written later.
PayloadFile == [gen : Nat, digest : Digests \cup {NoDigest}, ok : BOOLEAN, age : Nat]

Transfer == [open : BOOLEAN, bytes : Nat, saved : Nat,
             verified : BOOLEAN, staged : BOOLEAN]

Finding == [key : Keys, gen : Nat \ {0}, digest : Digests]

Window == [on : BOOLEAN, dep : Deployments \cup {NoDeployment}]

\* Stage, ApplyPrepare, ApplyCommit, ApplyAbort and Retire name a deployment
\* and a generation; a faulty peer may send another generation than the
\* deployment's (the stale-commit injection point does).
Instructions == [dep : Deployments, gen : Gens]

HandlerSteps == {"copy", "stage", "window", "unmark", "resolve", "commit", "finding",
                 "prune", "abortNote", "abortResolve"}

Steps == HandlerSteps \cup
         {"down", "serve", "boot", "bootUnmark", "bootResolve", "bootCommit",
          "bootAbort"}

\* Every variable of the agent has the shape AgentState and the directory
\* layout give it; a handler in progress, and only that, has a deployment to
\* work on, and a recovery step on a key directory has its key.
AgentTypeOK ==
  /\ term \in Nat
  /\ committed \in Pointer
  /\ prepared \in Window
  /\ xfer \in [Deployments -> Transfer]
  /\ findings \in Seq(Finding)
  /\ applyRollbacks \in Nat
  /\ staging \in [Deployments -> StagingFile]
  /\ payload \in [Keys -> SUBSET PayloadFile]
  /\ current \in [Keys -> Pointer]
  /\ pending \in [Keys -> BOOLEAN]
  /\ pc \in Steps
  /\ job \in IF pc \in HandlerSteps THEN Deployments ELSE {NoDeployment}
  /\ scan \in SUBSET Keys
  /\ dir \in IF pc \in {"bootUnmark", "bootResolve", "bootCommit"} THEN Keys ELSE {NoKey}
  /\ chunkCounter \in Nat
  /\ acked \in SUBSET Instructions

-----------------------------------------------------------------------------
(* Tests the handlers share.                                               *)

IsSet(p) == p.gen # 0

\* Mutant: the fence is off by one.
StaleOffByOne(g) == IsSet(committed) /\ g + 1 < committed.gen

\* The generation fence: older than what the target has committed.
Stale(g) == IsSet(committed) /\ g < committed.gen

\* Same generation as the committed one, other content.
Conflicting(g, dg) ==
  IsSet(committed) /\ g = committed.gen /\ dg # committed.digest

IsCommitted(g, dg) ==
  IsSet(committed) /\ g = committed.gen /\ dg = committed.digest

Entries == {findings[i] : i \in 1 .. Len(findings)}

\* hashStagingFile: the file is complete and every chunk is the right one.
Hashes(f, d) == f.here /\ f.len = d.size /\ f.good = d.size

Shorter(f, n) ==
  IF f.len <= n THEN f
  ELSE [f EXCEPT !.len = n, !.good = IF f.good < n THEN f.good ELSE n]

\* What destroyTransfer leaves: neither the file nor the record.
DestroyTransfer(d) ==
  /\ staging' = [staging EXCEPT ![d] = NoFile]
  /\ xfer' = [xfer EXCEPT ![d] = NoXfer]

-----------------------------------------------------------------------------
(* Session handlers.                                                       *)

\* PrepareAck or PrepareReject; the order of the tests is the code's.
PrepareCode(d) ==
  IF d.size > MaxArtifact THEN "OversizePayload"
  ELSE IF Stale(d.gen) THEN "StaleGeneration"
  ELSE IF Conflicting(d.gen, d.digest) THEN "GenerationConflict"
  ELSE IF d.strict /\ ~Atomic THEN "GuaranteeUnsupported"
  ELSE IF prepared.on THEN "Busy"
  ELSE IF [key |-> d.key, gen |-> d.gen, digest |-> d.digest] \in Entries
       THEN "DuplicateSuppressed"
  ELSE "Ok"

\* The byte an accepted offer resumes from: a verified artifact is complete,
\* an unverified one resumes from what both the record and the disk hold.
ResumeFrom(d) ==
  LET x == xfer[d]  f == staging[d] IN
  IF ~x.open \/ ~f.here THEN 0
  ELSE IF x.verified THEN IF f.len = d.size THEN d.size ELSE 0
  ELSE IF x.bytes < f.len THEN x.bytes ELSE f.len

\* An accepted offer (re)opens the transfer and checkpoints it.  A verified
\* artifact that is no longer complete on disk is destroyed first.
OnPrepare(d) ==
  LET code == PrepareCode(d)
      lost == xfer[d].open /\ xfer[d].verified /\ ResumeFrom(d) = 0 IN
  /\ pc = "serve"
  /\ acked' = {}
  /\ IF code = "Ok"
     THEN /\ xfer' = [xfer EXCEPT ![d] =
                        [open |-> TRUE, bytes |-> ResumeFrom(d),
                         saved |-> ResumeFrom(d),
                         verified |-> FALSE, staged |-> FALSE]]
          /\ staging' = IF lost THEN [staging EXCEPT ![d] = NoFile] ELSE staging
     ELSE UNCHANGED <<xfer, staging>>
  /\ UNCHANGED <<term, committed, prepared, findings, applyRollbacks, payload,
                 current, pending, pc, job, scan, dir, chunkCounter>>

ChunkCode(d, offset) ==
  IF ~xfer[d].open THEN "NotFound"
  ELSE IF offset # xfer[d].bytes THEN "ReorderedFrame"
  ELSE IF offset + 1 > d.size THEN "SizeMismatch"
  ELSE IF offset # 0 /\ ~staging[d].here THEN "IoFailure"
  ELSE "Ok"

\* The staging file after a chunk is written at offset; offset 0 truncates.
Written(f, offset, good) ==
  IF offset = 0 THEN [here |-> TRUE, len |-> 1, good |-> IF good THEN 1 ELSE 0]
  ELSE [here |-> TRUE,
        len |-> IF f.len > offset THEN f.len ELSE offset + 1,
        good |-> IF f.good < offset THEN f.good
                 ELSE IF good THEN offset + 1 ELSE offset]

\* One chunk of the transfer.  The new count is journaled every
\* CheckpointChunks chunks and at the end, otherwise kept in memory only.
\* The file is flushed to the kernel but not to the device.
OnChunk(d, offset, good) ==
  LET code == ChunkCode(d, offset)
      count == (chunkCounter + 1) % CheckpointChunks
      checkpoint == count = 0 \/ offset + 1 = d.size
      saved == IF checkpoint THEN offset + 1 ELSE xfer[d].saved IN
  /\ pc = "serve"
  /\ acked' = {}
  /\ IF code = "Ok"
     THEN /\ staging' = [staging EXCEPT ![d] = Written(@, offset, good)]
          /\ xfer' = [xfer EXCEPT ![d] =
                        [@ EXCEPT !.bytes = offset + 1, !.saved = saved]]
          /\ chunkCounter' = count
     ELSE UNCHANGED <<staging, xfer, chunkCounter>>
  /\ UNCHANGED <<term, committed, prepared, findings, applyRollbacks, payload,
                 current, pending, pc, job, scan, dir>>

\* Mutant: the length stands for the digest.
CompleteCodeByLength(d) ==
  IF ~xfer[d].open THEN "NotFound"
  ELSE IF xfer[d].bytes # d.size THEN "SizeMismatch"
  ELSE IF ~staging[d].here THEN "DigestMismatch"
  ELSE "Ok"

CompleteCode(d) ==
  IF ~xfer[d].open THEN "NotFound"
  ELSE IF xfer[d].bytes # d.size THEN "SizeMismatch"
  ELSE IF ~Hashes(staging[d], d) THEN "DigestMismatch"
  ELSE "Ok"

\* The staged bytes are hashed.  A mismatch destroys them and is followed by
\* an unsolicited nack; a match is checkpointed.
OnTransferComplete(d) ==
  LET code == CompleteCode(d) IN
  /\ pc = "serve"
  /\ acked' = {}
  /\ \/ /\ code = "Ok"
        /\ xfer' = [xfer EXCEPT ![d].verified = TRUE, ![d].saved = xfer[d].bytes]
        /\ UNCHANGED staging
     \/ code = "DigestMismatch" /\ DestroyTransfer(d)
     \/ code \notin {"Ok", "DigestMismatch"} /\ UNCHANGED <<xfer, staging>>
  /\ UNCHANGED <<term, committed, prepared, findings, applyRollbacks, payload,
                 current, pending, pc, job, scan, dir, chunkCounter>>

StageCode(m) ==
  LET d == m.dep IN
  IF ~xfer[d].open THEN "NotFound"
  ELSE IF ~xfer[d].verified THEN "NotPrepared"
  ELSE IF m.gen # d.gen THEN "Conflict"
  ELSE IF Stale(m.gen) THEN "StaleGeneration"
  ELSE IF ~staging[d].here THEN "ArtifactUnavailable"
  ELSE "Ok"

SameName(f, d) == f.gen = d.gen /\ f.digest = d.digest

\* copyFileAtomic writes the bytes under a temporary name in the payload
\* directory: one more file, the youngest, that nobody looks for.
PartFile == [gen |-> 0, digest |-> NoDigest, ok |-> FALSE, age |-> 0]

Copied(fs) == {[f EXCEPT !.age = @ + 1] : f \in fs} \cup {PartFile}

\* The rename puts that file under the deployment's name; an older file of
\* that name is gone, and the ones behind it move up.
Placed(fs, d) ==
  LET old == {f \in fs : SameName(f, d)}
      aged(f) == [f EXCEPT !.age = IF \E o \in old : o.age < f.age
                                   THEN @ - 1 ELSE @] IN
  {aged(f) : f \in fs \ (old \cup {PartFile})} \cup
  {[gen |-> d.gen, digest |-> d.digest, age |-> 0,
    ok |-> Hashes(staging[d], d)]}

\* Mutant: the handler does not note which deployment it works on.
OnStageAnonymous(m) ==
  LET d == m.dep  code == StageCode(m) IN
  /\ pc = "serve"
  /\ IF code = "Ok"
     THEN /\ payload' = [payload EXCEPT ![d.key] = Copied(@)]
          /\ pc' = "copy"
     ELSE UNCHANGED <<payload, pc>>
  /\ acked' = {}
  /\ UNCHANGED <<journal, staging, current, pending, job, scan, dir, chunkCounter>>

\* Copies the verified bytes into the live area, ...
OnStage(m) ==
  LET d == m.dep  code == StageCode(m) IN
  /\ pc = "serve"
  /\ IF code = "Ok"
     THEN /\ payload' = [payload EXCEPT ![d.key] = Copied(@)]
          /\ pc' = "copy"
          /\ job' = d
     ELSE UNCHANGED <<payload, pc, job>>
  /\ acked' = {}
  /\ UNCHANGED <<journal, staging, current, pending, scan, dir, chunkCounter>>

\* ... renames the copy, which a crash before leaves behind for good, ...
StageRename ==
  /\ pc = "copy"
  /\ payload' = [payload EXCEPT ![job.key] = Placed(@, job)]
  /\ pc' = "stage"
  /\ UNCHANGED <<journal, staging, current, pending, job, scan, dir,
                 chunkCounter, acked>>

\* ... and then checkpoints that they are there.
StageRecord ==
  /\ pc = "stage"
  /\ xfer' = [xfer EXCEPT ![job].staged = TRUE, ![job].saved = xfer[job].bytes]
  /\ pc' = "serve"
  /\ job' = NoDeployment
  /\ acked' = {}
  /\ UNCHANGED <<term, committed, prepared, findings, applyRollbacks, files,
                 scan, dir, chunkCounter>>

ApplyPrepareCode(m) ==
  LET d == m.dep IN
  IF Atomic THEN "UnexpectedMessage"
  ELSE IF ~(xfer[d].open /\ xfer[d].staged) THEN "NotPrepared"
  ELSE IF Stale(m.gen) THEN "StaleGeneration"
  ELSE IF m.gen # d.gen THEN "Conflict"
  ELSE IF prepared.on THEN "Busy"
  ELSE "Ok"

\* Opens the prepare window: the marker file first ...
OnApplyPrepare(m) ==
  LET d == m.dep  code == ApplyPrepareCode(m) IN
  /\ pc = "serve"
  /\ applyRollbacks < MaxRollbacks
  /\ IF code = "Ok"
     THEN /\ pending' = [pending EXCEPT ![d.key] = TRUE]
          /\ pc' = "window"
          /\ job' = d
     ELSE UNCHANGED <<pending, pc, job>>
  /\ acked' = {}
  /\ UNCHANGED <<journal, staging, payload, current, scan, dir, chunkCounter>>

\* ... then the ApplyPrepared record.
WindowRecord ==
  /\ pc = "window"
  /\ prepared' = [on |-> TRUE, dep |-> job]
  /\ pc' = "serve"
  /\ job' = NoDeployment
  /\ acked' = {}
  /\ UNCHANGED <<term, committed, xfer, findings, applyRollbacks, files, scan,
                 dir, chunkCounter>>

\* Mutant: a duplicate is recognised by its generation alone.
CommitCodeByGeneration(m) ==
  LET d == m.dep IN
  IF Stale(m.gen) THEN "StaleGeneration"
  ELSE IF IsSet(committed) /\ m.gen = committed.gen THEN "DuplicateSuppressed"
  ELSE IF ~(xfer[d].open /\ xfer[d].staged) THEN "NotPrepared"
  ELSE IF m.gen # d.gen THEN "Conflict"
  ELSE IF ~Atomic /\ ~prepared.on THEN "NotPrepared"
  ELSE IF prepared.on /\ prepared.dep # d THEN "Conflict"
  ELSE "Ok"

\* Mutant: no test for other content at the committed generation.
CommitCodeNoConflict(m) ==
  LET d == m.dep IN
  IF Stale(m.gen) THEN "StaleGeneration"
  ELSE IF IsCommitted(m.gen, d.digest) THEN "DuplicateSuppressed"
  ELSE IF ~(xfer[d].open /\ xfer[d].staged) THEN "NotPrepared"
  ELSE IF m.gen # d.gen THEN "Conflict"
  ELSE IF ~Atomic /\ ~prepared.on THEN "NotPrepared"
  ELSE IF prepared.on /\ prepared.dep # d THEN "Conflict"
  ELSE "Ok"

\* Mutant: a commit does not need the window.
CommitCodeNoWindow(m) ==
  LET d == m.dep IN
  IF Stale(m.gen) THEN "StaleGeneration"
  ELSE IF IsCommitted(m.gen, d.digest) THEN "DuplicateSuppressed"
  ELSE IF Conflicting(m.gen, d.digest) THEN "GenerationConflict"
  ELSE IF ~(xfer[d].open /\ xfer[d].staged) THEN "NotPrepared"
  ELSE IF m.gen # d.gen THEN "Conflict"
  ELSE IF prepared.on /\ prepared.dep # d THEN "Conflict"
  ELSE "Ok"

\* The order of the tests is the code's: the fence first, then the answers
\* from the durable record, then what this deployment has staged.
CommitCode(m) ==
  LET d == m.dep IN
  IF Stale(m.gen) THEN "StaleGeneration"
  ELSE IF IsCommitted(m.gen, d.digest) THEN "DuplicateSuppressed"
  ELSE IF Conflicting(m.gen, d.digest) THEN "GenerationConflict"
  ELSE IF ~(xfer[d].open /\ xfer[d].staged)
       THEN IF \E e \in Entries : e.gen = m.gen /\ e.digest = d.digest
            THEN "DuplicateSuppressed" ELSE "NotPrepared"
  ELSE IF m.gen # d.gen THEN "Conflict"
  ELSE IF ~Atomic /\ ~prepared.on THEN "NotPrepared"
  ELSE IF prepared.on /\ prepared.dep # d THEN "Conflict"
  ELSE "Ok"

\* A commit is answered at once, or it switches the live pointer, which is
\* one atomic file replacement, and goes on to record the activation.
OnApplyCommit(m) ==
  LET d == m.dep  code == CommitCode(m) IN
  /\ pc = "serve"
  /\ IF code = "Ok"
     THEN /\ current' = [current EXCEPT ![d.key] = Ptr(d)]
          /\ pc' = IF Atomic THEN "commit" ELSE "unmark"
          /\ job' = d
          /\ acked' = {}
     ELSE /\ acked' = IF code = "DuplicateSuppressed" THEN {m} ELSE {}
          /\ UNCHANGED <<current, pc, job>>
  /\ UNCHANGED <<journal, staging, payload, pending, scan, dir, chunkCounter>>

\* activate(): the prepare marker is removed after the switch.
ActivateUnmark ==
  /\ pc = "unmark"
  /\ pending' = [pending EXCEPT ![job.key] = FALSE]
  /\ pc' = "resolve"
  /\ UNCHANGED <<journal, staging, payload, current, job, scan, dir,
                 chunkCounter, acked>>

\* commitGeneration(): the ApplyResolved record ...
CommitResolve ==
  /\ pc = "resolve"
  /\ prepared' = NoWindow
  /\ pc' = "commit"
  /\ UNCHANGED <<term, committed, xfer, findings, applyRollbacks, files, job,
                 scan, dir, chunkCounter, acked>>

\* ... the TargetCommit record ...
CommitRecord ==
  /\ pc = "commit"
  /\ committed' = Ptr(job)
  /\ pc' = "finding"
  /\ UNCHANGED <<term, prepared, xfer, findings, applyRollbacks, files, job,
                 scan, dir, chunkCounter, acked>>

\* The bounded findings table after an upsert by (key, digest): an entry is
\* replaced in place, a new one may push out the oldest.
FindingUpsert(fs, e) ==
  LET same == {i \in 1 .. Len(fs) : fs[i].key = e.key /\ fs[i].digest = e.digest} IN
  IF same # {} THEN [i \in 1 .. Len(fs) |-> IF i \in same THEN e ELSE fs[i]]
  ELSE Append(IF Len(fs) >= MaxFindings THEN Tail(fs) ELSE fs, e)

\* ... and the FindingUpsert record.
CommitFinding ==
  /\ pc = "finding"
  /\ findings' = FindingUpsert(findings, [key |-> job.key, gen |-> job.gen,
                                          digest |-> job.digest])
  /\ pc' = "prune"
  /\ UNCHANGED <<term, committed, prepared, xfer, applyRollbacks, files, job,
                 scan, dir, chunkCounter, acked>>

\* Mutant: one file too few is kept.
PruneOneTooMany ==
  /\ pc = "prune"
  /\ payload' = [payload EXCEPT ![job.key] = {f \in @ : f.age + 1 < RetainedPayloads}]
  /\ pc' = "serve"
  /\ job' = NoDeployment
  /\ acked' = {[dep |-> job, gen |-> job.gen]}
  /\ UNCHANGED <<journal, staging, current, pending, scan, dir, chunkCounter>>

\* prunePayloads() keeps the youngest files of the key, whatever their names;
\* the commit is acknowledged only now.
PrunePayloads ==
  /\ pc = "prune"
  /\ payload' = [payload EXCEPT ![job.key] = {f \in @ : f.age < RetainedPayloads}]
  /\ pc' = "serve"
  /\ job' = NoDeployment
  /\ acked' = {[dep |-> job, gen |-> job.gen]}
  /\ UNCHANGED <<journal, staging, current, pending, scan, dir, chunkCounter>>

AbortCode(m) ==
  IF ~prepared.on THEN "NotPrepared"
  ELSE IF m.dep # prepared.dep \/ m.gen # prepared.dep.gen THEN "Conflict"
  ELSE "Ok"

\* An abort removes the marker, found through the transfer holding the
\* window, ...
OnApplyAbort(m) ==
  LET d == m.dep  code == AbortCode(m) IN
  /\ pc = "serve"
  /\ IF code = "Ok"
     THEN /\ pending' = IF xfer[d].open THEN [pending EXCEPT ![d.key] = FALSE]
                        ELSE pending
          /\ pc' = "abortNote"
          /\ job' = d
     ELSE UNCHANGED <<pending, pc, job>>
  /\ acked' = {}
  /\ UNCHANGED <<journal, staging, payload, current, scan, dir, chunkCounter>>

\* ... counts the rollback durably ...
AbortNote ==
  /\ pc = "abortNote"
  /\ applyRollbacks' = applyRollbacks + 1
  /\ pc' = "abortResolve"
  /\ UNCHANGED <<term, committed, prepared, xfer, findings, files, job, scan,
                 dir, chunkCounter, acked>>

\* ... and resolves the window.
AbortResolve ==
  /\ pc = "abortResolve"
  /\ prepared' = NoWindow
  /\ pc' = "serve"
  /\ job' = NoDeployment
  /\ acked' = {}
  /\ UNCHANGED <<term, committed, xfer, findings, applyRollbacks, files, scan,
                 dir, chunkCounter>>

\* Retire destroys the transfer unless it may be the committed generation.
OnRetire(m) ==
  /\ pc = "serve"
  /\ IF IsSet(committed) /\ m.gen >= committed.gen
     THEN UNCHANGED <<xfer, staging>>
     ELSE DestroyTransfer(m.dep)
  /\ acked' = {}
  /\ UNCHANGED <<term, committed, prepared, findings, applyRollbacks, payload,
                 current, pending, pc, job, scan, dir, chunkCounter>>

-----------------------------------------------------------------------------
(* Crash and start-up.                                                     *)

\* What a crash can leave of a staging file, which is never synced.
Remains(f) == {NoFile} \cup {Shorter(f, n) : n \in 0 .. f.len}

\* The process dies between two durable effects.  Byte counts that were only
\* in memory are gone, and so may be part of a staging file;
\* journal records, pointers, markers and payloads are synced.
Crash ==
  /\ pc # "down"
  /\ term < MaxTerm
  /\ \E left \in [Deployments -> UNION {Remains(staging[d]) : d \in Deployments}] :
       /\ \A d \in Deployments : left[d] \in Remains(staging[d])
       /\ staging' = left
  /\ xfer' = [d \in Deployments |-> [xfer[d] EXCEPT !.bytes = xfer[d].saved]]
  /\ pc' = "down"
  /\ job' = NoDeployment
  /\ scan' = {}
  /\ dir' = NoKey
  /\ chunkCounter' = 0
  /\ acked' = {}
  /\ UNCHANGED <<term, committed, prepared, findings, applyRollbacks, payload,
                 current, pending>>

\* Mutant: the length on disk is not compared with the record.
SupportedByName(d) == xfer[d].open /\ staging[d].here

\* Step 1 of recoverLiveArea: a transfer survives only if the disk supports
\* the recorded count; a longer file is cut back, an unknown one removed.
Supported(d) == xfer[d].open /\ staging[d].here /\ staging[d].len >= xfer[d].bytes

Open ==
  /\ pc = "down"
  /\ term' = term + 1
  /\ xfer' = [d \in Deployments |-> IF Supported(d) THEN xfer[d] ELSE NoXfer]
  /\ staging' = [d \in Deployments |-> IF Supported(d)
                                       THEN Shorter(staging[d], xfer[d].bytes)
                                       ELSE NoFile]
  /\ scan' = {k \in Keys : IsSet(current[k]) \/ pending[k]}
  /\ pc' = "boot"
  /\ UNCHANGED <<committed, prepared, findings, applyRollbacks, payload,
                 current, pending, job, dir, chunkCounter, acked>>

\* Step 2, for each key directory in the order the file system lists them.
\* A marker whose switch did not happen is a rollback, noted at once.
SwitchCompleted(k) == prepared.on /\ current[k] = Ptr(prepared.dep)

\* Mutant: the directory is visited again.
RecoverKeyAgain(k) ==
  /\ pc = "boot"
  /\ k \in scan
  /\ dir' = k
  /\ pc' = IF pending[k] THEN "bootUnmark" ELSE "bootCommit"
  /\ applyRollbacks' = IF pending[k] /\ ~SwitchCompleted(k)
                       THEN applyRollbacks + 1 ELSE applyRollbacks
  /\ UNCHANGED <<term, committed, prepared, xfer, findings, files, job, scan,
                 chunkCounter, acked>>

RecoverKey(k) ==
  /\ pc = "boot"
  /\ k \in scan
  /\ scan' = scan \ {k}
  /\ dir' = k
  /\ pc' = IF pending[k] THEN "bootUnmark" ELSE "bootCommit"
  /\ applyRollbacks' = IF pending[k] /\ ~SwitchCompleted(k)
                       THEN applyRollbacks + 1 ELSE applyRollbacks
  /\ UNCHANGED <<term, committed, prepared, xfer, findings, files, job,
                 chunkCounter, acked>>

\* Mutant: a marker without a record is left where it is.
RecoverUnmarkRecorded ==
  /\ pc = "bootUnmark"
  /\ pending' = IF prepared.on THEN [pending EXCEPT ![dir] = FALSE] ELSE pending
  /\ pc' = IF prepared.on THEN "bootResolve" ELSE "bootCommit"
  /\ UNCHANGED <<journal, staging, payload, current, job, scan, dir,
                 chunkCounter, acked>>

RecoverUnmark ==
  /\ pc = "bootUnmark"
  /\ pending' = [pending EXCEPT ![dir] = FALSE]
  /\ pc' = IF prepared.on THEN "bootResolve" ELSE "bootCommit"
  /\ UNCHANGED <<journal, staging, payload, current, job, scan, dir,
                 chunkCounter, acked>>

RecoverResolve ==
  /\ pc = "bootResolve"
  /\ prepared' = NoWindow
  /\ pc' = "bootCommit"
  /\ UNCHANGED <<term, committed, xfer, findings, applyRollbacks, files, job,
                 scan, dir, chunkCounter, acked>>

\* The payload the pointer names is there and hashes to its digest.
Intact(k) ==
  \E f \in payload[k] : f.gen = current[k].gen /\ f.digest = current[k].digest /\ f.ok

\* Mutant: the record wins over the pointer.
RecoverCommitByRecord ==
  /\ pc = "bootCommit"
  /\ pc' = "boot"
  /\ dir' = NoKey
  /\ UNCHANGED <<journal, files, job, scan, chunkCounter, acked>>

\* Mutant: a pointer is adopted without hashing its payload.
RecoverCommitUnverified ==
  /\ pc = "bootCommit"
  /\ committed' = current[dir]
  /\ pc' = "boot"
  /\ dir' = NoKey
  /\ UNCHANGED <<term, prepared, xfer, findings, applyRollbacks, files, job,
                 scan, chunkCounter, acked>>

\* The durable record is brought into line with the pointer of this key: a
\* pointer that can be verified is adopted, anything else clears the commit.
RecoverCommit ==
  /\ pc = "bootCommit"
  /\ committed' = IF IsSet(current[dir]) /\ Intact(dir) THEN current[dir] ELSE Unset
  /\ pc' = "boot"
  /\ dir' = NoKey
  /\ UNCHANGED <<term, prepared, xfer, findings, applyRollbacks, files, job,
                 scan, chunkCounter, acked>>

\* Step 3: a window that is still open is noted as a rollback ...
RecoverNote ==
  /\ pc = "boot"
  /\ scan = {}
  /\ prepared.on
  /\ applyRollbacks' = applyRollbacks + 1
  /\ pc' = "bootAbort"
  /\ UNCHANGED <<term, committed, prepared, xfer, findings, files, job, scan,
                 dir, chunkCounter, acked>>

\* ... and resolved.
RecoverAbort ==
  /\ pc = "bootAbort"
  /\ prepared' = NoWindow
  /\ pc' = "serve"
  /\ UNCHANGED <<term, committed, xfer, findings, applyRollbacks, files, job,
                 scan, dir, chunkCounter, acked>>

RecoverDone ==
  /\ pc = "boot"
  /\ scan = {}
  /\ ~prepared.on
  /\ pc' = "serve"
  /\ UNCHANGED <<journal, files, job, scan, dir, chunkCounter, acked>>

-----------------------------------------------------------------------------
AgentInit ==
  /\ term = 0
  /\ committed = Unset
  /\ prepared = NoWindow
  /\ xfer = [d \in Deployments |-> NoXfer]
  /\ findings = <<>>
  /\ applyRollbacks = 0
  /\ staging = [d \in Deployments |-> NoFile]
  /\ payload = [k \in Keys |-> {}]
  /\ current = [k \in Keys |-> Unset]
  /\ pending = [k \in Keys |-> FALSE]
  /\ pc = "down"
  /\ job = NoDeployment
  /\ scan = {}
  /\ dir = NoKey
  /\ chunkCounter = 0
  /\ acked = {}

Request ==
  \/ \E d \in Deployments : \/ OnPrepare(d)
                            \/ OnTransferComplete(d)
                            \/ \E offset \in 0 .. MaxArtifact, good \in BOOLEAN :
                                 OnChunk(d, offset, good)
  \/ \E m \in Instructions : \/ OnStage(m)
                             \/ OnApplyPrepare(m)
                             \/ OnApplyCommit(m)
                             \/ OnApplyAbort(m)
                             \/ OnRetire(m)

HandlerStep ==
  \/ StageRename
  \/ StageRecord
  \/ WindowRecord
  \/ ActivateUnmark
  \/ CommitResolve
  \/ CommitRecord
  \/ CommitFinding
  \/ PrunePayloads
  \/ AbortNote
  \/ AbortResolve

RecoveryStep ==
  \/ Open
  \/ \E k \in Keys : RecoverKey(k)
  \/ RecoverUnmark
  \/ RecoverResolve
  \/ RecoverCommit
  \/ RecoverNote
  \/ RecoverAbort
  \/ RecoverDone

AgentNext == Request \/ HandlerStep \/ RecoveryStep \/ Crash

AgentSpec == AgentInit /\ [][AgentNext]_agentVars

\* Bytes of a payload damaged on the device while the agent is down: what
\* the start-up verification of the committed payload is there to detect.
DamageAtRest ==
  /\ pc = "down"
  /\ \E k \in Keys : \E f \in payload[k] :
       payload' = [payload EXCEPT ![k] = (@ \ {f}) \cup {[f EXCEPT !.ok = FALSE]}]
  /\ UNCHANGED <<journal, staging, current, pending, process>>

DamageSpec == AgentInit /\ [][AgentNext \/ DamageAtRest]_agentVars

\* The agent is single threaded and its steps wait for nothing, and its
\* supervisor starts it again; crashes are finitely many.
DamageFairSpec == DamageSpec /\ WF_agentVars(HandlerStep) /\ WF_agentVars(RecoveryStep)

-----------------------------------------------------------------------------
(* Properties.                                                             *)

\* Digest before activation: whatever chunks arrive, in whatever order, from
\* however many sessions and across crashes that lose unsynced bytes, every
\* payload in the live area hashes to the digest it is named after.
LiveAreaVerified == \A k \in Keys : \A f \in payload[k] : IsSet(f) => f.ok

\* A live pointer never dangles: the payload it names is in the live area
\* and intact (stage copies before commit switches, and prunePayloads does not
\* reach it), provided that RetainedPayloads has room for every payload of the
\* key and for every copy a crash has cut off.
PointerNamesPayload == \A k \in Keys : IsSet(current[k]) => Intact(k)

\* Outside start-up the byte count of a transfer is backed by the staging
\* file, so a resumed transfer has no hole; what is marked verified still
\* hashes, although crashes may shorten the file behind the record.
TransferBacked ==
  pc \notin {"down"} =>
    \A d \in Deployments : xfer[d].open =>
      /\ xfer[d].bytes = staging[d].len
      /\ xfer[d].verified => Hashes(staging[d], d)

\* Stale fencing of what is running: the live pointer of a key never moves
\* to an older generation, nor to other content at the same generation.
GenerationMonotone ==
  [][\A k \in Keys : current'[k] # current[k] =>
        current'[k].gen > current[k].gen]_agentVars

\* Start-up resolves a disagreement in favour of the pointer: whenever the
\* agent takes requests, the committed pair is what the pointer names.
RecordFollowsPointer ==
  pc = "serve" => \A k \in Keys : committed = current[k]

\* A prepare-commit-abort target switches only inside the window opened for
\* exactly that deployment, with the marker on disk, so that a restart can
\* tell whether the switch happened.
SwitchInsideWindow ==
  [][\A k \in Keys : ~Atomic /\ current'[k] # current[k] =>
        /\ prepared.on
        /\ prepared.dep.key = k
        /\ current'[k] = Ptr(prepared.dep)
        /\ pending[k]]_agentVars

\* Honest answers: when the agent sends a delivery acknowledgement, the live
\* pointer of the deployment's key names the acknowledged pair.
AckedIsLive ==
  \A m \in acked :
    current[m.dep.key] = [gen |-> m.gen, digest |-> m.dep.digest]

\* Eviction is harmless: a finding leaves the bounded table only when its key
\* already runs a newer generation.
EvidenceKept ==
  [][\A e \in Entries : e \notin Entries' => current'[e.key].gen > e.gen]_agentVars

\* A window never outlives a restart: when recovery is over, whatever step
\* the crash hit, no window is open and no marker is left.
RecoveryClosesWindow ==
  [][(pc \in {"boot", "bootAbort"} /\ pc' = "serve") =>
        (~prepared'.on /\ (\A k \in Keys : ~pending'[k]))]_agentVars

\* No crash and no damaged payload leaves a state that start-up cannot get
\* out of, and no handler is left half way: the agent is back at its session
\* loop again and again.
ServesAgain == []<>(pc = "serve")

\* At the end of start-up, with or without a window to abort, a committed
\* generation is only claimed when its payload is there and hashes, even if
\* payloads were damaged at rest.
ClaimIsIntact ==
  [][(pc \in {"boot", "bootAbort"} /\ pc' = "serve" /\ IsSet(committed')) =>
        (\E k \in Keys : current'[k] = committed' /\ Intact(k)')]_agentVars
=============================================================================
