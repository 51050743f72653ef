---------------------------- MODULE AgentProofs ----------------------------
(***************************************************************************)
(* Theorems about the target agent, for any keys, deployments and limits.  *)
(***************************************************************************)
EXTENDS Agent, FiniteSetTheorems, TLAPS

\* The fields of a deployment.
LEMMA DeploymentFields ==
  ASSUME NEW d \in Deployments
  PROVE  /\ d.key \in Keys /\ d.gen \in Nat \ {0} /\ d.digest \in Digests
         /\ d.size \in Nat \ {0} /\ d.strict \in BOOLEAN
  BY DeploymentsAssumption

\* A pointer to a deployment's payload is a pointer.
LEMMA PtrType == ASSUME NEW d \in Deployments PROVE Ptr(d) \in Pointer
  BY DeploymentFields DEF Ptr, Pointer

\* A copy leaves a set of payload files.
LEMMA CopiedType ==
  ASSUME NEW fs \in SUBSET PayloadFile
  PROVE  Copied(fs) \in SUBSET PayloadFile
<1>1. PartFile \in PayloadFile
  BY DEF PartFile, PayloadFile
<1>2. \A f \in fs : [f EXCEPT !.age = @ + 1] \in PayloadFile
  BY DEF PayloadFile
<1> QED
  BY <1>1, <1>2 DEF Copied

\* So does the rename.
LEMMA PlacedType ==
  ASSUME NEW d \in Deployments, NEW fs \in SUBSET PayloadFile
  PROVE  Placed(fs, d) \in SUBSET PayloadFile
<1> DEFINE old == {f \in fs : SameName(f, d)}
           aged(f) == [f EXCEPT !.age = IF \E o \in old : o.age < f.age
                                        THEN @ - 1 ELSE @]
           new == [gen |-> d.gen, digest |-> d.digest, age |-> 0,
                   ok |-> Hashes(staging[d], d)]
<1>1. new \in PayloadFile
  <2>1. Hashes(staging[d], d) \in BOOLEAN
    BY DEF Hashes
  <2> QED
    BY <2>1, DeploymentFields DEF PayloadFile
<1>2. ASSUME NEW f \in fs PROVE aged(f) \in PayloadFile
  <2>1. \A o \in old : o.age \in Nat
    BY DEF PayloadFile
  <2>2. f.age \in Nat /\ (\E o \in old : o.age < f.age) => f.age - 1 \in Nat
    BY <2>1
  <2> QED BY <2>2 DEF PayloadFile
<1>3. Placed(fs, d) = {aged(f) : f \in fs \ (old \cup {PartFile})} \cup {new}
  BY DEF Placed
<1> HIDE DEF aged, new, old
<1> QED
  BY <1>1, <1>2, <1>3

\* An upsert leaves a sequence of findings.
LEMMA UpsertType ==
  ASSUME NEW fs \in Seq(Finding), NEW e \in Finding
  PROVE  FindingUpsert(fs, e) \in Seq(Finding)
<1> DEFINE same == {i \in 1 .. Len(fs) : fs[i].key = e.key /\ fs[i].digest = e.digest}
           replaced == [i \in 1 .. Len(fs) |-> IF i \in same THEN e ELSE fs[i]]
           room == IF Len(fs) >= MaxFindings THEN Tail(fs) ELSE fs
<1>1. FindingUpsert(fs, e) = IF same # {} THEN replaced ELSE Append(room, e)
  BY DEF FindingUpsert
<1>2. replaced \in Seq(Finding)
  <2>1. \A i \in 1 .. Len(fs) : (IF i \in same THEN e ELSE fs[i]) \in Finding
    OBVIOUS
  <2> HIDE DEF same
  <2> QED
    BY <2>1
<1>3. room \in Seq(Finding)
  <2>1. Len(fs) >= MaxFindings => fs # <<>>
    BY BoundsAssumption
  <2> QED
    BY <2>1
<1> HIDE DEF same, replaced, room
<1> QED
  BY <1>1, <1>2, <1>3

\* Cutting a staging file leaves a staging file.
LEMMA ShorterType ==
  ASSUME NEW f \in StagingFile, NEW n \in Nat PROVE Shorter(f, n) \in StagingFile
  BY DEF Shorter, StagingFile

\* Writing a chunk leaves a staging file.
LEMMA WrittenType ==
  ASSUME NEW f \in StagingFile, NEW n \in Nat, NEW good \in BOOLEAN
  PROVE  Written(f, n, good) \in StagingFile
  BY DEF Written, StagingFile

\* The absent file, transfer and window are of their types.
LEMMA NoneTypes == NoFile \in StagingFile /\ NoXfer \in Transfer /\ NoWindow \in Window
  BY DEF NoFile, StagingFile, NoXfer, Transfer, NoWindow, Window

-----------------------------------------------------------------------------
(* Type correctness.                                                       *)

\* A freshly installed agent has the types.
LEMMA TypeInit == AgentInit => AgentTypeOK
  BY NoneTypes, NoDigestAssumption
  DEF AgentInit, AgentTypeOK, Pointer, Steps, HandlerSteps, Unset, Instructions

\* The handlers of a session.
LEMMA TypeRequest == AgentTypeOK /\ Request => AgentTypeOK'
<1> SUFFICES ASSUME AgentTypeOK, Request PROVE AgentTypeOK'
  OBVIOUS
<1> USE DEF AgentTypeOK, Steps, HandlerSteps
<1>1. ASSUME NEW d \in Deployments, OnPrepare(d) PROVE AgentTypeOK'
  <2>1. ResumeFrom(d) \in Nat
    BY DeploymentFields DEF ResumeFrom, Transfer, StagingFile
  <2> DEFINE reopened == [open |-> TRUE, bytes |-> ResumeFrom(d),
                          saved |-> ResumeFrom(d), verified |-> FALSE, staged |-> FALSE]
  <2>2. reopened \in Transfer
    BY <2>1 DEF Transfer
  <2>3. xfer' \in [Deployments -> Transfer]
    <3>1. xfer' = [xfer EXCEPT ![d] = reopened] \/ xfer' = xfer
      BY <1>1 DEF OnPrepare
    <3> HIDE DEF reopened
    <3> QED
      BY <2>2, <3>1
  <2>4. staging' \in [Deployments -> StagingFile]
    BY <1>1, NoneTypes DEF OnPrepare
  <2> QED
    BY <1>1, <2>3, <2>4 DEF OnPrepare
<1>2. ASSUME NEW d \in Deployments, OnTransferComplete(d) PROVE AgentTypeOK'
  <2>1. [xfer EXCEPT ![d].verified = TRUE, ![d].saved = xfer[d].bytes]
           \in [Deployments -> Transfer]
    BY ZenonT(30) DEF Transfer
  <2>2. DestroyTransfer(d) => /\ xfer' \in [Deployments -> Transfer]
                              /\ staging' \in [Deployments -> StagingFile]
    BY NoneTypes DEF DestroyTransfer
  <2>3. xfer' \in [Deployments -> Transfer] /\ staging' \in [Deployments -> StagingFile]
    BY <1>2, <2>1, <2>2 DEF OnTransferComplete
  <2> QED
    BY <1>2, <2>3 DEF OnTransferComplete
<1>3. ASSUME NEW d \in Deployments, NEW offset \in 0 .. MaxArtifact,
             NEW good \in BOOLEAN, OnChunk(d, offset, good)
      PROVE  AgentTypeOK'
  <2>1. offset \in Nat /\ Written(staging[d], offset, good) \in StagingFile
    BY BoundsAssumption, WrittenType
  <2>4. staging' \in [Deployments -> StagingFile]
    BY <1>3, <2>1 DEF OnChunk
  <2> DEFINE saved == IF (chunkCounter + 1) % CheckpointChunks = 0 \/ offset + 1 = d.size
                      THEN offset + 1 ELSE xfer[d].saved
             noted == [xfer[d] EXCEPT !.bytes = offset + 1, !.saved = saved]
  <2>5. saved \in Nat /\ offset + 1 \in Nat
    BY <2>1 DEF Transfer
  <2>6. noted \in Transfer
    <3> HIDE DEF saved
    <3> QED
      BY <2>5, ZenonT(30) DEF Transfer
  <2>7. xfer' = [xfer EXCEPT ![d] = noted] \/ xfer' = xfer
    BY <1>3, Zenon DEF OnChunk
  <2>2. xfer' \in [Deployments -> Transfer]
    <3> HIDE DEF noted
    <3> QED
      BY <2>6, <2>7
  <2>3. chunkCounter' \in Nat
    BY <1>3, BoundsAssumption DEF OnChunk
  <2> QED
    BY <1>3, <2>2, <2>3, <2>4 DEF OnChunk
<1>4. ASSUME NEW m \in Instructions, OnStage(m) PROVE AgentTypeOK'
  <2>1. m.dep \in Deployments /\ m.dep.key \in Keys
    BY DeploymentFields DEF Instructions
  <2>2. payload' \in [Keys -> SUBSET PayloadFile]
    BY <1>4, <2>1, CopiedType DEF OnStage
  <2> QED
    BY <1>4, <2>1, <2>2 DEF OnStage, journal
<1>5. ASSUME NEW m \in Instructions, OnApplyPrepare(m) PROVE AgentTypeOK'
  BY <1>5 DEF OnApplyPrepare, Instructions, journal
<1>6. ASSUME NEW m \in Instructions, OnApplyCommit(m) PROVE AgentTypeOK'
  <2>1. m.dep \in Deployments /\ Ptr(m.dep) \in Pointer
    BY PtrType DEF Instructions
  <2>2. current' \in [Keys -> Pointer]
    BY <1>6, <2>1 DEF OnApplyCommit
  <2> QED
    BY <1>6, <2>1, <2>2, AtomicAssumption DEF OnApplyCommit, journal
<1>7. ASSUME NEW m \in Instructions, OnApplyAbort(m) PROVE AgentTypeOK'
  BY <1>7 DEF OnApplyAbort, Instructions, journal
<1>8. ASSUME NEW m \in Instructions, OnRetire(m) PROVE AgentTypeOK'
  BY <1>8, NoneTypes DEF OnRetire, DestroyTransfer
<1> QED
  BY <1>1, <1>2, <1>3, <1>4, <1>5, <1>6, <1>7, <1>8 DEF Request

\* The later steps of a handler, the start-up and the crash.
LEMMA TypeOtherSteps == AgentTypeOK /\ (HandlerStep \/ RecoveryStep \/ Crash) => AgentTypeOK'
<1> SUFFICES ASSUME AgentTypeOK, HandlerStep \/ RecoveryStep \/ Crash PROVE AgentTypeOK'
  OBVIOUS
<1> USE DEF AgentTypeOK, Steps, HandlerSteps
<1>0. CASE StageRename
  <2>1. job \in Deployments /\ job.key \in Keys
    BY <1>0, DeploymentFields DEF StageRename
  <2>2. payload' \in [Keys -> SUBSET PayloadFile]
    BY <1>0, <2>1, PlacedType DEF StageRename
  <2> QED
    BY <1>0, <2>1, <2>2 DEF StageRename, journal
<1>1. CASE StageRecord
  BY <1>1, ZenonT(30) DEF StageRecord, Transfer, files
<1>2. CASE WindowRecord
  BY <1>2 DEF WindowRecord, Window, files
<1>3. CASE ActivateUnmark
  BY <1>3 DEF ActivateUnmark, journal
<1>4. CASE CommitResolve
  BY <1>4, NoneTypes DEF CommitResolve, files
<1>5. CASE CommitRecord
  BY <1>5, PtrType DEF CommitRecord, files
<1>6. CASE CommitFinding
  <2> DEFINE e == [key |-> job.key, gen |-> job.gen, digest |-> job.digest]
  <2>1. e \in Finding
    BY <1>6, DeploymentFields DEF CommitFinding, Finding
  <2>2. findings' \in Seq(Finding)
    BY <1>6, <2>1, UpsertType DEF CommitFinding
  <2> QED
    BY <1>6, <2>2 DEF CommitFinding, files
<1>7. CASE PrunePayloads
  <2>1. [dep |-> job, gen |-> job.gen] \in Instructions
    BY <1>7 DEF PrunePayloads, Instructions, Gens
  <2> QED
    BY <1>7, <2>1 DEF PrunePayloads, journal
<1>8. CASE AbortNote
  BY <1>8 DEF AbortNote, files
<1>9. CASE AbortResolve
  BY <1>9, NoneTypes DEF AbortResolve, files
<1>10. CASE Open
  <2>1. \A d \in Deployments : Shorter(staging[d], xfer[d].bytes) \in StagingFile
    BY ShorterType DEF Transfer
  <2> QED
    BY <1>10, <2>1, NoneTypes DEF Open
<1>11. ASSUME NEW k \in Keys, RecoverKey(k) PROVE AgentTypeOK'
  BY <1>11 DEF RecoverKey, files
<1>12. CASE RecoverUnmark
  BY <1>12 DEF RecoverUnmark, journal
<1>13. CASE RecoverResolve
  BY <1>13, NoneTypes DEF RecoverResolve, files
<1>14. CASE RecoverCommit
  BY <1>14 DEF RecoverCommit, Pointer, files
<1>15. CASE RecoverNote
  BY <1>15 DEF RecoverNote, files
<1>16. CASE RecoverAbort
  BY <1>16, NoneTypes DEF RecoverAbort, files
<1>17. CASE RecoverDone
  BY <1>17 DEF RecoverDone, journal, files
<1>18. CASE Crash
  <2>1. \A d \in Deployments : Remains(staging[d]) \subseteq StagingFile
    <3> TAKE d \in Deployments
    <3>1. staging[d] \in StagingFile /\ staging[d].len \in Nat
      BY DEF StagingFile
    <3>2. \A n \in 0 .. staging[d].len : Shorter(staging[d], n) \in StagingFile
      BY <3>1, ShorterType
    <3> QED
      BY <3>2, NoneTypes DEF Remains
  <2>2. staging' \in [Deployments -> StagingFile]
    BY <1>18, <2>1 DEF Crash
  <2> QED
    BY <1>18, <2>2 DEF Crash, Transfer
<1> QED
  BY <1>0, <1>1, <1>2, <1>3, <1>4, <1>5, <1>6, <1>7, <1>8, <1>9, <1>10, <1>11, <1>12,
     <1>13, <1>14, <1>15, <1>16, <1>17, <1>18 DEF HandlerStep, RecoveryStep

\* Every step keeps the types.
LEMMA TypeStep == AgentTypeOK /\ [AgentNext]_agentVars => AgentTypeOK'
<1>1. AgentTypeOK /\ UNCHANGED agentVars => AgentTypeOK'
  BY DEF AgentTypeOK, agentVars, journal, files, process
<1> QED
  BY <1>1, TypeRequest, TypeOtherSteps DEF AgentNext

\* Whatever frames arrive and wherever the agent is killed, its records and
\* files keep their shape, and no handler works without a deployment.
THEOREM AgentTypes == AgentSpec => []AgentTypeOK
  BY TypeInit, TypeStep, PTL DEF AgentSpec

-----------------------------------------------------------------------------
(* The prepare window.                                                     *)

\* An open window has its marker on disk, from the record that opens it until
\* the handler that closes it has begun; an atomic target never has one.
WindowInv ==
  /\ prepared.on => ~Atomic /\ prepared.dep \in Deployments
  /\ pc \in {"window", "commit", "finding", "prune"} => ~prepared.on
  /\ pc = "window" => ~Atomic /\ pending[job.key]
  /\ pc \in {"serve", "copy", "stage"} /\ prepared.on => pending[prepared.dep.key]

\* A marker that recovery has still to remove is in a directory it has still
\* to visit, or is visiting.
BootInv ==
  /\ pc \in {"boot", "bootUnmark", "bootResolve", "bootCommit", "bootAbort"} =>
       \A k \in Keys : pending[k] => k \in scan \/ (pc = "bootUnmark" /\ k = dir)
  /\ pc = "bootAbort" => scan = {}

\* No request disturbs the window invariants: a commit starts inside its window.
LEMMA WindowRequest == AgentTypeOK /\ WindowInv /\ BootInv /\ Request => (WindowInv /\ BootInv)'
<1> SUFFICES ASSUME AgentTypeOK, WindowInv, BootInv, Request PROVE (WindowInv /\ BootInv)'
  OBVIOUS
<1> USE DEF WindowInv, BootInv
<1>1. ASSUME NEW d \in Deployments,
             \/ OnPrepare(d)
             \/ OnTransferComplete(d)
             \/ \E offset \in 0 .. MaxArtifact, good \in BOOLEAN : OnChunk(d, offset, good)
      PROVE  (WindowInv /\ BootInv)'
  BY <1>1 DEF OnPrepare, OnTransferComplete, OnChunk
<1>2. ASSUME NEW m \in Instructions, OnStage(m) PROVE (WindowInv /\ BootInv)'
  BY <1>2 DEF OnStage, journal
<1>3. ASSUME NEW m \in Instructions, OnApplyPrepare(m) PROVE (WindowInv /\ BootInv)'
  <2>1. m.dep \in Deployments /\ m.dep.key \in Keys /\ pending \in [Keys -> BOOLEAN]
    BY DeploymentFields DEF Instructions, AgentTypeOK
  <2>2. CASE ApplyPrepareCode(m) = "Ok"
    <3>1. ~Atomic /\ ~prepared.on
      BY <2>2 DEF ApplyPrepareCode
    <3> QED
      BY <1>3, <2>1, <2>2, <3>1 DEF OnApplyPrepare, journal
  <2>3. CASE ApplyPrepareCode(m) # "Ok"
    BY <1>3, <2>3 DEF OnApplyPrepare, journal
  <2> QED
    BY <2>2, <2>3
<1>4. ASSUME NEW m \in Instructions, OnApplyCommit(m) PROVE (WindowInv /\ BootInv)'
  BY <1>4 DEF OnApplyCommit, journal
<1>5. ASSUME NEW m \in Instructions, OnApplyAbort(m) PROVE (WindowInv /\ BootInv)'
  BY <1>5 DEF OnApplyAbort, journal
<1>6. ASSUME NEW m \in Instructions, OnRetire(m) PROVE (WindowInv /\ BootInv)'
  BY <1>6 DEF OnRetire
<1> QED
  BY <1>1, <1>2, <1>3, <1>4, <1>5, <1>6 DEF Request

\* Neither does a handler step, a recovery step or a crash.
LEMMA WindowOtherSteps ==
  AgentTypeOK /\ WindowInv /\ BootInv /\ (HandlerStep \/ RecoveryStep \/ Crash)
    => (WindowInv /\ BootInv)'
<1> SUFFICES ASSUME AgentTypeOK, WindowInv, BootInv, HandlerStep \/ RecoveryStep \/ Crash
             PROVE  (WindowInv /\ BootInv)'
  OBVIOUS
<1> USE DEF WindowInv, BootInv
<1>0. CASE StageRename
  BY <1>0 DEF StageRename, journal
<1>1. CASE StageRecord
  BY <1>1 DEF StageRecord, files
<1>2. CASE WindowRecord
  BY <1>2 DEF WindowRecord, files, AgentTypeOK, HandlerSteps
<1>3. CASE ActivateUnmark
  BY <1>3 DEF ActivateUnmark, journal
<1>4. CASE CommitResolve
  BY <1>4 DEF CommitResolve, NoWindow
<1>5. CASE CommitRecord
  BY <1>5 DEF CommitRecord
<1>6. CASE CommitFinding
  BY <1>6 DEF CommitFinding
<1>7. CASE PrunePayloads
  BY <1>7 DEF PrunePayloads, journal
<1>8. CASE AbortNote
  BY <1>8 DEF AbortNote
<1>9. CASE AbortResolve
  BY <1>9 DEF AbortResolve, NoWindow
<1>10. CASE Open
  BY <1>10 DEF Open
<1>11. ASSUME NEW k \in Keys, RecoverKey(k) PROVE (WindowInv /\ BootInv)'
  BY <1>11 DEF RecoverKey, files
<1>12. CASE RecoverUnmark
  BY <1>12 DEF RecoverUnmark, journal, AgentTypeOK
<1>13. CASE RecoverResolve
  BY <1>13 DEF RecoverResolve, files, NoWindow
<1>14. CASE RecoverCommit
  BY <1>14 DEF RecoverCommit, files
<1>15. CASE RecoverNote
  BY <1>15 DEF RecoverNote, files
<1>16. CASE RecoverAbort
  BY <1>16 DEF RecoverAbort, files, NoWindow
<1>17. CASE RecoverDone
  BY <1>17 DEF RecoverDone, journal, files
<1>18. CASE Crash
  BY <1>18 DEF Crash
<1> QED
  BY <1>0, <1>1, <1>2, <1>3, <1>4, <1>5, <1>6, <1>7, <1>8, <1>9, <1>10, <1>11, <1>12,
     <1>13, <1>14, <1>15, <1>16, <1>17, <1>18 DEF HandlerStep, RecoveryStep

\* Damage at rest changes only payloads, and while the process is down.
LEMMA DamageFrame ==
  ASSUME AgentTypeOK, DamageAtRest
  PROVE  /\ AgentTypeOK'
         /\ pc = "down" /\ UNCHANGED <<journal, staging, current, pending, process>>
<1>1. UNCHANGED <<journal, staging, current, pending, process>> /\ pc = "down"
  BY DEF DamageAtRest
<1>2. payload' \in [Keys -> SUBSET PayloadFile]
  <2>1. PICK k \in Keys : \E f \in payload[k] :
          payload' = [payload EXCEPT ![k] = (payload[k] \ {f}) \cup {[f EXCEPT !.ok = FALSE]}]
    BY DEF DamageAtRest
  <2>2. PICK f \in payload[k] :
          payload' = [payload EXCEPT ![k] = (payload[k] \ {f}) \cup {[f EXCEPT !.ok = FALSE]}]
    BY <2>1
  <2>3. payload \in [Keys -> SUBSET PayloadFile] /\ f \in PayloadFile
    BY <2>2 DEF AgentTypeOK
  <2>4. [f EXCEPT !.ok = FALSE] \in PayloadFile
    BY <2>3 DEF PayloadFile
  <2> QED BY <2>2, <2>3, <2>4
<1>3. AgentTypeOK'
  BY <1>1, <1>2 DEF AgentTypeOK, journal, process
<1> QED BY <1>1, <1>3

\* A device that damages nothing is one of those considered.
LEMMA UndamagedToo == AgentSpec => DamageSpec
<1>1. [AgentNext]_agentVars => [AgentNext \/ DamageAtRest]_agentVars
  OBVIOUS
<1> QED
  BY <1>1, PTL DEF AgentSpec, DamageSpec

\* Types and window invariants hold in every behaviour, whatever is damaged at rest.
LEMMA WindowInvariant == DamageSpec => [](AgentTypeOK /\ WindowInv /\ BootInv)
<1>1. AgentInit => AgentTypeOK /\ WindowInv /\ BootInv
  BY TypeInit DEF AgentInit, WindowInv, BootInv, NoWindow
<1>2. WindowInv /\ BootInv /\ UNCHANGED agentVars => (WindowInv /\ BootInv)'
  BY DEF WindowInv, BootInv, agentVars, journal, files, process
<1>3. AgentTypeOK /\ WindowInv /\ BootInv /\ [AgentNext]_agentVars => (AgentTypeOK /\ WindowInv /\ BootInv)'
  BY <1>2, TypeStep, WindowRequest, WindowOtherSteps DEF AgentNext
<1>4. AgentTypeOK /\ WindowInv /\ BootInv /\ DamageAtRest => (AgentTypeOK /\ WindowInv /\ BootInv)'
  BY DamageFrame DEF WindowInv, BootInv, journal, process
<1> QED
  BY <1>1, <1>3, <1>4, PTL DEF DamageSpec

\* Only an accepted commit moves a live pointer, and it moves one.
LEMMA PointerMoves ==
  ASSUME AgentTypeOK, AgentNext, NEW k \in Keys, current'[k] # current[k]
  PROVE  \E m \in Instructions : /\ OnApplyCommit(m)
                                 /\ CommitCode(m) = "Ok"
                                 /\ m.dep.key = k
                                 /\ current'[k] = Ptr(m.dep)
<1>1. \/ UNCHANGED current
      \/ \E m \in Instructions : OnApplyCommit(m)
  BY DEF AgentNext, Request, HandlerStep, RecoveryStep, OnPrepare, OnChunk,
         OnTransferComplete, OnStage, StageRename, StageRecord, OnApplyPrepare, WindowRecord,
         ActivateUnmark, CommitResolve, CommitRecord, CommitFinding, PrunePayloads,
         OnApplyAbort, AbortNote, AbortResolve, OnRetire, Crash, Open, RecoverKey,
         RecoverUnmark, RecoverResolve, RecoverCommit, RecoverNote, RecoverAbort,
         RecoverDone, files
<1>2. PICK m \in Instructions : OnApplyCommit(m)
  BY <1>1
<1> QED
  BY <1>2 DEF OnApplyCommit, AgentTypeOK

\* A prepare-commit-abort target switches a live pointer only inside the
\* window opened for that very deployment, with its marker on disk; damage to
\* payloads at rest does not change that.
THEOREM SwitchesInsideWindow == DamageSpec => SwitchInsideWindow
<1> DEFINE Inside(k) == ~Atomic /\ current'[k] # current[k] =>
                          /\ prepared.on
                          /\ prepared.dep.key = k
                          /\ current'[k] = Ptr(prepared.dep)
                          /\ pending[k]
<1>1. ASSUME AgentTypeOK, WindowInv, [AgentNext \/ DamageAtRest]_agentVars, NEW k \in Keys
      PROVE  Inside(k)
  <2>1. SUFFICES ASSUME ~Atomic, current'[k] # current[k]
                 PROVE  /\ prepared.on
                        /\ prepared.dep.key = k
                        /\ current'[k] = Ptr(prepared.dep)
                        /\ pending[k]
    OBVIOUS
  <2>2. AgentNext
    BY <1>1, <2>1, DamageFrame DEF agentVars, files
  <2>3. PICK m \in Instructions : /\ OnApplyCommit(m)
                                  /\ CommitCode(m) = "Ok"
                                  /\ m.dep.key = k
                                  /\ current'[k] = Ptr(m.dep)
    BY <1>1, <2>1, <2>2, PointerMoves
  <2>4. prepared.on /\ prepared.dep = m.dep
    BY <2>1, <2>3 DEF CommitCode
  <2>5. pc = "serve"
    BY <2>3 DEF OnApplyCommit
  <2> QED
    BY <1>1, <2>3, <2>4, <2>5 DEF WindowInv
<1>2. AgentTypeOK /\ WindowInv /\ [AgentNext \/ DamageAtRest]_agentVars => [\A k \in Keys : Inside(k)]_agentVars
  BY <1>1
<1> QED
  BY <1>2, WindowInvariant, PTL DEF DamageSpec, SwitchInsideWindow

\* Whatever step a crash hits, the recovery after it ends with no window on
\* record and no marker in any key directory.
THEOREM RecoveryAlwaysClosesWindow == DamageSpec => RecoveryClosesWindow
<1> DEFINE Closes == (pc \in {"boot", "bootAbort"} /\ pc' = "serve") =>
                       (~prepared'.on /\ (\A k \in Keys : ~pending'[k]))
<1>1. ASSUME AgentTypeOK, BootInv, AgentNext PROVE Closes
  <2>1. SUFFICES ASSUME pc \in {"boot", "bootAbort"}, pc' = "serve"
                 PROVE  ~prepared'.on /\ (\A k \in Keys : ~pending'[k])
    OBVIOUS
  <2>2. RecoverAbort \/ RecoverDone
    BY <1>1, <2>1 DEF AgentNext, Request, HandlerStep, RecoveryStep, OnPrepare, OnChunk,
         OnTransferComplete, OnStage, StageRename, StageRecord, OnApplyPrepare, WindowRecord,
         OnApplyCommit, ActivateUnmark, CommitResolve, CommitRecord, CommitFinding,
         PrunePayloads, OnApplyAbort, AbortNote, AbortResolve, OnRetire, Crash, Open,
         RecoverKey, RecoverUnmark, RecoverResolve, RecoverCommit, RecoverNote
  <2>3. CASE RecoverAbort
    BY <1>1, <2>3 DEF RecoverAbort, BootInv, NoWindow, files
  <2>4. CASE RecoverDone
    BY <1>1, <2>4 DEF RecoverDone, BootInv, journal, files
  <2> QED
    BY <2>2, <2>3, <2>4
<1>2. ASSUME AgentTypeOK, DamageAtRest PROVE Closes
  BY <1>2, DamageFrame
<1>3. AgentTypeOK /\ BootInv /\ [AgentNext \/ DamageAtRest]_agentVars => [Closes]_agentVars
  BY <1>1, <1>2
<1> QED
  BY <1>3, WindowInvariant, PTL DEF DamageSpec, RecoveryClosesWindow

-----------------------------------------------------------------------------
(* The staging files and the live area.                                    *)

\* While the process runs, a byte count is the length of the file, and what
\* is marked verified hashes.
FileBacked(d) ==
  /\ xfer[d].bytes = staging[d].len
  /\ xfer[d].verified => Hashes(staging[d], d)

\* While it is down, the count is the journaled one, and what is left of a
\* verified file is a prefix of the right bytes: if its length still reaches
\* the count, it still hashes.
Prefix(d) ==
  /\ xfer[d].bytes = xfer[d].saved
  /\ xfer[d].verified => staging[d].len <= d.size /\ staging[d].good = staging[d].len

TransferInv(d) ==
  /\ ~xfer[d].open => xfer[d].bytes = 0 /\ xfer[d].saved = 0 /\ ~xfer[d].verified
  /\ ~staging[d].here => staging[d].len = 0
  /\ xfer[d].verified => xfer[d].saved = d.size
  /\ IF pc = "down" THEN Prefix(d) ELSE FileBacked(d)

\* What is being copied into the live area is marked verified.
CopyVerified == pc = "copy" => xfer[job].verified

AreaInv == LiveAreaVerified /\ CopyVerified /\ \A d \in Deployments : TransferInv(d)

\* The other deployments of a step that works on one.
LEMMA TransferFrame ==
  ASSUME NEW d \in Deployments, TransferInv(d), xfer'[d] = xfer[d],
         staging'[d] = staging[d], (pc = "down") <=> (pc' = "down")
  PROVE  TransferInv(d)'
  BY DEF TransferInv, Prefix, FileBacked, Hashes

\* A step that leaves transfers and files alone keeps the area invariant.
LEMMA AreaFrame ==
  ASSUME AreaInv, UNCHANGED <<xfer, staging>>, (pc = "down") <=> (pc' = "down"),
         LiveAreaVerified', CopyVerified'
  PROVE  AreaInv'
  BY TransferFrame DEF AreaInv

\* Destroying a transfer leaves the others as they are.
LEMMA DestroyKeeps ==
  ASSUME AgentTypeOK, AreaInv, NEW d \in Deployments, DestroyTransfer(d),
         pc # "down", pc' # "down", LiveAreaVerified', CopyVerified'
  PROVE  AreaInv'
<1>1. \A e \in Deployments \ {d} : xfer'[e] = xfer[e] /\ staging'[e] = staging[e]
  BY DEF DestroyTransfer, AgentTypeOK
<1>2. xfer'[d] = NoXfer /\ staging'[d] = NoFile
  BY DEF DestroyTransfer, AgentTypeOK
<1>3. TransferInv(d)'
  BY <1>2 DEF TransferInv, FileBacked, NoXfer, NoFile
<1> QED
  BY <1>1, <1>3, TransferFrame DEF AreaInv

\* A copy is no payload yet.
LEMMA CopiedVerified ==
  ASSUME NEW fs \in SUBSET PayloadFile, \A f \in fs : IsSet(f) => f.ok
  PROVE  \A f \in Copied(fs) : IsSet(f) => f.ok
<1>1. ~IsSet(PartFile)
  BY DEF IsSet, PartFile
<1>2. \A f \in fs : [f EXCEPT !.age = @ + 1].ok = f.ok /\ [f EXCEPT !.age = @ + 1].gen = f.gen
  BY DEF PayloadFile
<1> QED
  BY <1>1, <1>2 DEF Copied, IsSet

\* A verified staging file joins a verified directory.
LEMMA PlacedVerified ==
  ASSUME NEW d \in Deployments, NEW fs \in SUBSET PayloadFile,
         \A f \in fs : IsSet(f) => f.ok, Hashes(staging[d], d)
  PROVE  \A f \in Placed(fs, d) : IsSet(f) => f.ok
<1> DEFINE old == {f \in fs : SameName(f, d)}
           aged(f) == [f EXCEPT !.age = IF \E o \in old : o.age < f.age
                                        THEN @ - 1 ELSE @]
           new == [gen |-> d.gen, digest |-> d.digest, age |-> 0,
                   ok |-> Hashes(staging[d], d)]
<1>1. new.ok
  OBVIOUS
<1>2. \A f \in fs : aged(f).ok = f.ok /\ aged(f).gen = f.gen
  BY DEF PayloadFile
<1>3. Placed(fs, d) = {aged(f) : f \in fs \ (old \cup {PartFile})} \cup {new}
  BY DEF Placed
<1> HIDE DEF aged, new, old
<1> QED
  BY <1>1, <1>2, <1>3 DEF IsSet

\* Every request keeps the area invariant: only hashed bytes are staged.
LEMMA AreaRequest == AgentTypeOK /\ AreaInv /\ Request => AreaInv'
<1> SUFFICES ASSUME AgentTypeOK, AreaInv, Request PROVE AreaInv'
  OBVIOUS
<1>1. ASSUME NEW d \in Deployments, OnPrepare(d) PROVE AreaInv'
  <2>1. /\ pc = "serve" /\ pc' = pc /\ payload' = payload
        /\ xfer \in [Deployments -> Transfer] /\ staging \in [Deployments -> StagingFile]
    BY <1>1 DEF OnPrepare, AgentTypeOK
  <2>2. CASE PrepareCode(d) # "Ok"
    BY <1>1, <2>1, <2>2, AreaFrame DEF OnPrepare, AreaInv, LiveAreaVerified, CopyVerified
  <2>3. CASE PrepareCode(d) = "Ok"
    <3>1. \A e \in Deployments \ {d} : xfer'[e] = xfer[e] /\ staging'[e] = staging[e]
      BY <1>1, <2>1, <2>3 DEF OnPrepare
    <3>2. /\ xfer'[d].bytes = ResumeFrom(d) /\ ~xfer'[d].verified /\ xfer'[d].open
          /\ staging'[d] = IF xfer[d].open /\ xfer[d].verified /\ ResumeFrom(d) = 0
                           THEN NoFile ELSE staging[d]
      BY <1>1, <2>1, <2>3 DEF OnPrepare
    <3>3. staging'[d].len = ResumeFrom(d) /\ (~staging'[d].here => staging'[d].len = 0)
      <4>1. FileBacked(d) /\ (~staging[d].here => staging[d].len = 0)
        BY <2>1 DEF AreaInv, TransferInv
      <4>2. staging[d].len \in Nat /\ d.size \in Nat \ {0} /\ NoFile.len = 0
        BY <2>1, DeploymentFields DEF StagingFile, NoFile
      <4>3. CASE xfer[d].open
        BY <3>2, <4>1, <4>2, <4>3 DEF ResumeFrom, FileBacked, Hashes, NoFile
      <4>4. CASE ~xfer[d].open
        <5>1. staging[d].len = 0
          BY <2>1, <4>1, <4>4 DEF AreaInv, TransferInv, FileBacked, NoXfer
        <5> QED
          BY <3>2, <4>4, <5>1 DEF ResumeFrom, NoFile
      <4> QED
        BY <4>1, <4>3, <4>4, <3>2 DEF NoFile
    <3>4. TransferInv(d)'
      BY <2>1, <3>2, <3>3 DEF TransferInv, FileBacked
    <3> QED
      BY <2>1, <3>1, <3>4, TransferFrame DEF AreaInv, LiveAreaVerified, CopyVerified
  <2> QED
    BY <2>2, <2>3
<1>2. ASSUME NEW d \in Deployments, OnTransferComplete(d) PROVE AreaInv'
  <2>1. /\ pc = "serve" /\ pc' = pc /\ payload' = payload
        /\ xfer \in [Deployments -> Transfer] /\ staging \in [Deployments -> StagingFile]
    BY <1>2 DEF OnTransferComplete, AgentTypeOK
  <2>2. LiveAreaVerified' /\ CopyVerified'
    BY <2>1 DEF AreaInv, LiveAreaVerified, CopyVerified
  <2>3. CASE CompleteCode(d) = "Ok"
    <3>1. \A e \in Deployments \ {d} : xfer'[e] = xfer[e] /\ staging'[e] = staging[e]
      BY <1>2, <2>1, <2>3 DEF OnTransferComplete
    <3>2. /\ xfer'[d].bytes = xfer[d].bytes /\ xfer'[d].saved = xfer[d].bytes
          /\ xfer'[d].open = xfer[d].open /\ staging' = staging
      BY <1>2, <2>1, <2>3 DEF OnTransferComplete, Transfer
    <3>3. xfer[d].open /\ xfer[d].bytes = d.size /\ Hashes(staging[d], d)
      BY <2>3 DEF CompleteCode
    <3>4. TransferInv(d)'
      BY <2>1, <3>2, <3>3 DEF AreaInv, TransferInv, FileBacked, Hashes
    <3> QED
      BY <2>1, <2>2, <3>1, <3>4, TransferFrame DEF AreaInv
  <2>4. CASE CompleteCode(d) = "DigestMismatch"
    <3>1. DestroyTransfer(d)
      BY <1>2, <2>4 DEF OnTransferComplete
    <3> QED
      BY <2>1, <2>2, <3>1, DestroyKeeps
  <2>5. CASE CompleteCode(d) \notin {"Ok", "DigestMismatch"}
    BY <1>2, <2>1, <2>2, <2>5, AreaFrame DEF OnTransferComplete
  <2> QED
    BY <2>3, <2>4, <2>5
<1>3. ASSUME NEW d \in Deployments, NEW offset \in 0 .. MaxArtifact,
             NEW good \in BOOLEAN, OnChunk(d, offset, good)
      PROVE  AreaInv'
  <2>1. /\ pc = "serve" /\ pc' = pc /\ payload' = payload
        /\ xfer \in [Deployments -> Transfer] /\ staging \in [Deployments -> StagingFile]
        /\ offset \in Nat
    BY <1>3, BoundsAssumption DEF OnChunk, AgentTypeOK
  <2>2. LiveAreaVerified' /\ CopyVerified'
    BY <2>1 DEF AreaInv, LiveAreaVerified, CopyVerified
  <2>3. CASE ChunkCode(d, offset) = "Ok"
    <3>1. \A e \in Deployments \ {d} : xfer'[e] = xfer[e] /\ staging'[e] = staging[e]
      BY <1>3, <2>1, <2>3 DEF OnChunk
    <3>2. /\ xfer'[d].bytes = offset + 1 /\ xfer'[d].verified = xfer[d].verified
          /\ xfer'[d].open = xfer[d].open
          /\ staging'[d] = Written(staging[d], offset, good)
      BY <1>3, <2>1, <2>3, ZenonT(30) DEF OnChunk, Transfer
    <3>3. xfer[d].open /\ offset = xfer[d].bytes /\ ~(offset + 1 > d.size)
      BY <2>3 DEF ChunkCode
    <3>4. FileBacked(d) /\ d.size \in Nat
      BY <2>1, DeploymentFields DEF AreaInv, TransferInv
    <3>5. ~xfer[d].verified
      BY <2>1, <3>3, <3>4 DEF FileBacked, Hashes
    <3>6. Written(staging[d], offset, good).len = offset + 1
          /\ Written(staging[d], offset, good).here
      BY <2>1, <3>3, <3>4 DEF Written, FileBacked
    <3>7. TransferInv(d)'
      BY <2>1, <3>2, <3>3, <3>5, <3>6 DEF TransferInv, FileBacked
    <3> QED
      BY <2>1, <2>2, <3>1, <3>7, TransferFrame DEF AreaInv
  <2>4. CASE ChunkCode(d, offset) # "Ok"
    BY <1>3, <2>1, <2>2, <2>4, AreaFrame DEF OnChunk
  <2> QED
    BY <2>3, <2>4
<1>4. ASSUME NEW m \in Instructions, OnStage(m) PROVE AreaInv'
  <2>1. pc = "serve" /\ pc' # "down" /\ UNCHANGED <<xfer, staging>>
    BY <1>4 DEF OnStage, journal
  <2>2. CASE StageCode(m) # "Ok"
    BY <1>4, <2>1, <2>2, AreaFrame DEF OnStage, AreaInv, LiveAreaVerified, CopyVerified
  <2>3. CASE StageCode(m) = "Ok"
    <3>1. m.dep \in Deployments /\ m.dep.key \in Keys /\ payload \in [Keys -> SUBSET PayloadFile]
      BY DeploymentFields DEF Instructions, AgentTypeOK
    <3>2. CopyVerified'
      BY <1>4, <2>1, <2>3 DEF StageCode, OnStage, CopyVerified
    <3>3. \A f \in Copied(payload[m.dep.key]) : IsSet(f) => f.ok
      BY <3>1, CopiedVerified DEF AreaInv, LiveAreaVerified
    <3>4. LiveAreaVerified'
      BY <1>4, <2>3, <3>1, <3>3 DEF OnStage, AreaInv, LiveAreaVerified, IsSet
    <3> QED
      BY <2>1, <3>2, <3>4, AreaFrame
  <2> QED
    BY <2>2, <2>3
<1>5. ASSUME NEW m \in Instructions, OnApplyPrepare(m) \/ OnApplyCommit(m) \/ OnApplyAbort(m)
      PROVE  AreaInv'
  <2>1. pc = "serve" /\ pc' \notin {"down", "copy"} /\ UNCHANGED <<xfer, staging, payload>>
    BY <1>5 DEF OnApplyPrepare, OnApplyCommit, OnApplyAbort, journal
  <2> QED
    BY <2>1, AreaFrame DEF AreaInv, LiveAreaVerified, CopyVerified
<1>6. ASSUME NEW m \in Instructions, OnRetire(m) PROVE AreaInv'
  <2>1. /\ pc = "serve" /\ pc' = "serve" /\ UNCHANGED payload /\ m.dep \in Deployments
        /\ UNCHANGED <<xfer, staging>> \/ DestroyTransfer(m.dep)
    BY <1>6 DEF OnRetire, Instructions
  <2>2. LiveAreaVerified' /\ CopyVerified'
    BY <2>1 DEF AreaInv, LiveAreaVerified, CopyVerified
  <2> QED
    BY <2>1, <2>2, AreaFrame, DestroyKeeps
<1> QED
  BY <1>1, <1>2, <1>3, <1>4, <1>5, <1>6 DEF Request

\* So do handler steps, recovery and crashes that shorten staging files.
LEMMA AreaOtherSteps == AgentTypeOK /\ AreaInv /\ (HandlerStep \/ RecoveryStep \/ Crash) => AreaInv'
<1> SUFFICES ASSUME AgentTypeOK, AreaInv, HandlerStep \/ RecoveryStep \/ Crash PROVE AreaInv'
  OBVIOUS
<1>T. /\ xfer \in [Deployments -> Transfer] /\ staging \in [Deployments -> StagingFile]
      /\ payload \in [Keys -> SUBSET PayloadFile]
  BY DEF AgentTypeOK
<1>0. CASE StageRename
  <2>1. /\ job \in Deployments /\ job.key \in Keys /\ pc = "copy" /\ pc' = "stage"
        /\ UNCHANGED <<xfer, staging>>
        /\ payload' = [payload EXCEPT ![job.key] = Placed(payload[job.key], job)]
    BY <1>0, DeploymentFields DEF StageRename, AgentTypeOK, HandlerSteps, journal
  <2>2. Hashes(staging[job], job)
    BY <2>1 DEF AreaInv, CopyVerified, TransferInv, FileBacked
  <2>3. \A f \in Placed(payload[job.key], job) : IsSet(f) => f.ok
    BY <1>T, <2>1, <2>2, PlacedVerified DEF AreaInv, LiveAreaVerified
  <2>4. LiveAreaVerified'
    BY <1>T, <2>1, <2>3 DEF AreaInv, LiveAreaVerified, IsSet
  <2> QED
    BY <2>1, <2>4, AreaFrame DEF CopyVerified
<1>1. CASE StageRecord
  <2>1. job \in Deployments /\ pc # "down" /\ pc' \notin {"down", "copy"} /\ UNCHANGED <<staging, payload>>
    BY <1>1 DEF StageRecord, AgentTypeOK, HandlerSteps, files
  <2>2. \A e \in Deployments \ {job} : xfer'[e] = xfer[e]
    BY <1>1, <1>T, <2>1 DEF StageRecord
  <2>3. /\ xfer'[job].bytes = xfer[job].bytes /\ xfer'[job].saved = xfer[job].bytes
        /\ xfer'[job].verified = xfer[job].verified
    BY <1>1, <1>T, <2>1 DEF StageRecord, Transfer
  <2>4. xfer'[job].open = xfer[job].open
    BY <1>1, <1>T, <2>1 DEF StageRecord, Transfer
  <2>5. TransferInv(job) /\ FileBacked(job)
    BY <2>1 DEF AreaInv, TransferInv
  <2>7. LiveAreaVerified' /\ CopyVerified'
    BY <2>1 DEF AreaInv, LiveAreaVerified, CopyVerified
  <2>8. ASSUME NEW e \in Deployments, e # job PROVE TransferInv(e)'
    BY <2>1, <2>2, <2>8, TransferFrame DEF AreaInv
  <2>9. ASSUME NEW e \in Deployments PROVE TransferInv(e)'
    <3>1. CASE e = job
      BY <1>1, <2>1, <2>3, <2>4, <2>5, <3>1 DEF TransferInv, FileBacked, Hashes
    <3> QED
      BY <2>8, <3>1
  <2> QED
    BY <2>7, <2>9 DEF AreaInv
<1>2. CASE PrunePayloads
  <2>1. /\ job \in Deployments /\ job.key \in Keys /\ pc # "down" /\ pc' \notin {"down", "copy"}
        /\ UNCHANGED <<xfer, staging>>
    BY <1>2, DeploymentFields DEF PrunePayloads, AgentTypeOK, HandlerSteps, journal
  <2>2. LiveAreaVerified' /\ CopyVerified'
    BY <1>2, <1>T, <2>1 DEF PrunePayloads, AreaInv, LiveAreaVerified, CopyVerified, IsSet
  <2> QED
    BY <2>1, <2>2, AreaFrame
<1>3. CASE Crash
  <2>1. pc' = "down" /\ pc # "down" /\ UNCHANGED payload
    BY <1>3 DEF Crash
  <2>2. ASSUME NEW d \in Deployments PROVE TransferInv(d)'
    <3>1. xfer'[d] = [xfer[d] EXCEPT !.bytes = xfer[d].saved] /\ xfer[d] \in Transfer
      BY <1>3, <1>T DEF Crash
    <3>2. staging'[d] \in Remains(staging[d]) /\ staging[d] \in StagingFile
      BY <1>3, <1>T DEF Crash
    <3>3. /\ xfer'[d].bytes = xfer[d].saved /\ xfer'[d].saved = xfer[d].saved
          /\ xfer'[d].verified = xfer[d].verified /\ xfer'[d].open = xfer[d].open
      BY <3>1 DEF Transfer
    <3>4. TransferInv(d) /\ FileBacked(d) /\ d.size \in Nat
      BY <2>1, DeploymentFields DEF AreaInv, TransferInv
    <3>5. ~xfer'[d].open => /\ xfer'[d].bytes = 0 /\ xfer'[d].saved = 0
                            /\ ~xfer'[d].verified
      BY <3>3, <3>4 DEF TransferInv
    <3> DEFINE f == staging[d]
    <3>6. f.len \in Nat /\ f.good \in Nat /\ f \in StagingFile
      BY <3>2 DEF StagingFile
    <3>7. /\ ~staging'[d].here => staging'[d].len = 0
          /\ xfer[d].verified => staging'[d].len <= d.size /\ staging'[d].good = staging'[d].len
      <4>1. CASE staging'[d] = NoFile
        BY <3>4, <4>1 DEF NoFile
      <4>2. CASE staging'[d] # NoFile
        <5>1. PICK n \in 0 .. f.len : staging'[d] = Shorter(f, n)
          BY <3>2, <4>2 DEF Remains
        <5>2. n \in Nat /\ n <= f.len
          BY <3>6, <5>1
        <5>3. CASE f.len <= n
          <6>1. staging'[d] = f
            BY <5>1, <5>3 DEF Shorter
          <6> QED
            BY <3>4, <3>6, <6>1 DEF TransferInv, FileBacked, Hashes
        <5>4. CASE ~(f.len <= n)
          <6>1. /\ staging'[d].here = f.here /\ staging'[d].len = n
                /\ staging'[d].good = IF f.good < n THEN f.good ELSE n
            BY <3>6, <5>1, <5>4 DEF Shorter, StagingFile
          <6>2. ~f.here => f.len = 0
            BY <3>4 DEF TransferInv
          <6>3. xfer[d].verified => f.len = d.size /\ f.good = d.size
            BY <3>4 DEF FileBacked, Hashes
          <6> HIDE DEF f
          <6> QED
            BY <3>4, <3>6, <5>2, <5>4, <6>1, <6>2, <6>3
        <5> QED
          BY <5>3, <5>4
      <4> QED
        BY <4>1, <4>2
    <3> QED
      BY <2>1, <3>3, <3>4, <3>5, <3>7 DEF TransferInv, Prefix
  <2> QED
    BY <2>1, <2>2 DEF AreaInv, LiveAreaVerified, CopyVerified, IsSet
<1>4. CASE Open
  <2>1. pc = "down" /\ pc' = "boot" /\ UNCHANGED payload
    BY <1>4 DEF Open
  <2>2. ASSUME NEW d \in Deployments PROVE TransferInv(d)'
    <3>1. TransferInv(d) /\ Prefix(d) /\ d.size \in Nat /\ xfer[d] \in Transfer
          /\ staging[d] \in StagingFile
      BY <1>T, <2>1, DeploymentFields DEF AreaInv, TransferInv
    <3>2. CASE ~Supported(d)
      <4>1. xfer'[d] = NoXfer /\ staging'[d] = NoFile
        BY <1>4, <3>2 DEF Open
      <4> QED
        BY <2>1, <4>1 DEF TransferInv, FileBacked, NoXfer, NoFile
    <3>3. CASE Supported(d)
      <4>1. xfer'[d] = xfer[d] /\ staging'[d] = Shorter(staging[d], xfer[d].bytes)
        BY <1>4, <3>3 DEF Open
      <4>2. /\ xfer[d].open /\ staging[d].here /\ staging[d].len >= xfer[d].bytes
            /\ xfer[d].bytes \in Nat /\ staging[d].len \in Nat /\ staging[d].good \in Nat
        BY <3>1, <3>3 DEF Supported, Transfer, StagingFile
      <4>3. staging'[d].len = xfer[d].bytes /\ staging'[d].here
        BY <3>1, <4>1, <4>2 DEF Shorter, StagingFile
      <4>4. xfer[d].verified => Hashes(staging'[d], d)
        BY <3>1, <4>1, <4>2 DEF TransferInv, Prefix, Hashes, Shorter, StagingFile
      <4> QED
        BY <2>1, <3>1, <4>1, <4>2, <4>3, <4>4 DEF TransferInv, FileBacked
    <3> QED
      BY <3>2, <3>3
  <2> QED
    BY <2>1, <2>2 DEF AreaInv, LiveAreaVerified, CopyVerified, IsSet
<1>5. CASE \/ WindowRecord \/ ActivateUnmark \/ CommitResolve \/ CommitRecord
           \/ CommitFinding \/ AbortNote \/ AbortResolve \/ (\E k \in Keys : RecoverKey(k))
           \/ RecoverUnmark \/ RecoverResolve \/ RecoverCommit \/ RecoverNote
           \/ RecoverAbort \/ RecoverDone
  <2>1. pc # "down" /\ pc' \notin {"down", "copy"} /\ UNCHANGED <<xfer, staging, payload>>
    BY <1>5 DEF WindowRecord, ActivateUnmark, CommitResolve, CommitRecord, CommitFinding,
       AbortNote, AbortResolve, RecoverKey, RecoverUnmark, RecoverResolve, RecoverCommit,
       RecoverNote, RecoverAbort, RecoverDone, journal, files
  <2> QED
    BY <2>1, AreaFrame DEF AreaInv, LiveAreaVerified, CopyVerified
<1> QED
  BY <1>0, <1>1, <1>2, <1>3, <1>4, <1>5 DEF HandlerStep, RecoveryStep

\* Every step keeps the area invariant.
LEMMA AreaStep ==
  ASSUME AgentTypeOK, AreaInv, [AgentNext]_agentVars
  PROVE  AreaInv'
<1>1. CASE AgentNext
  BY <1>1, AreaRequest, AreaOtherSteps DEF AgentNext
<1>2. CASE UNCHANGED agentVars
  BY <1>2, AreaFrame DEF agentVars, journal, files, process, AreaInv, LiveAreaVerified,
              CopyVerified, IsSet
<1> QED
  BY <1>1, <1>2

\* The first state, and any number of steps.
LEMMA AreaInvariant == AgentSpec => [](AgentTypeOK /\ AreaInv)
<1>1. AgentInit => AreaInv
  BY DEF AgentInit, AreaInv, LiveAreaVerified, CopyVerified, TransferInv, Prefix, NoXfer, NoFile
<1>2. AgentTypeOK /\ AreaInv /\ [AgentNext]_agentVars => AreaInv'
  BY AreaStep
<1> QED
  BY <1>1, <1>2, AgentTypes, PTL DEF AgentSpec

\* Digest before activation, for any deployments, sizes and bounds: every
\* payload in the live area hashes to the digest it is named after.
THEOREM AreaAlwaysVerified == AgentSpec => []LiveAreaVerified
<1>1. AreaInv => LiveAreaVerified
  BY DEF AreaInv
<1> QED
  BY <1>1, AreaInvariant, PTL

\* The byte count a resumed transfer starts from is always backed by the
\* staging file, and a transfer marked verified still hashes.
THEOREM TransfersAlwaysBacked == AgentSpec => []TransferBacked
<1>1. AreaInv => TransferBacked
  BY DEF AreaInv, TransferInv, FileBacked, TransferBacked
<1> QED
  BY <1>1, AreaInvariant, PTL
-----------------------------------------------------------------------------
(* What runs, what is on record and what was answered, for a single key.   *)
(* With several keys the committed pair of one key is overwritten by the   *)
(* other's, and none of this holds.                                        *)

OneKey == \A j, k \in Keys : j = k

\* Pruning goes by the age of files and not by the pointer.  It is harmless as
\* long as it removes only what is older than the generation just committed.
RetentionSuffices ==
  pc = "prune" =>
    \A f \in payload[job.key] : f.age < RetainedPayloads \/ f.gen < job.gen

\* The directory of the key has a payload under the name of p.
HasFile(k, p) == \E f \in payload[k] : SameName(f, p)

\* A staged artifact that may still be committed, the one being staged and the
\* one that is running have their payloads.
FilesInv ==
  /\ \A d \in Deployments :
       xfer[d].staged /\ d.gen > current[d.key].gen => HasFile(d.key, d)
  /\ pc = "stage" => HasFile(job.key, job)
  /\ \A k \in Keys : IsSet(current[k]) => HasFile(k, current[k])

\* The record is the pointer, except from the switch to the TargetCommit record
\* and from a crash in between until recovery has visited the directory; it is
\* never ahead of the pointer.
RecordInv ==
  /\ \A k \in Keys : committed.gen <= current[k].gen
  /\ pc \in {"serve", "copy", "stage", "window", "abortNote", "abortResolve", "finding", "prune",
             "bootAbort"} => \A k \in Keys : committed = current[k]
  /\ pc \in {"unmark", "resolve", "commit", "finding", "prune"} => current[job.key] = Ptr(job)
  /\ pc = "boot" => \A k \in Keys : k \notin scan => committed = current[k]

\* No finding is ahead of the pointer, and those on record when a pair has been
\* switched to are behind it.
FindingsInv ==
  /\ \A e \in Entries : e.gen <= current[e.key].gen
  /\ pc \in {"unmark", "resolve", "commit", "finding"} => \A e \in Entries : e.gen < job.gen

LiveInv == FilesInv /\ RecordInv /\ FindingsInv /\ AckedIsLive


\* A copy takes no name away.
LEMMA CopiedNames ==
  ASSUME NEW fs \in SUBSET PayloadFile, NEW p, \E f \in fs : SameName(f, p)
  PROVE  \E f \in Copied(fs) : SameName(f, p)
<1>1. PICK f \in fs : SameName(f, p)
  OBVIOUS
<1>2. SameName([f EXCEPT !.age = @ + 1], p)
  BY <1>1 DEF SameName, PayloadFile
<1>3. [f EXCEPT !.age = @ + 1] \in Copied(fs)
  BY DEF Copied
<1> QED BY <1>2, <1>3

\* The rename takes none away either, and adds its own.
LEMMA PlacedNames ==
  ASSUME NEW d \in Deployments, NEW fs \in SUBSET PayloadFile
  PROVE  /\ \E f \in Placed(fs, d) : SameName(f, d)
         /\ \A p : IsSet(p) /\ (\E f \in fs : SameName(f, p)) =>
                      \E f \in Placed(fs, d) : SameName(f, p)
<1> DEFINE old == {f \in fs : SameName(f, d)}
           aged(f) == [f EXCEPT !.age = IF \E o \in old : o.age < f.age
                                        THEN @ - 1 ELSE @]
           new == [gen |-> d.gen, digest |-> d.digest, age |-> 0,
                   ok |-> Hashes(staging[d], d)]
<1>1. SameName(new, d)
  BY DEF SameName
<1>2. ASSUME NEW p, NEW f \in fs, SameName(f, p) PROVE SameName(aged(f), p)
  BY <1>2 DEF SameName, PayloadFile
<1>3. Placed(fs, d) = {aged(f) : f \in fs \ (old \cup {PartFile})} \cup {new}
  BY DEF Placed
<1>4. ASSUME NEW p, NEW f \in old, SameName(f, p) PROVE SameName(new, p)
  BY <1>4 DEF SameName
<1>6. ASSUME NEW p, IsSet(p) PROVE ~SameName(PartFile, p)
  BY <1>6 DEF SameName, PartFile, IsSet
<1> HIDE DEF aged, new
<1>5. ASSUME NEW p, IsSet(p), NEW f \in fs, SameName(f, p)
      PROVE  \E g \in Placed(fs, d) : SameName(g, p)
  <2>1. CASE f \in old
    BY <1>3, <1>4, <1>5, <2>1
  <2>2. CASE f \notin old
    <3> HIDE DEF old
    <3>1. aged(f) \in Placed(fs, d)
      BY <1>3, <1>5, <1>6, <2>2
    <3> QED BY <1>2, <1>5, <3>1
  <2> QED BY <2>1, <2>2
<1> QED
  BY <1>1, <1>3, <1>5

\* A pointer of generation 0 is no pointer.
LEMMA UnsetPointer == \A p \in Pointer : p.gen \in Nat /\ (p.gen = 0 => p = Unset)
  BY DEF Pointer, Unset

\* A commit that is accepted is newer than what is running, and one that is
\* taken for a duplicate is what is running.
LEMMA CommitFacts ==
  ASSUME OneKey, AgentTypeOK, LiveInv, pc = "serve", NEW m \in Instructions
  PROVE  /\ CommitCode(m) = "Ok" => m.dep.gen > current[m.dep.key].gen /\ xfer[m.dep].staged
         /\ CommitCode(m) = "DuplicateSuppressed" =>
              current[m.dep.key] = [gen |-> m.gen, digest |-> m.dep.digest]
<1>1. m.dep \in Deployments /\ m.dep.key \in Keys /\ m.dep.gen \in Nat \ {0} /\ m.gen \in Nat \ {0}
  BY DeploymentFields DEF Instructions, Gens
<1>2. /\ committed = current[m.dep.key] /\ committed \in Pointer
      /\ committed.gen \in Nat
  BY <1>1, UnsetPointer DEF LiveInv, RecordInv, AgentTypeOK
<1>3. CASE CommitCode(m) = "Ok"
  <2>1. m.gen = m.dep.gen /\ xfer[m.dep].staged /\ ~Stale(m.gen)
        /\ ~IsCommitted(m.gen, m.dep.digest) /\ ~Conflicting(m.gen, m.dep.digest)
    BY <1>3 DEF CommitCode
  <2> QED BY <1>1, <1>2, <1>3, <2>1 DEF Stale, IsCommitted, Conflicting, IsSet
<1>4. CASE CommitCode(m) = "DuplicateSuppressed"
  <2>1. CASE IsCommitted(m.gen, m.dep.digest)
    <3>1. committed \in [gen : Nat \ {0}, digest : Digests]
      BY <1>2, <2>1 DEF Pointer, IsCommitted, IsSet, Unset
    <3>2. committed.gen = m.gen /\ committed.digest = m.dep.digest
      BY <2>1 DEF IsCommitted
    <3>3. committed = [gen |-> m.gen, digest |-> m.dep.digest]
      BY <3>1, <3>2
    <3> QED BY <1>2, <1>4, <3>3
  <2>2. CASE ~IsCommitted(m.gen, m.dep.digest)
    <3>1. ~Stale(m.gen) /\ ~Conflicting(m.gen, m.dep.digest)
          /\ \E e \in Entries : e.gen = m.gen /\ e.digest = m.dep.digest
      BY <1>4, <2>2 DEF CommitCode
    <3>2. PICK e \in Entries : e.gen = m.gen /\ e.digest = m.dep.digest
      BY <3>1
    <3>3. e \in Finding
      BY <3>2 DEF Entries, AgentTypeOK
    <3>4. e.gen <= current[e.key].gen /\ e.key \in Keys
      BY <3>2, <3>3 DEF LiveInv, FindingsInv, Finding
    <3>5. e.key = m.dep.key
      BY <1>1, <3>4 DEF OneKey
    <3>6. m.gen <= committed.gen
      BY <1>2, <3>2, <3>4, <3>5
    <3> QED BY <1>1, <1>2, <2>2, <3>1, <3>6 DEF Stale, Conflicting, IsCommitted, IsSet
  <2> QED BY <2>1, <2>2
<1> QED BY <1>3, <1>4

\* What a step that leaves the live area, the record and the findings alone, and
\* stages nothing, has no need to look at.
LEMMA LiveFrame ==
  ASSUME LiveInv, UNCHANGED <<payload, current, committed, findings>>,
         \A d \in Deployments : xfer'[d].staged => xfer[d].staged,
         acked' = {} \/ acked' = acked
  PROVE  /\ (\A d \in Deployments :
               xfer[d].staged /\ d.gen > current[d.key].gen => HasFile(d.key, d))'
         /\ (\A k \in Keys : IsSet(current[k]) => HasFile(k, current[k]))'
         /\ (\A k \in Keys : committed.gen <= current[k].gen)'
         /\ (\A e \in Entries : e.gen <= current[e.key].gen)'
         /\ Entries' = Entries
         /\ AckedIsLive'
<1>1. \A k, p : HasFile(k, p)' <=> HasFile(k, p)
  BY DEF HasFile
<1>2. Entries' = Entries
  BY DEF Entries
<1>3. (\A k \in Keys : IsSet(current[k]) => HasFile(k, current[k]))'
  BY DEF LiveInv, FilesInv, HasFile, IsSet
<1>4. AckedIsLive'
  BY DEF LiveInv, AckedIsLive
<1>5. (\A e \in Entries : e.gen <= current[e.key].gen)'
  BY <1>2 DEF LiveInv, FindingsInv
<1>6. (\A k \in Keys : committed.gen <= current[k].gen)'
  BY DEF LiveInv, RecordInv
<1>7. (\A d \in Deployments :
         xfer[d].staged /\ d.gen > current[d.key].gen => HasFile(d.key, d))'
  BY <1>1 DEF LiveInv, FilesInv
<1> QED BY <1>2, <1>3, <1>4, <1>5, <1>6, <1>7

\* Such a step may go to a place where the record is the pointer, if it is.
LEMMA LiveQuiet ==
  ASSUME LiveInv, UNCHANGED <<payload, current, committed, findings>>,
         \A d \in Deployments : xfer'[d].staged => xfer[d].staged,
         acked' = {} \/ acked' = acked,
         pc' \in {"serve", "window", "abortNote", "abortResolve", "bootAbort"},
         \A k \in Keys : committed = current[k]
  PROVE  LiveInv'
  BY LiveFrame DEF LiveInv, FilesInv, RecordInv, FindingsInv

\* It may stop the process or go on with recovery, as long as a directory that
\* needs no visit agrees with the record.
LEMMA LiveBoot ==
  ASSUME LiveInv, UNCHANGED <<payload, current, committed, findings>>,
         \A d \in Deployments : xfer'[d].staged => xfer[d].staged,
         acked' = {} \/ acked' = acked,
         pc' \in {"down", "boot", "bootUnmark", "bootResolve", "bootCommit"},
         pc' = "boot" => \A k \in Keys : k \notin scan' => committed = current[k]
  PROVE  LiveInv'
  BY LiveFrame DEF LiveInv, FilesInv, RecordInv, FindingsInv

\* Offers, chunks, completions and retirements stage nothing.
LEMMA NothingStaged ==
  ASSUME AgentTypeOK,
         \/ \E d \in Deployments : \/ OnPrepare(d)
                                   \/ OnTransferComplete(d)
                                   \/ \E offset \in 0 .. MaxArtifact, good \in BOOLEAN :
                                        OnChunk(d, offset, good)
         \/ \E m \in Instructions : OnRetire(m)
  PROVE  \A d \in Deployments : xfer'[d].staged => xfer[d].staged
<1>0. xfer \in [Deployments -> Transfer] /\ NoXfer.staged = FALSE
  BY DEF AgentTypeOK, NoXfer
<1>1. ASSUME NEW d \in Deployments, OnPrepare(d), NEW e \in Deployments, xfer'[e].staged
      PROVE  xfer[e].staged
  BY <1>0, <1>1 DEF OnPrepare
<1>2. ASSUME NEW d \in Deployments, DestroyTransfer(d), NEW e \in Deployments, xfer'[e].staged
      PROVE  xfer[e].staged
  BY <1>0, <1>2 DEF DestroyTransfer
<1>3. ASSUME NEW d \in Deployments, OnTransferComplete(d), NEW e \in Deployments, xfer'[e].staged
      PROVE  xfer[e].staged
  <2>1. CASE DestroyTransfer(d)
    BY <1>2, <1>3, <2>1
  <2>2. CASE ~DestroyTransfer(d)
    <3>1. \/ xfer' = [xfer EXCEPT ![d].verified = TRUE, ![d].saved = xfer[d].bytes]
          \/ UNCHANGED xfer
      BY <1>3, <2>2 DEF OnTransferComplete
    <3> QED BY <1>0, <1>3, <3>1 DEF Transfer
  <2> QED BY <2>1, <2>2
<1>4. ASSUME NEW d \in Deployments, NEW offset \in 0 .. MaxArtifact, NEW good \in BOOLEAN,
             OnChunk(d, offset, good), NEW e \in Deployments, xfer'[e].staged
      PROVE  xfer[e].staged
  <2> DEFINE noted(n) == [xfer[d] EXCEPT !.bytes = offset + 1, !.saved = n]
  <2>1. (\E n : xfer' = [xfer EXCEPT ![d] = noted(n)]) \/ xfer' = xfer
    BY <1>4, Zenon DEF OnChunk
  <2>2. \A n : noted(n).staged = xfer[d].staged
    BY <1>0 DEF Transfer
  <2> HIDE DEF noted
  <2> QED BY <1>0, <1>4, <2>1, <2>2
<1>5. ASSUME NEW m \in Instructions, OnRetire(m), NEW e \in Deployments, xfer'[e].staged
      PROVE  xfer[e].staged
  BY <1>2, <1>5 DEF OnRetire, Instructions
<1> QED BY <1>1, <1>3, <1>4, <1>5

\* A step that takes no name of a payload away keeps what must have its payload.
LEMMA FilesKept ==
  ASSUME FilesInv, UNCHANGED <<current, xfer>>, current \in [Keys -> Pointer],
         \A k \in Keys : \A p : IsSet(p) /\ HasFile(k, p) => \E f \in payload'[k] : SameName(f, p),
         pc' = "stage" => HasFile(job.key, job)'
  PROVE  FilesInv'
<1>1. ASSUME NEW d \in Deployments, xfer'[d].staged, d.gen > current'[d.key].gen
      PROVE  HasFile(d.key, d)'
  <2>1. HasFile(d.key, d) /\ d.key \in Keys /\ IsSet(d)
    BY <1>1, DeploymentFields DEF FilesInv, IsSet
  <2>2. \E f \in payload'[d.key] : SameName(f, d)
    BY <2>1
  <2> QED BY <2>2 DEF HasFile, SameName
<1>2. ASSUME NEW k \in Keys, IsSet(current[k])'
      PROVE  HasFile(k, current[k])'
  <2>1. HasFile(k, current[k]) /\ IsSet(current[k])
    BY <1>2 DEF FilesInv, IsSet
  <2>2. \E f \in payload'[k] : SameName(f, current[k])
    BY <2>1
  <2> QED BY <2>2 DEF HasFile, SameName
<1> QED BY <1>1, <1>2 DEF FilesInv

\* Every request keeps the live area, the record and the findings in line.
LEMMA LiveRequest ==
  ASSUME OneKey, AgentTypeOK, LiveInv, Request
  PROVE  LiveInv'
<1>0. pc = "serve" => \A k \in Keys : committed = current[k]
  BY DEF LiveInv, RecordInv
<1>1. ASSUME \/ \E d \in Deployments : \/ OnPrepare(d)
                                       \/ OnTransferComplete(d)
                                       \/ \E offset \in 0 .. MaxArtifact, good \in BOOLEAN :
                                            OnChunk(d, offset, good)
             \/ \E m \in Instructions : OnRetire(m)
      PROVE  LiveInv'
  <2>1. /\ pc = "serve" /\ pc' = "serve" /\ acked' = {}
        /\ UNCHANGED <<payload, current, committed, findings>>
    BY <1>1 DEF OnPrepare, OnTransferComplete, OnChunk, OnRetire
  <2>2. \A d \in Deployments : xfer'[d].staged => xfer[d].staged
    BY <1>1, NothingStaged
  <2> QED BY <1>0, <2>1, <2>2, LiveQuiet
<1>2. ASSUME NEW m \in Instructions, OnApplyPrepare(m) \/ OnApplyAbort(m) PROVE LiveInv'
  <2>1. /\ pc = "serve" /\ pc' \in {"serve", "window", "abortNote"} /\ acked' = {}
        /\ UNCHANGED <<payload, current, committed, findings, xfer>>
    BY <1>2 DEF OnApplyPrepare, OnApplyAbort, journal
  <2> QED BY <1>0, <2>1, LiveQuiet
<1>3. ASSUME NEW m \in Instructions, OnStage(m) PROVE LiveInv'
  <2>1. /\ pc = "serve" /\ acked' = {}
        /\ UNCHANGED <<current, committed, findings, xfer>>
    BY <1>3 DEF OnStage, journal
  <2>2. CASE StageCode(m) # "Ok"
    <3>1. pc' = "serve" /\ UNCHANGED payload
      BY <1>3, <2>1, <2>2 DEF OnStage
    <3> QED BY <1>0, <2>1, <3>1, LiveQuiet
  <2>3. CASE StageCode(m) = "Ok"
    <3>1. m.dep \in Deployments /\ m.dep.key \in Keys /\ payload \in [Keys -> SUBSET PayloadFile]
      BY DeploymentFields DEF Instructions, AgentTypeOK
    <3>2. /\ payload' = [payload EXCEPT ![m.dep.key] = Copied(payload[m.dep.key])]
          /\ pc' = "copy"
      BY <1>3, <2>3 DEF OnStage
    <3>3. \A k \in Keys : \A p : HasFile(k, p) => \E f \in payload'[k] : SameName(f, p)
      <4> SUFFICES ASSUME NEW k \in Keys, NEW p, HasFile(k, p)
                   PROVE  \E f \in payload'[k] : SameName(f, p)
        OBVIOUS
      <4>1. CASE k = m.dep.key
        BY <3>1, <3>2, <4>1, CopiedNames DEF HasFile
      <4>2. CASE k # m.dep.key
        BY <3>1, <3>2, <4>2 DEF HasFile
      <4> QED BY <4>1, <4>2
    <3>4. FilesInv'
      BY <2>1, <3>2, <3>3, FilesKept DEF LiveInv, AgentTypeOK
    <3>5. RecordInv' /\ FindingsInv'
      BY <1>0, <2>1, <3>2 DEF LiveInv, RecordInv, FindingsInv, Entries
    <3> QED BY <2>1, <3>4, <3>5 DEF LiveInv, AckedIsLive
  <2> QED BY <2>2, <2>3
<1>4. ASSUME NEW m \in Instructions, OnApplyCommit(m) PROVE LiveInv'
  <2>1. /\ pc = "serve" /\ UNCHANGED <<committed, findings, xfer, payload>>
        /\ m.dep \in Deployments /\ m.dep.key \in Keys /\ current \in [Keys -> Pointer]
    BY <1>4, DeploymentFields DEF OnApplyCommit, journal, Instructions, AgentTypeOK
  <2>2. CASE CommitCode(m) # "Ok"
    <3>1. /\ pc' = "serve" /\ UNCHANGED current
          /\ acked' = {} \/ (acked' = {m} /\ CommitCode(m) = "DuplicateSuppressed")
      BY <1>4, <2>1, <2>2 DEF OnApplyCommit
    <3>2. CASE acked' = {}
      BY <1>0, <2>1, <3>1, <3>2, LiveQuiet
    <3>3. CASE acked' = {m} /\ CommitCode(m) = "DuplicateSuppressed"
      <4>1. current[m.dep.key] = [gen |-> m.gen, digest |-> m.dep.digest]
        BY <2>1, <3>3, CommitFacts
      <4>2. AckedIsLive'
        BY <3>1, <3>3, <4>1 DEF AckedIsLive
      <4>3. FilesInv' /\ RecordInv' /\ FindingsInv'
        BY <2>1, <3>1 DEF LiveInv, FilesInv, RecordInv, FindingsInv, HasFile, Entries, IsSet
      <4> QED BY <4>2, <4>3 DEF LiveInv
    <3> QED BY <3>1, <3>2, <3>3
  <2>3. CASE CommitCode(m) = "Ok"
    <3>1. /\ current' = [current EXCEPT ![m.dep.key] = Ptr(m.dep)] /\ job' = m.dep
          /\ pc' \in {"commit", "unmark"} /\ acked' = {}
      BY <1>4, <2>3 DEF OnApplyCommit
    <3>2. m.dep.gen > current[m.dep.key].gen /\ xfer[m.dep].staged
      BY <2>1, <2>3, CommitFacts
    <3>3. \A k \in Keys : k = m.dep.key /\ current'[k] = Ptr(m.dep)
      BY <2>1, <3>1 DEF OneKey
    <3>4. Ptr(m.dep).gen = m.dep.gen /\ Ptr(m.dep).digest = m.dep.digest
          /\ m.dep.gen \in Nat
      BY <2>1, DeploymentFields DEF Ptr
    <3>5. committed.gen \in Nat /\ current[m.dep.key].gen \in Nat
          /\ committed.gen <= current[m.dep.key].gen
      BY <2>1, UnsetPointer DEF AgentTypeOK, LiveInv, RecordInv
    <3>6. HasFile(m.dep.key, m.dep)
      BY <2>1, <3>2 DEF LiveInv, FilesInv
    <3>7. FilesInv'
      <4>1. ASSUME NEW k \in Keys PROVE HasFile(k, current[k])'
        <5>1. PICK f \in payload'[k] : SameName(f, m.dep)
          BY <2>1, <3>3, <3>6 DEF HasFile
        <5>2. SameName(f, current'[k])
          BY <3>3, <3>4, <5>1 DEF SameName
        <5> QED BY <5>2 DEF HasFile, SameName
      <4>2. ASSUME NEW d \in Deployments, xfer'[d].staged, d.gen > current'[d.key].gen
            PROVE  HasFile(d.key, d)'
        <5>1. d.key = m.dep.key /\ d.gen \in Nat /\ d.gen > m.dep.gen
          BY <3>3, <3>4, <4>2, DeploymentFields
        <5>2. d.gen > current[d.key].gen
          BY <3>2, <3>4, <3>5, <5>1
        <5>3. HasFile(d.key, d)
          BY <2>1, <4>2, <5>2 DEF LiveInv, FilesInv
        <5> QED BY <2>1, <5>3 DEF HasFile
      <4> QED BY <3>1, <4>1, <4>2 DEF FilesInv
    <3>8. RecordInv'
      <4>1. \A k \in Keys : committed' .gen <= current'[k].gen
        BY <2>1, <3>2, <3>3, <3>4, <3>5
      <4>2. current'[job'.key] = Ptr(job)'
        BY <2>1, <3>1, <3>3 DEF Ptr
      <4> QED BY <3>1, <4>1, <4>2 DEF RecordInv
    <3>9. FindingsInv'
      <4>1. ASSUME NEW e \in Entries'
            PROVE  e.gen < m.dep.gen /\ e.gen <= current'[e.key].gen
        <5>1. e \in Entries /\ e \in Finding
          BY <2>1, <4>1 DEF Entries, AgentTypeOK
        <5>2. e.key \in Keys /\ e.gen \in Nat
          BY <5>1 DEF Finding
        <5>3. e.gen <= current[m.dep.key].gen
          BY <3>3, <5>1, <5>2 DEF LiveInv, FindingsInv
        <5> QED BY <3>2, <3>3, <3>4, <3>5, <5>2, <5>3
      <4> QED BY <3>1, <4>1 DEF FindingsInv
    <3> QED BY <3>1, <3>7, <3>8, <3>9 DEF LiveInv, AckedIsLive
  <2> QED BY <2>2, <2>3
<1> QED
  BY <1>1, <1>2, <1>3, <1>4 DEF Request

\* The entries after an upsert: the new one, and none that was not there.
LEMMA UpsertEntries ==
  ASSUME NEW fs \in Seq(Finding), NEW e \in Finding, NEW x
  PROVE  x \in {FindingUpsert(fs, e)[i] : i \in 1 .. Len(FindingUpsert(fs, e))}
           => x = e \/ x \in {fs[i] : i \in 1 .. Len(fs)}
<1> DEFINE same == {i \in 1 .. Len(fs) : fs[i].key = e.key /\ fs[i].digest = e.digest}
           replaced == [i \in 1 .. Len(fs) |-> IF i \in same THEN e ELSE fs[i]]
           room == IF Len(fs) >= MaxFindings THEN Tail(fs) ELSE fs
           Elems(s) == {s[i] : i \in 1 .. Len(s)}
<1>1. FindingUpsert(fs, e) = IF same # {} THEN replaced ELSE Append(room, e)
  BY DEF FindingUpsert
<1>2. x \in Elems(replaced) => x = e \/ x \in Elems(fs)
  <2>1. Len(replaced) = Len(fs)
    <3> HIDE DEF same
    <3> QED OBVIOUS
  <2> QED BY <2>1
<1>3. room \in Seq(Finding) /\ \A y \in Elems(room) : y \in Elems(fs)
  <2>1. CASE Len(fs) >= MaxFindings
    <3>1. fs # <<>>
      BY <2>1, BoundsAssumption
    <3>2. /\ Tail(fs) \in Seq(Finding) /\ Len(Tail(fs)) = Len(fs) - 1
          /\ \A i \in 1 .. Len(fs) - 1 : Tail(fs)[i] = fs[i + 1]
      BY <3>1
    <3>3. \A i \in 1 .. Len(fs) - 1 : i + 1 \in 1 .. Len(fs)
      OBVIOUS
    <3> QED BY <2>1, <3>2, <3>3
  <2>2. CASE ~(Len(fs) >= MaxFindings)
    BY <2>2
  <2> QED BY <2>1, <2>2
<1>4. ASSUME NEW s \in Seq(Finding), NEW i \in 1 .. Len(Append(s, e)), NEW y, y = Append(s, e)[i]
      PROVE  y = e \/ y \in Elems(s)
  <2>1. Len(Append(s, e)) = Len(s) + 1 /\ Len(s) \in Nat
    OBVIOUS
  <2>2. CASE i = Len(s) + 1
    BY <1>4, <2>2
  <2>3. CASE i # Len(s) + 1
    <3>1. i \in 1 .. Len(s)
      BY <2>1, <2>3
    <3>2. Append(s, e)[i] = s[i]
      BY <3>1
    <3> QED BY <1>4, <3>1, <3>2
  <2> QED BY <2>2, <2>3
<1>5. x \in Elems(Append(room, e)) => x = e \/ x \in Elems(fs)
  <2> HIDE DEF room
  <2> QED BY <1>3, <1>4
<1>6. CASE same # {}
  <2> HIDE DEF same, replaced
  <2> QED BY <1>1, <1>2, <1>6
<1>7. CASE same = {}
  <2> HIDE DEF same, room
  <2> QED BY <1>1, <1>5, <1>7
<1> QED BY <1>6, <1>7

\* The later steps of a handler.
LEMMA LiveHandler ==
  ASSUME OneKey, AgentTypeOK, LiveInv, RetentionSuffices, HandlerStep
  PROVE  LiveInv'
<1>0. CASE StageRename
  <2>1. /\ pc = "copy" /\ pc' = "stage" /\ job \in Deployments /\ job.key \in Keys
        /\ UNCHANGED <<current, committed, findings, xfer, job, acked>>
        /\ payload' = [payload EXCEPT ![job.key] = Placed(payload[job.key], job)]
        /\ payload \in [Keys -> SUBSET PayloadFile]
    BY <1>0, DeploymentFields DEF StageRename, journal, AgentTypeOK, HandlerSteps
  <2>2. /\ \E f \in Placed(payload[job.key], job) : SameName(f, job)
        /\ \A p : IsSet(p) /\ (\E f \in payload[job.key] : SameName(f, p)) =>
                     \E f \in Placed(payload[job.key], job) : SameName(f, p)
    BY <2>1, PlacedNames
  <2>3. HasFile(job.key, job)'
    <3>1. PICK f \in payload'[job.key] : SameName(f, job)
      BY <2>1, <2>2
    <3> QED BY <2>1, <3>1 DEF HasFile, SameName
  <2>4. \A k \in Keys : \A p : IsSet(p) /\ HasFile(k, p) =>
                                 \E f \in payload'[k] : SameName(f, p)
    <3> SUFFICES ASSUME NEW k \in Keys, NEW p, IsSet(p), HasFile(k, p)
                 PROVE  \E f \in payload'[k] : SameName(f, p)
      OBVIOUS
    <3>1. CASE k = job.key
      BY <2>1, <2>2, <3>1 DEF HasFile
    <3>2. CASE k # job.key
      BY <2>1, <3>2 DEF HasFile
    <3> QED BY <3>1, <3>2
  <2>5. FilesInv'
    BY <2>1, <2>3, <2>4, FilesKept DEF LiveInv, AgentTypeOK
  <2>6. RecordInv' /\ FindingsInv'
    BY <2>1 DEF LiveInv, RecordInv, FindingsInv, Entries
  <2> QED BY <2>1, <2>5, <2>6 DEF LiveInv, AckedIsLive
<1>1. CASE StageRecord
  <2>1. /\ pc = "stage" /\ pc' = "serve" /\ job \in Deployments /\ acked' = {}
        /\ UNCHANGED <<current, committed, findings, payload>>
        /\ xfer \in [Deployments -> Transfer]
    BY <1>1 DEF StageRecord, files, AgentTypeOK, HandlerSteps
  <2>2. \A d \in Deployments \ {job} : xfer'[d] = xfer[d]
    BY <1>1, <2>1 DEF StageRecord
  <2>3. FilesInv'
    BY <2>1, <2>2 DEF LiveInv, FilesInv, HasFile, IsSet
  <2>4. RecordInv' /\ FindingsInv'
    BY <2>1 DEF LiveInv, RecordInv, FindingsInv, Entries
  <2> QED BY <2>1, <2>3, <2>4 DEF LiveInv, AckedIsLive
<1>2. CASE WindowRecord \/ AbortNote \/ AbortResolve
  <2>1. /\ pc \in {"window", "abortNote", "abortResolve"} /\ pc' \in {"serve", "abortResolve"}
        /\ acked' = {} \/ acked' = acked
        /\ UNCHANGED <<payload, current, committed, findings, xfer>>
    BY <1>2 DEF WindowRecord, AbortNote, AbortResolve, files
  <2>2. \A k \in Keys : committed = current[k]
    BY <2>1 DEF LiveInv, RecordInv
  <2> QED BY <2>1, <2>2, LiveQuiet
<1>3. CASE ActivateUnmark \/ CommitResolve
  <2>1. /\ pc \in {"unmark", "resolve"} /\ pc' \in {"resolve", "commit"}
        /\ UNCHANGED <<payload, current, committed, findings, xfer, job, acked>>
    BY <1>3 DEF ActivateUnmark, CommitResolve, journal, files
  <2>2. current[job.key]' = Ptr(job)' /\ \A e \in Entries' : e.gen < job'.gen
    BY <2>1 DEF LiveInv, RecordInv, FindingsInv, Entries, Ptr
  <2> QED BY <2>1, <2>2, LiveFrame DEF LiveInv, FilesInv, RecordInv, FindingsInv
<1>4. CASE CommitRecord
  <2>1. /\ pc = "commit" /\ pc' = "finding" /\ committed' = Ptr(job)
        /\ job \in Deployments /\ job.key \in Keys /\ job.gen \in Nat
        /\ UNCHANGED <<payload, current, findings, xfer, job, acked>>
    BY <1>4, DeploymentFields DEF CommitRecord, files, AgentTypeOK, HandlerSteps
  <2>2. \A k \in Keys : current[k] = Ptr(job)
    BY <2>1 DEF LiveInv, RecordInv, OneKey
  <2>3. RecordInv'
    <3>1. \A k \in Keys : committed' = current'[k] /\ current'[k] = Ptr(job)'
      BY <2>1, <2>2 DEF Ptr
    <3>2. Ptr(job).gen <= Ptr(job).gen
      BY <2>1 DEF Ptr
    <3>3. \A k \in Keys : committed'.gen <= current'[k].gen
      BY <2>1, <2>2, <3>2
    <3> QED BY <2>1, <3>1, <3>3 DEF RecordInv
  <2>4. FilesInv' /\ FindingsInv'
    BY <2>1 DEF LiveInv, FilesInv, FindingsInv, HasFile, Entries, IsSet
  <2> QED BY <2>1, <2>3, <2>4 DEF LiveInv, AckedIsLive
<1>5. CASE CommitFinding
  <2> DEFINE e == [key |-> job.key, gen |-> job.gen, digest |-> job.digest]
  <2>1. /\ pc = "finding" /\ pc' = "prune" /\ findings' = FindingUpsert(findings, e)
        /\ job \in Deployments /\ job.key \in Keys /\ job.gen \in Nat
        /\ UNCHANGED <<payload, current, committed, xfer, job, acked>>
    BY <1>5, DeploymentFields DEF CommitFinding, files, AgentTypeOK, HandlerSteps
  <2>2. e \in Finding /\ findings \in Seq(Finding)
    BY <2>1, DeploymentFields DEF Finding, AgentTypeOK
  <2>3. \A x \in Entries' : x = e \/ x \in Entries
    <3> HIDE DEF e
    <3>1. Entries' = {FindingUpsert(findings, e)[i] : i \in 1 .. Len(FindingUpsert(findings, e))}
      BY <2>1 DEF Entries
    <3> QED BY <2>2, <3>1, UpsertEntries DEF Entries
  <2>4. current[job.key] = Ptr(job) /\ Ptr(job).gen = job.gen
    BY <2>1 DEF LiveInv, RecordInv, Ptr
  <2>5. FindingsInv'
    <3>1. e.gen <= current'[e.key].gen
      BY <2>1, <2>4
    <3>2. \A x \in Entries : x.gen <= current'[x.key].gen
      BY <2>1 DEF LiveInv, FindingsInv
    <3> HIDE DEF e
    <3> QED BY <2>1, <2>3, <3>1, <3>2 DEF FindingsInv
  <2>6. FilesInv' /\ RecordInv'
    BY <2>1 DEF LiveInv, FilesInv, RecordInv, HasFile, IsSet, Ptr
  <2> QED BY <2>1, <2>5, <2>6 DEF LiveInv, AckedIsLive
<1>6. CASE PrunePayloads
  <2>1. /\ pc = "prune" /\ pc' = "serve" /\ acked' = {[dep |-> job, gen |-> job.gen]}
        /\ payload' = [payload EXCEPT ![job.key] =
                         {f \in payload[job.key] : f.age < RetainedPayloads}]
        /\ job \in Deployments /\ job.key \in Keys /\ job.gen \in Nat
        /\ payload \in [Keys -> SUBSET PayloadFile]
        /\ UNCHANGED <<current, committed, findings, xfer>>
    BY <1>6, DeploymentFields DEF PrunePayloads, journal, AgentTypeOK, HandlerSteps
  <2>2. \A k \in Keys : k = job.key /\ current[k] = Ptr(job)
    BY <2>1 DEF LiveInv, RecordInv, OneKey
  <2>3. Ptr(job).gen = job.gen /\ Ptr(job).digest = job.digest
    BY DEF Ptr
  <2>4. \A k \in Keys : \A f \in payload[k] : f.gen \in Nat /\ (f.gen >= job.gen => f \in payload'[k])
    <3> SUFFICES ASSUME NEW k \in Keys, NEW f \in payload[k]
                 PROVE  f.gen \in Nat /\ (f.gen >= job.gen => f \in payload'[k])
      OBVIOUS
    <3>1. f.gen \in Nat /\ k = job.key
      BY <2>1, <2>2 DEF PayloadFile
    <3>2. f.age < RetainedPayloads \/ f.gen < job.gen
      BY <2>1, <3>1 DEF RetentionSuffices
    <3> QED BY <2>1, <3>1, <3>2
  <2>5. FilesInv'
    <3>1. ASSUME NEW d \in Deployments, xfer'[d].staged, d.gen > current'[d.key].gen
          PROVE  HasFile(d.key, d)'
      <4>1. HasFile(d.key, d) /\ d.key \in Keys /\ d.gen \in Nat
        BY <2>1, <3>1, DeploymentFields DEF LiveInv, FilesInv
      <4>2. d.gen > job.gen
        BY <2>1, <2>2, <2>3, <3>1, <4>1
      <4>3. PICK f \in payload[d.key] : SameName(f, d)
        BY <4>1 DEF HasFile
      <4>4. f.gen = d.gen
        BY <4>3 DEF SameName
      <4>5. f \in payload'[d.key]
        BY <2>1, <2>4, <4>1, <4>2, <4>3, <4>4
      <4> QED BY <4>3, <4>5 DEF HasFile, SameName
    <3>2. ASSUME NEW k \in Keys, IsSet(current[k])'
          PROVE  HasFile(k, current[k])'
      <4>1. HasFile(k, current[k])
        BY <2>1, <3>2 DEF LiveInv, FilesInv, IsSet
      <4>2. PICK f \in payload[k] : SameName(f, current[k])
        BY <4>1 DEF HasFile
      <4>3. f.gen = job.gen
        BY <2>2, <2>3, <4>2 DEF SameName
      <4>4. f \in payload'[k]
        BY <2>1, <2>4, <4>2, <4>3
      <4> QED BY <2>1, <4>2, <4>4 DEF HasFile, SameName
    <3> QED BY <2>1, <3>1, <3>2 DEF FilesInv
  <2>6. RecordInv' /\ FindingsInv'
    BY <2>1 DEF LiveInv, RecordInv, FindingsInv, Entries
  <2>7. AckedIsLive'
    BY <2>1, <2>2 DEF AckedIsLive, Ptr
  <2> QED BY <2>5, <2>6, <2>7 DEF LiveInv
<1> QED
  BY <1>0, <1>1, <1>2, <1>3, <1>4, <1>5, <1>6 DEF HandlerStep

\* Recovery and crashes.
LEMMA LiveRecovery ==
  ASSUME OneKey, AgentTypeOK, LiveAreaVerified, LiveInv, RecoveryStep \/ Crash
  PROVE  LiveInv'
<1>0. /\ xfer \in [Deployments -> Transfer] /\ committed \in Pointer
      /\ current \in [Keys -> Pointer] /\ NoXfer.staged = FALSE
  BY DEF AgentTypeOK, NoXfer
<1>1. CASE Crash
  <2>1. /\ pc' = "down" /\ acked' = {}
        /\ UNCHANGED <<payload, current, committed, findings>>
    BY <1>1 DEF Crash
  <2>2. \A d \in Deployments : xfer'[d].staged = xfer[d].staged
    BY <1>0, <1>1 DEF Crash, Transfer
  <2> QED BY <2>1, <2>2, LiveBoot
<1>2. CASE Open
  <2>1. /\ pc' = "boot" /\ acked' = acked
        /\ scan' = {k \in Keys : IsSet(current[k]) \/ pending[k]}
        /\ UNCHANGED <<payload, current, committed, findings>>
    BY <1>2 DEF Open
  <2>2. \A d \in Deployments : xfer'[d].staged => xfer[d].staged
    BY <1>0, <1>2 DEF Open
  <2>3. ASSUME NEW k \in Keys, k \notin scan'
        PROVE  committed = current[k]
    <3>1. ~IsSet(current[k])
      BY <2>1, <2>3
    <3>2. current[k].gen = 0 /\ committed.gen <= current[k].gen
      BY <3>1 DEF IsSet, LiveInv, RecordInv
    <3>3. committed.gen = 0
      BY <1>0, <3>2, UnsetPointer
    <3> QED BY <1>0, <3>2, <3>3, UnsetPointer
  <2> QED BY <2>1, <2>2, <2>3, LiveBoot
<1>3. CASE (\E k \in Keys : RecoverKey(k)) \/ RecoverUnmark \/ RecoverResolve
  <2>1. /\ pc' \in {"bootUnmark", "bootResolve", "bootCommit"}
        /\ UNCHANGED <<payload, current, committed, findings, xfer, acked>>
    BY <1>3 DEF RecoverKey, RecoverUnmark, RecoverResolve, journal, files
  <2> QED BY <2>1, LiveBoot
<1>4. CASE RecoverNote \/ RecoverAbort \/ RecoverDone
  <2>1. /\ pc \in {"boot", "bootAbort"} /\ (pc = "boot" => scan = {})
        /\ pc' \in {"serve", "bootAbort"}
        /\ UNCHANGED <<payload, current, committed, findings, xfer, acked>>
    BY <1>4 DEF RecoverNote, RecoverAbort, RecoverDone, journal, files
  <2>2. \A k \in Keys : committed = current[k]
    BY <2>1 DEF LiveInv, RecordInv
  <2> QED BY <2>1, <2>2, LiveQuiet
<1>5. CASE RecoverCommit
  <2>1. /\ pc = "bootCommit" /\ pc' = "boot" /\ dir \in Keys
        /\ committed' = IF IsSet(current[dir]) /\ Intact(dir) THEN current[dir] ELSE Unset
        /\ UNCHANGED <<payload, current, findings, xfer, acked>>
    BY <1>5 DEF RecoverCommit, files, AgentTypeOK
  <2>2. IsSet(current[dir]) => Intact(dir)
    BY <2>1 DEF LiveInv, FilesInv, HasFile, SameName, Intact, LiveAreaVerified, IsSet
  <2>3. ~IsSet(current[dir]) => current[dir] = Unset
    BY <1>0, <2>1, UnsetPointer DEF IsSet
  <2>4. \A k \in Keys : committed' = current'[k]
    BY <2>1, <2>2, <2>3 DEF OneKey
  <2>5. \A k \in Keys : current'[k].gen <= current'[k].gen
    BY <1>0, <2>1, UnsetPointer
  <2>6. RecordInv'
    BY <2>1, <2>4, <2>5 DEF RecordInv
  <2>7. FilesInv' /\ FindingsInv'
    BY <2>1 DEF LiveInv, FilesInv, FindingsInv, HasFile, Entries, IsSet
  <2> QED BY <2>1, <2>6, <2>7 DEF LiveInv, AckedIsLive
<1> QED
  BY <1>1, <1>2, <1>3, <1>4, <1>5 DEF RecoveryStep

\* All of it together, step by step.
LEMMA LiveStep ==
  ASSUME OneKey, AgentTypeOK, AreaInv, LiveInv, RetentionSuffices, [AgentNext]_agentVars
  PROVE  LiveInv'
<1>1. CASE AgentNext
  BY <1>1, LiveRequest, LiveHandler, LiveRecovery DEF AgentNext, AreaInv
<1>2. CASE UNCHANGED agentVars
  BY <1>2 DEF agentVars, journal, files, process, LiveInv, FilesInv, RecordInv, FindingsInv,
              AckedIsLive, HasFile, Entries, IsSet, Ptr
<1> QED BY <1>1, <1>2

\* An agent with one key whose pruning never reaches what is live or may become
\* live keeps pointer, payload, record and findings in line.
THEOREM LiveInvariant ==
  ASSUME OneKey
  PROVE  AgentSpec /\ []RetentionSuffices => []LiveInv
<1>1. AgentInit => LiveInv
  BY DEF AgentInit, LiveInv, FilesInv, RecordInv, FindingsInv, AckedIsLive, NoXfer, Unset, IsSet,
         Entries
<1>2. AgentTypeOK /\ AreaInv /\ LiveInv /\ RetentionSuffices /\ [AgentNext]_agentVars => LiveInv'
  BY LiveStep
<1> QED
  BY <1>1, <1>2, AreaInvariant, PTL DEF AgentSpec

\* The live pointer never dangles: the payload it names is there and hashes.
THEOREM PointerAlwaysNamesPayload ==
  ASSUME OneKey
  PROVE  AgentSpec /\ []RetentionSuffices => []PointerNamesPayload
<1>1. AreaInv /\ LiveInv => PointerNamesPayload
  BY DEF AreaInv, LiveAreaVerified, LiveInv, FilesInv, HasFile, SameName, Intact,
         PointerNamesPayload, IsSet
<1> QED
  BY <1>1, AreaInvariant, LiveInvariant, PTL

\* Whenever requests are taken, whatever crash came before, the committed pair is
\* what the pointer names.
THEOREM RecordAlwaysFollows ==
  ASSUME OneKey
  PROVE  AgentSpec /\ []RetentionSuffices => []RecordFollowsPointer
<1>1. LiveInv => RecordFollowsPointer
  BY DEF LiveInv, RecordInv, RecordFollowsPointer
<1> QED
  BY <1>1, LiveInvariant, PTL

\* A delivery acknowledgement names what is live, also when it answers a commit
\* that was repeated after a crash.
THEOREM AcksAreTrue ==
  ASSUME OneKey
  PROVE  AgentSpec /\ []RetentionSuffices => []AckedIsLive
<1>1. LiveInv => AckedIsLive
  BY DEF LiveInv
<1> QED
  BY <1>1, LiveInvariant, PTL

\* No sequence of requests, restarts and repetitions takes the live pointer back
\* or to other content of the same generation.
THEOREM PointerNeverGoesBack ==
  ASSUME OneKey
  PROVE  AgentSpec /\ []RetentionSuffices => GenerationMonotone
<1> DEFINE Forward == \A k \in Keys : current'[k] # current[k] => current'[k].gen > current[k].gen
<1>1. ASSUME AgentTypeOK, LiveInv, [AgentNext]_agentVars, NEW k \in Keys, current'[k] # current[k]
      PROVE  current'[k].gen > current[k].gen
  <2>1. AgentNext
    BY <1>1 DEF agentVars, files
  <2>2. PICK m \in Instructions : /\ OnApplyCommit(m)
                                  /\ CommitCode(m) = "Ok"
                                  /\ m.dep.key = k
                                  /\ current'[k] = Ptr(m.dep)
    BY <1>1, <2>1, PointerMoves
  <2>3. m.dep.gen > current[m.dep.key].gen
    BY <1>1, <2>2, CommitFacts DEF OnApplyCommit
  <2> QED BY <2>2, <2>3 DEF Ptr
<1>2. AgentTypeOK /\ LiveInv /\ [AgentNext]_agentVars => [Forward]_agentVars
  BY <1>1
<1> QED
  BY <1>2, AgentTypes, LiveInvariant, PTL DEF AgentSpec, GenerationMonotone

\* The bounded table of findings drops an entry only when its key runs a newer
\* generation.
THEOREM EvidenceAlwaysKept ==
  ASSUME OneKey
  PROVE  AgentSpec /\ []RetentionSuffices => EvidenceKept
<1> DEFINE Kept == \A e \in Entries : e \notin Entries' => current'[e.key].gen > e.gen
<1>1. ASSUME AgentTypeOK, LiveInv, AgentNext, NEW e \in Entries, e \notin Entries'
      PROVE  current'[e.key].gen > e.gen
  <2>1. UNCHANGED findings => Entries' = Entries
    BY DEF Entries
  <2>2. CommitFinding
    BY <1>1, <2>1 DEF AgentNext, Request, HandlerStep, RecoveryStep, OnPrepare, OnChunk,
         OnTransferComplete, OnStage, StageRename, StageRecord, OnApplyPrepare, WindowRecord,
         OnApplyCommit, ActivateUnmark, CommitResolve, CommitRecord, PrunePayloads,
         OnApplyAbort, AbortNote, AbortResolve, OnRetire, Crash, Open, RecoverKey,
         RecoverUnmark, RecoverResolve, RecoverCommit, RecoverNote, RecoverAbort,
         RecoverDone, journal
  <2>3. pc = "finding" /\ UNCHANGED current /\ job \in Deployments /\ job.key \in Keys
        /\ job.gen \in Nat
    BY <1>1, <2>2, DeploymentFields DEF CommitFinding, files, AgentTypeOK, HandlerSteps
  <2>4. e.gen < job.gen /\ current[job.key] = Ptr(job)
    BY <1>1, <2>3 DEF LiveInv, FindingsInv, RecordInv
  <2>5. e \in Finding
    BY <1>1 DEF Entries, AgentTypeOK
  <2>6. e.key = job.key /\ e.gen \in Nat
    BY <2>3, <2>5 DEF Finding, OneKey
  <2> QED BY <2>3, <2>4, <2>6 DEF Ptr
<1>2. AgentTypeOK /\ LiveInv /\ [AgentNext]_agentVars => [Kept]_agentVars
  BY <1>1
<1> QED
  BY <1>2, AgentTypes, LiveInvariant, PTL DEF AgentSpec, EvidenceKept

-----------------------------------------------------------------------------
(* How much has to be retained.                                            *)

\* The names that payloads of the key can have.
Names(k) == {Ptr(d) : d \in {e \in Deployments : e.key = k}}

\* Files are retained for every name a payload of the key can have and for a copy
\* that each crash can leave behind.
Room == \A k \in Keys : /\ IsFiniteSet(Names(k))
                        /\ Cardinality(Names(k)) + (MaxTerm - 1) <= RetainedPayloads

\* The files of a key by age: each age is taken once, without a gap, and each name
\* is there once.
Shelf(fs, k) ==
  /\ \A f, g \in fs : f.age = g.age => f = g
  /\ \A f, g \in fs : IsSet(f) /\ SameName(f, g) => f = g
  /\ \A f \in fs : \A n \in 0 .. f.age : \E g \in fs : g.age = n
  /\ \A f \in fs : IsSet(f) => \E d \in Deployments : d.key = k /\ SameName(f, d)

ShelfInv ==
  /\ \A k \in Keys : Shelf(payload[k], k)
  /\ pc = "copy" => PartFile \in payload[job.key]

\* The copies that were not renamed.
Parts(fs) == {f \in fs : ~IsSet(f)}

\* The new copy takes the first place and everything else moves up by one.
LEMMA CopiedShelf ==
  ASSUME NEW k, NEW fs \in SUBSET PayloadFile, Shelf(fs, k)
  PROVE  Shelf(Copied(fs), k) /\ PartFile \in Copied(fs)
<1> DEFINE up(f) == [f EXCEPT !.age = @ + 1]
           all == Copied(fs)
<1>1. all = {up(f) : f \in fs} \cup {PartFile}
  BY DEF Copied
<1>2. \A f \in fs : /\ f.age \in Nat /\ up(f).age = f.age + 1 /\ up(f).gen = f.gen
                    /\ up(f).digest = f.digest
  BY DEF PayloadFile
<1>3. PartFile.age = 0 /\ PartFile.gen = 0
  BY DEF PartFile
<1> HIDE DEF up, all
<1>4. \A f, g \in all : f.age = g.age => f = g
  <2>1. ASSUME NEW f \in fs, NEW g \in fs, up(f).age = up(g).age PROVE f = g
    <3>1. f.age = g.age
      BY <1>2, <2>1
    <3> QED BY <3>1 DEF Shelf
  <2>2. \A f \in fs : up(f).age # 0
    BY <1>2
  <2> QED BY <1>1, <1>3, <2>1, <2>2
<1>5. \A f, g \in all : IsSet(f) /\ SameName(f, g) => f = g
  <2>1. ASSUME NEW f \in fs, NEW g \in fs, IsSet(up(f)), SameName(up(f), up(g)) PROVE f = g
    BY <1>2, <2>1 DEF Shelf, SameName, IsSet
  <2> QED BY <1>1, <1>3, <2>1 DEF IsSet, SameName
<1>6. \A f \in all : \A n \in 0 .. f.age : \E g \in all : g.age = n
  <2>1. ASSUME NEW f \in fs, NEW n \in 0 .. f.age + 1 PROVE \E g \in all : g.age = n
    <3>1. CASE n = 0
      BY <1>1, <1>3, <3>1
    <3>2. CASE n # 0
      <4>1. n - 1 \in 0 .. f.age /\ n \in Nat
        BY <1>2, <3>2
      <4>2. PICK g \in fs : g.age = n - 1
        BY <4>1 DEF Shelf
      <4>3. up(g).age = n
        BY <1>2, <4>1, <4>2
      <4> QED BY <1>1, <4>3
    <3> QED BY <3>1, <3>2
  <2>2. \A n \in 0 .. 0 : n = 0
    OBVIOUS
  <2> QED BY <1>1, <1>2, <1>3, <2>1, <2>2
<1>7. \A f \in all : IsSet(f) => \E d \in Deployments : d.key = k /\ SameName(f, d)
  <2>1. ASSUME NEW f \in fs, IsSet(up(f)) PROVE \E d \in Deployments : d.key = k /\ SameName(up(f), d)
    <3>1. PICK d \in Deployments : d.key = k /\ SameName(f, d)
      BY <1>2, <2>1 DEF Shelf, IsSet
    <3> QED BY <1>2, <3>1 DEF SameName
  <2> QED BY <1>1, <1>3, <2>1 DEF IsSet
<1> QED
  BY <1>1, <1>4, <1>5, <1>6, <1>7 DEF Shelf, all

\* The rename: the first place keeps its file under another name, and the place of
\* an older file of that name is closed.
LEMMA PlacedShelf ==
  ASSUME NEW k \in Keys, NEW d \in Deployments, d.key = k, NEW fs \in SUBSET PayloadFile,
         Shelf(fs, k), PartFile \in fs
  PROVE  Shelf(Placed(fs, d), k)
<1> DEFINE old == {f \in fs : SameName(f, d)}
           down(f) == IF \E o \in old : o.age < f.age THEN f.age - 1 ELSE f.age
           aged(f) == [f EXCEPT !.age = IF \E o \in old : o.age < f.age
                                        THEN @ - 1 ELSE @]
           new == [gen |-> d.gen, digest |-> d.digest, age |-> 0,
                   ok |-> Hashes(staging[d], d)]
           rest == fs \ (old \cup {PartFile})
           all == Placed(fs, d)
<1>1. all = {aged(f) : f \in rest} \cup {new}
  BY DEF Placed
<1>2. /\ \A f \in fs : f.age \in Nat
      /\ \A f, g \in fs : f.age = g.age => f = g
      /\ \A f, g \in fs : IsSet(f) /\ SameName(f, g) => f = g
      /\ PartFile.age = 0 /\ PartFile.gen = 0 /\ d.gen # 0
  BY DeploymentFields DEF PayloadFile, Shelf, PartFile
<1>3. /\ \A f \in fs : aged(f).age = down(f) /\ aged(f).gen = f.gen /\ aged(f).digest = f.digest
      /\ new.age = 0 /\ new.gen = d.gen /\ new.digest = d.digest
  BY DEF PayloadFile
<1>4. \A o, p \in old : o = p
  BY <1>2 DEF SameName, IsSet
<1>5. /\ \A f \in rest : f.age \in Nat /\ f.age > 0
      /\ \A o \in old : o.age \in Nat /\ o.age > 0
  <2>1. PartFile \notin old
    BY <1>2 DEF SameName
  <2>2. ASSUME NEW f \in fs, f # PartFile PROVE f.age \in Nat /\ f.age > 0
    BY <1>2, <2>2
  <2> QED BY <2>1, <2>2
<1>6. \A f \in rest : down(f) \in Nat /\ down(f) > 0
  <2> TAKE f \in rest
  <2>1. ASSUME NEW o \in old, o.age < f.age PROVE f.age - 1 \in Nat /\ f.age - 1 > 0
    BY <1>5, <2>1
  <2> HIDE DEF old, rest
  <2> QED BY <1>5, <2>1
<1>7. \A f, g \in rest : down(f) = down(g) => f = g
  <2> SUFFICES ASSUME NEW f \in rest, NEW g \in rest, down(f) = down(g) PROVE f.age = g.age
    BY <1>2
  <2>1. f.age \in Nat /\ g.age \in Nat /\ \A o \in old : o.age \in Nat /\ o.age # f.age /\ o.age # g.age
    BY <1>2
  <2>2. CASE old = {}
    BY <2>1, <2>2
  <2>3. CASE old # {}
    <3>1. PICK o \in old : old = {o}
      BY <1>4, <2>3
    <3>2. /\ down(f) = IF o.age < f.age THEN f.age - 1 ELSE f.age
          /\ down(g) = IF o.age < g.age THEN g.age - 1 ELSE g.age
      BY <3>1
    <3>3. o.age \in Nat /\ o.age # f.age /\ o.age # g.age
      BY <2>1, <3>1
    <3>4. (IF o.age < f.age THEN f.age - 1 ELSE f.age)
            = (IF o.age < g.age THEN g.age - 1 ELSE g.age)
      BY <3>2
    <3>5. f.age \in Nat /\ g.age \in Nat
      BY <2>1
    <3> HIDE DEF down, old, rest
    <3> QED BY <3>3, <3>4, <3>5
  <2> QED BY <2>2, <2>3
<1>8. \A f, g \in all : f.age = g.age => f = g
  <2>1. \A f \in rest : aged(f).age = down(f)
    BY <1>3
  <2>2. new.age = 0
    BY <1>3
  <2> HIDE DEF aged, down, new, rest, all
  <2> QED BY <1>1, <1>6, <1>7, <2>1, <2>2
<1>9. \A f, g \in all : IsSet(f) /\ SameName(f, g) => f = g
  <2>1. ASSUME NEW f \in rest, NEW g \in rest, IsSet(aged(f)), SameName(aged(f), aged(g))
        PROVE  f = g
    <3>1. IsSet(f) /\ SameName(f, g)
      BY <1>3, <2>1 DEF SameName, IsSet
    <3> QED BY <1>2, <3>1
  <2>2. ASSUME NEW f \in rest PROVE ~SameName(aged(f), new) /\ ~SameName(new, aged(f))
    <3>1. ~SameName(f, d)
      OBVIOUS
    <3> QED BY <1>3, <3>1 DEF SameName
  <2> HIDE DEF aged, new, rest, all
  <2> QED BY <1>1, <2>1, <2>2
<1>10. ASSUME NEW f \in rest, NEW n \in 0 .. down(f) PROVE \E g \in all : g.age = n
  <2>1. f \in fs /\ f.age \in Nat /\ f.age > 0 /\ n \in Nat /\ down(f) \in Nat
    BY <1>5, <1>6
  <2>2. CASE n = 0
    BY <1>1, <1>3, <2>2
  <2>3. CASE n # 0 /\ \E o \in old : o.age <= n
    <3>1. PICK o \in old : o.age <= n
      BY <2>3
    <3>2. o.age \in Nat /\ o.age # f.age
      BY <1>2, <3>1
    <3>3. o.age < f.age
      <4>1. down(f) <= f.age
        BY <2>1
      <4> HIDE DEF down, old
      <4> QED BY <2>1, <3>1, <3>2, <4>1
    <3>4. down(f) = f.age - 1
      BY <3>1, <3>3
    <3>5. n + 1 \in 0 .. f.age
      <4> HIDE DEF down, old
      <4> QED BY <2>1, <3>4
    <3>6. PICK g \in fs : g.age = n + 1
      BY <2>1, <3>5 DEF Shelf
    <3>7. o.age < g.age
      BY <2>1, <3>1, <3>2, <3>6
    <3>8. g \notin old /\ g # PartFile
      BY <1>2, <1>4, <2>1, <3>2, <3>6, <3>7
    <3>9. down(g) = n
      <4>1. down(g) = g.age - 1
        BY <3>1, <3>7
      <4> HIDE DEF down
      <4> QED BY <2>1, <3>6, <4>1
    <3>10. aged(g).age = n /\ aged(g) \in all
      BY <1>1, <1>3, <3>8, <3>9
    <3> QED BY <3>10
  <2>4. CASE n # 0 /\ ~\E o \in old : o.age <= n
    <3>1. n \in 0 .. f.age
      <4>1. down(f) <= f.age
        BY <2>1
      <4> HIDE DEF down
      <4> QED BY <2>1, <4>1
    <3>2. PICK g \in fs : g.age = n
      BY <2>1, <3>1 DEF Shelf
    <3>3. \A o \in old : o.age \in Nat /\ o.age > n
      BY <1>5, <2>1, <2>4
    <3>4. g \notin old /\ g # PartFile /\ ~\E o \in old : o.age < g.age
      <4>1. g # PartFile
        BY <1>2, <2>4, <3>2
      <4> HIDE DEF old
      <4> QED BY <2>1, <3>2, <3>3, <4>1
    <3>5. down(g) = n
      BY <3>2, <3>4
    <3>6. aged(g).age = n /\ aged(g) \in all
      BY <1>1, <1>3, <3>4, <3>5
    <3> QED BY <3>6
  <2> QED BY <2>2, <2>3, <2>4
<1>11. \A f \in all : \A n \in 0 .. f.age : \E g \in all : g.age = n
  <2>1. \A f \in rest : aged(f).age = down(f)
    BY <1>3
  <2>2. \A n \in 0 .. new.age : \E g \in all : g.age = n
    <3>1. new.age = 0 /\ new \in all
      BY <1>1, <1>3
    <3> HIDE DEF new, all
    <3> QED BY <3>1
  <2> HIDE DEF aged, down, new, rest, all
  <2> QED BY <1>1, <1>10, <2>1, <2>2
<1>12. \A f \in all : IsSet(f) => \E e \in Deployments : e.key = k /\ SameName(f, e)
  <2>1. SameName(new, d)
    BY <1>3 DEF SameName
  <2>2. ASSUME NEW f \in rest, IsSet(aged(f))
        PROVE  \E e \in Deployments : e.key = k /\ SameName(aged(f), e)
    <3>1. PICK e \in Deployments : e.key = k /\ SameName(f, e)
      BY <1>3, <2>2 DEF Shelf, IsSet
    <3> QED BY <1>3, <3>1 DEF SameName
  <2> HIDE DEF aged, new, rest, all
  <2> QED BY <1>1, <2>1, <2>2
<1> QED
  BY <1>8, <1>9, <1>11, <1>12 DEF Shelf

\* Pruning takes the oldest files from the end of the shelf.
LEMMA PrunedShelf ==
  ASSUME NEW k, NEW fs \in SUBSET PayloadFile, Shelf(fs, k), NEW r \in Nat
  PROVE  Shelf({f \in fs : f.age < r}, k)
<1> DEFINE left == {f \in fs : f.age < r}
<1>1. \A f \in fs : f.age \in Nat
  BY DEF PayloadFile
<1>2. ASSUME NEW f \in left, NEW n \in 0 .. f.age PROVE \E g \in left : g.age = n
  <2>1. PICK g \in fs : g.age = n
    BY DEF Shelf
  <2>2. n < r
    BY <1>1
  <2> QED BY <2>1, <2>2
<1> QED BY <1>2 DEF Shelf

\* There are no more files younger than the n-th than there are names they can have
\* and copies that were not renamed.
LEMMA YoungerFiles ==
  ASSUME NEW k, NEW fs \in SUBSET PayloadFile, Shelf(fs, k), IsFiniteSet(Parts(fs)),
         NEW S, IsFiniteSet(S), NEW n \in Nat,
         \A i \in 0 .. n - 1 : \E g \in fs : g.age = i,
         \A g \in fs : IsSet(g) /\ g.age < n => [gen |-> g.gen, digest |-> g.digest] \in S,
         \A p \in S : p.gen # 0
  PROVE  n <= Cardinality(S) + Cardinality(Parts(fs))
<1> DEFINE at(i) == CHOOSE g \in fs : g.age = i
           ages == 0 .. n - 1
           tag == [i \in ages |-> IF IsSet(at(i)) THEN [gen |-> at(i).gen, digest |-> at(i).digest]
                                  ELSE at(i)]
           all == S \cup Parts(fs)
<1>1. \A i \in ages : at(i) \in fs /\ at(i).age = i /\ i < n
  OBVIOUS
<1> HIDE DEF at
<1>2. ASSUME NEW i \in ages PROVE tag[i] \in all
  BY <1>1 DEF Parts
<1>3. ASSUME NEW i \in ages, NEW j \in ages, tag[i] = tag[j] PROVE i = j
  <2>1. tag[i].gen = at(i).gen /\ tag[j].gen = at(j).gen
    OBVIOUS
  <2>2. IsSet(at(i)) <=> IsSet(at(j))
    BY <1>3, <2>1 DEF IsSet
  <2>3. CASE IsSet(at(i))
    <3>1. at(i).gen = at(j).gen /\ at(i).digest = at(j).digest
      BY <1>3, <2>2, <2>3
    <3>2. at(i) = at(j)
      BY <1>1, <2>3, <3>1 DEF Shelf, SameName
    <3> QED BY <1>1, <3>2
  <2>4. CASE ~IsSet(at(i))
    <3>1. at(i) = at(j)
      BY <1>3, <2>2, <2>4
    <3> QED BY <1>1, <3>1
  <2> QED BY <2>3, <2>4
<1>4. tag \in Injection(ages, all)
  <2>1. tag \in [ages -> all]
    BY <1>2
  <2> HIDE DEF tag, all
  <2> QED BY <1>3, <2>1 DEF Injection, IsInjective
<1>5. IsFiniteSet(all) /\ Cardinality(all) <= Cardinality(S) + Cardinality(Parts(fs))
  <2>1. IsFiniteSet(S \cap Parts(fs))
    BY FS_Intersection
  <2>2. /\ IsFiniteSet(all)
        /\ Cardinality(all) = Cardinality(S) + Cardinality(Parts(fs)) - Cardinality(S \cap Parts(fs))
    BY FS_Union
  <2>3. /\ Cardinality(S) \in Nat /\ Cardinality(Parts(fs)) \in Nat
        /\ Cardinality(S \cap Parts(fs)) \in Nat
    BY <2>1, FS_CardinalityType
  <2> HIDE DEF all
  <2> QED BY <2>2, <2>3
<1>6. Cardinality(ages) <= Cardinality(all)
  BY <1>4, <1>5, FS_Injection DEF ExistsInjection
<1>7. Cardinality(ages) = n
  <2>1. Cardinality(ages) = IF 0 > n - 1 THEN 0 ELSE n - 1 - 0 + 1
    BY FS_Interval
  <2> HIDE DEF ages
  <2> QED BY <2>1
<1>8. Cardinality(all) \in Nat /\ Cardinality(S) \in Nat /\ Cardinality(Parts(fs)) \in Nat
  BY <1>5, FS_CardinalityType
<1> HIDE DEF ages, all
<1> QED BY <1>5, <1>6, <1>7, <1>8

\* Only copies, renames and pruning touch the payload directories.
LEMMA PayloadSteps ==
  ASSUME [AgentNext]_agentVars
  PROVE  \/ UNCHANGED payload /\ (pc' = "copy" => pc = "copy" /\ UNCHANGED job)
         \/ PrunePayloads
         \/ StageRename
         \/ \E m \in Instructions : OnStage(m) /\ StageCode(m) = "Ok"
  BY DEF AgentNext, Request, HandlerStep, RecoveryStep, OnPrepare, OnChunk, OnStage,
         OnTransferComplete, StageRecord, OnApplyPrepare, WindowRecord, OnApplyCommit,
         ActivateUnmark, CommitResolve, CommitRecord, CommitFinding,
         OnApplyAbort, AbortNote, AbortResolve, OnRetire, Crash, Open, RecoverKey,
         RecoverUnmark, RecoverResolve, RecoverCommit, RecoverNote, RecoverAbort,
         RecoverDone, files, process, agentVars

\* Every step keeps the shelves in order.
LEMMA ShelfStep ==
  ASSUME AgentTypeOK, ShelfInv, [AgentNext]_agentVars
  PROVE  ShelfInv'
<1>1. payload \in [Keys -> SUBSET PayloadFile]
  BY DEF AgentTypeOK
<1>2. ASSUME NEW m \in Instructions, OnStage(m), StageCode(m) = "Ok" PROVE ShelfInv'
  <2>1. m.dep \in Deployments /\ m.dep.key \in Keys
    BY DeploymentFields DEF Instructions
  <2>2. payload' = [payload EXCEPT ![m.dep.key] = Copied(payload[m.dep.key])] /\ job' = m.dep
    BY <1>2 DEF OnStage
  <2>3. Shelf(Copied(payload[m.dep.key]), m.dep.key) /\ PartFile \in Copied(payload[m.dep.key])
    BY <1>1, <2>1, CopiedShelf DEF ShelfInv
  <2>4. \A k \in Keys : Shelf(payload'[k], k)
    BY <1>1, <2>1, <2>2, <2>3 DEF ShelfInv
  <2>5. PartFile \in payload'[job'.key]
    BY <1>1, <2>1, <2>2, <2>3
  <2> QED BY <2>4, <2>5 DEF ShelfInv, Shelf, SameName, IsSet, PartFile
<1>3. CASE StageRename
  <2>1. /\ job \in Deployments /\ job.key \in Keys /\ pc = "copy" /\ pc' = "stage"
        /\ payload' = [payload EXCEPT ![job.key] = Placed(payload[job.key], job)]
    BY <1>3, DeploymentFields DEF StageRename, AgentTypeOK, HandlerSteps
  <2>2. Shelf(Placed(payload[job.key], job), job.key)
    BY <1>1, <2>1, PlacedShelf DEF ShelfInv
  <2>3. \A k \in Keys : Shelf(payload'[k], k)
    BY <1>1, <2>1, <2>2 DEF ShelfInv
  <2> QED BY <2>1, <2>3 DEF ShelfInv, Shelf, SameName, IsSet
<1>4. CASE PrunePayloads
  <2>1. /\ job.key \in Keys /\ pc' = "serve"
        /\ payload' = [payload EXCEPT ![job.key] =
                         {f \in payload[job.key] : f.age < RetainedPayloads}]
    BY <1>4, DeploymentFields DEF PrunePayloads, AgentTypeOK, HandlerSteps
  <2>2. Shelf({f \in payload[job.key] : f.age < RetainedPayloads}, job.key)
    BY <1>1, <2>1, BoundsAssumption, PrunedShelf DEF ShelfInv
  <2>3. \A k \in Keys : Shelf(payload'[k], k)
    BY <1>1, <2>1, <2>2 DEF ShelfInv
  <2> QED BY <2>1, <2>3 DEF ShelfInv, Shelf, SameName, IsSet
<1>5. CASE UNCHANGED payload /\ (pc' = "copy" => pc = "copy" /\ UNCHANGED job)
  BY <1>5 DEF ShelfInv, Shelf, SameName, IsSet, PartFile
<1> QED BY <1>2, <1>3, <1>4, <1>5, PayloadSteps

\* A copy adds one to those that were not renamed.
LEMMA CopiedParts ==
  ASSUME NEW fs \in SUBSET PayloadFile, IsFiniteSet(Parts(fs))
  PROVE  /\ IsFiniteSet(Parts(Copied(fs)))
         /\ Cardinality(Parts(Copied(fs))) <= Cardinality(Parts(fs)) + 1
<1> DEFINE up == [f \in Parts(fs) |-> [f EXCEPT !.age = @ + 1]]
           S == {up[f] : f \in Parts(fs)}
<1>1. Parts(Copied(fs)) = S \cup {PartFile}
  <2>1. \A f \in fs : [f EXCEPT !.age = @ + 1].gen = f.gen
    BY DEF PayloadFile
  <2>2. ~IsSet(PartFile)
    BY DEF IsSet, PartFile
  <2>3. S = {[f EXCEPT !.age = @ + 1] : f \in Parts(fs)}
    OBVIOUS
  <2> HIDE DEF S, up
  <2> QED BY <2>1, <2>2, <2>3 DEF Parts, Copied, IsSet
<1>2. up \in Surjection(Parts(fs), S)
  BY DEF Surjection
<1> HIDE DEF S, up
<1>3. IsFiniteSet(S) /\ Cardinality(S) <= Cardinality(Parts(fs))
  BY <1>2, FS_Surjection
<1>4. /\ IsFiniteSet(S \cup {PartFile})
      /\ Cardinality(S \cup {PartFile}) = IF PartFile \in S THEN Cardinality(S)
                                         ELSE Cardinality(S) + 1
  BY <1>3, FS_AddElement
<1>5. Cardinality(S) \in Nat /\ Cardinality(Parts(fs)) \in Nat
  BY <1>3, FS_CardinalityType
<1> QED BY <1>1, <1>3, <1>4, <1>5

\* The rename takes it away again.
LEMMA PlacedParts ==
  ASSUME NEW d \in Deployments, NEW fs \in SUBSET PayloadFile, IsFiniteSet(Parts(fs)), PartFile \in fs
  PROVE  /\ IsFiniteSet(Parts(Placed(fs, d)))
         /\ Cardinality(Parts(Placed(fs, d))) + 1 <= Cardinality(Parts(fs))
<1> DEFINE old == {f \in fs : SameName(f, d)}
           aged(f) == [f EXCEPT !.age = IF \E o \in old : o.age < f.age
                                        THEN @ - 1 ELSE @]
           new == [gen |-> d.gen, digest |-> d.digest, age |-> 0,
                   ok |-> Hashes(staging[d], d)]
           others == Parts(fs) \ {PartFile}
           move == [f \in others |-> aged(f)]
           S == {move[f] : f \in others}
<1>1. Parts(Placed(fs, d)) = S
  <2>1. \A f \in fs : aged(f).gen = f.gen
    BY DEF PayloadFile
  <2>2. IsSet(new)
    BY DeploymentFields DEF IsSet
  <2>3. Placed(fs, d) = {aged(f) : f \in fs \ (old \cup {PartFile})} \cup {new}
    BY DEF Placed
  <2>4. \A f \in old : IsSet(f)
    BY DeploymentFields DEF IsSet, SameName
  <2>5. S = {aged(f) : f \in others}
    OBVIOUS
  <2>6. others = {f \in fs \ (old \cup {PartFile}) : ~IsSet(f)}
    <3> HIDE DEF old
    <3> QED BY <2>4 DEF Parts
  <2>7. \A f \in fs : IsSet(aged(f)) <=> IsSet(f)
    <3> HIDE DEF aged
    <3> QED BY <2>1 DEF IsSet
  <2> DEFINE rest == fs \ (old \cup {PartFile})
  <2>8. rest \subseteq fs /\ others = {f \in rest : ~IsSet(f)} /\ Placed(fs, d) = {aged(f) : f \in rest} \cup {new}
    BY <2>3, <2>6
  <2> HIDE DEF S, move, aged, new, old, others, rest
  <2>9. ASSUME NEW x PROVE x \in Parts(Placed(fs, d)) <=> x \in S
    BY <2>2, <2>5, <2>7, <2>8 DEF Parts
  <2> QED BY <2>9
<1>2. move \in Surjection(others, S)
  BY DEF Surjection
<1>3. PartFile \in Parts(fs)
  BY DEF Parts, IsSet, PartFile
<1>4. IsFiniteSet(others) /\ Cardinality(others) = Cardinality(Parts(fs)) - 1
  BY <1>3, FS_RemoveElement
<1> HIDE DEF S, move, others
<1>5. IsFiniteSet(S) /\ Cardinality(S) <= Cardinality(others)
  BY <1>2, <1>4, FS_Surjection
<1>6. Cardinality(S) \in Nat /\ Cardinality(Parts(fs)) \in Nat
  BY <1>5, FS_CardinalityType
<1> QED BY <1>1, <1>4, <1>5, <1>6

\* The handler that writes a copy in the directory of k is running, or the process
\* is not.
Loose(k) == pc = "down" \/ (pc = "copy" /\ job.key = k)

\* A copy is left behind only by a crash: there are fewer of them than starts,
\* apart from the one being written.  The bound on the starts is respected.
PartsInv ==
  /\ term <= MaxTerm
  /\ pc = "down" => term < MaxTerm
  /\ \A k \in Keys : /\ IsFiniteSet(Parts(payload[k]))
                     /\ Cardinality(Parts(payload[k])) <= term
                     /\ ~Loose(k) => Cardinality(Parts(payload[k])) + 1 <= term

\* Only a start counts one, only a crash stops the process, and only the rename or a
\* crash ends the copy.
LEMMA CopyStays ==
  ASSUME [AgentNext]_agentVars, ~Open, ~Crash, ~StageRename
  PROVE  /\ UNCHANGED term /\ (pc = "down" => pc' = "down") /\ (pc' = "down" => pc = "down")
         /\ pc = "copy" => pc' = "copy" /\ UNCHANGED job
  BY DEF AgentNext, Request, HandlerStep, RecoveryStep, OnPrepare, OnChunk, OnStage,
         OnTransferComplete, StageRecord, OnApplyPrepare, WindowRecord, OnApplyCommit,
         ActivateUnmark, CommitResolve, CommitRecord, CommitFinding, PrunePayloads,
         OnApplyAbort, AbortNote, AbortResolve, OnRetire, RecoverKey,
         RecoverUnmark, RecoverResolve, RecoverCommit, RecoverNote, RecoverAbort,
         RecoverDone, journal, process, agentVars

\* Every step keeps the count.
LEMMA PartsStep ==
  ASSUME AgentTypeOK, ShelfInv, PartsInv, [AgentNext]_agentVars
  PROVE  PartsInv'
<1>1. payload \in [Keys -> SUBSET PayloadFile] /\ term \in Nat /\ MaxTerm \in Nat
  BY BoundsAssumption DEF AgentTypeOK
<1>2. \A k \in Keys : /\ IsFiniteSet(Parts(payload[k]))
                     /\ Cardinality(Parts(payload[k])) \in Nat
  BY FS_CardinalityType DEF PartsInv
<1>3. ASSUME NEW m \in Instructions, OnStage(m), StageCode(m) = "Ok" PROVE PartsInv'
  <2>1. /\ m.dep.key \in Keys /\ pc = "serve" /\ pc' = "copy" /\ job' = m.dep /\ UNCHANGED term
        /\ payload' = [payload EXCEPT ![m.dep.key] = Copied(payload[m.dep.key])]
    BY <1>3, DeploymentFields DEF Instructions, OnStage, journal
  <2>2. /\ IsFiniteSet(Parts(Copied(payload[m.dep.key])))
        /\ Cardinality(Parts(Copied(payload[m.dep.key]))) <= Cardinality(Parts(payload[m.dep.key])) + 1
    BY <1>1, <1>2, <2>1, CopiedParts
  <2>3. Cardinality(Parts(Copied(payload[m.dep.key]))) \in Nat
    BY <2>2, FS_CardinalityType
  <2>4. \A k \in Keys : payload'[k] = IF k = m.dep.key THEN Copied(payload[k]) ELSE payload[k]
    BY <1>1, <2>1
  <2>5. \A k \in Keys : Cardinality(Parts(payload[k])) + 1 <= term
    BY <2>1 DEF PartsInv, Loose
  <2>6. ASSUME NEW k \in Keys
        PROVE  /\ IsFiniteSet(Parts(payload'[k])) /\ Cardinality(Parts(payload'[k])) <= term
               /\ k # m.dep.key => Cardinality(Parts(payload'[k])) + 1 <= term
    BY <1>1, <1>2, <2>1, <2>2, <2>3, <2>4, <2>5
  <2>7. \A k \in Keys : Parts(payload[k])' = Parts(payload'[k])
    BY DEF Parts, IsSet
  <2> QED BY <2>1, <2>6, <2>7 DEF PartsInv, Loose
<1>4. CASE StageRename
  <2>1. /\ job \in Deployments /\ job.key \in Keys /\ pc = "copy" /\ pc' = "stage" /\ UNCHANGED term
        /\ payload' = [payload EXCEPT ![job.key] = Placed(payload[job.key], job)]
    BY <1>4, DeploymentFields DEF StageRename, AgentTypeOK, HandlerSteps, journal
  <2>2. /\ IsFiniteSet(Parts(Placed(payload[job.key], job)))
        /\ Cardinality(Parts(Placed(payload[job.key], job))) + 1 <= Cardinality(Parts(payload[job.key]))
    BY <1>1, <1>2, <2>1, PlacedParts DEF ShelfInv
  <2>3. Cardinality(Parts(Placed(payload[job.key], job))) \in Nat
    BY <2>2, FS_CardinalityType
  <2>4. \A k \in Keys : payload'[k] = IF k = job.key THEN Placed(payload[k], job) ELSE payload[k]
    BY <1>1, <2>1
  <2>5. /\ Cardinality(Parts(payload[job.key])) <= term
        /\ \A k \in Keys : k # job.key => Cardinality(Parts(payload[k])) + 1 <= term
    BY <2>1 DEF PartsInv, Loose
  <2>6. ASSUME NEW k \in Keys
        PROVE  IsFiniteSet(Parts(payload'[k])) /\ Cardinality(Parts(payload'[k])) + 1 <= term
               /\ Cardinality(Parts(payload'[k])) <= term
    BY <1>1, <1>2, <2>1, <2>2, <2>3, <2>4, <2>5
  <2>7. \A k \in Keys : Parts(payload[k])' = Parts(payload'[k])
    BY DEF Parts, IsSet
  <2> QED BY <2>1, <2>6, <2>7 DEF PartsInv
<1>5. CASE PrunePayloads
  <2> DEFINE left(k) == {f \in payload[k] : f.age < RetainedPayloads}
  <2>1. /\ job.key \in Keys /\ pc = "prune" /\ pc' = "serve" /\ UNCHANGED term
        /\ payload' = [payload EXCEPT ![job.key] = left(job.key)]
    BY <1>5, DeploymentFields DEF PrunePayloads, AgentTypeOK, HandlerSteps, journal
  <2>2. \A k \in Keys : Parts(left(k)) \in SUBSET Parts(payload[k])
    BY DEF Parts
  <2>3. ASSUME NEW k \in Keys
        PROVE  IsFiniteSet(Parts(payload'[k])) /\ Parts(payload'[k]) \in SUBSET Parts(payload[k])
               /\ Cardinality(Parts(payload'[k])) <= Cardinality(Parts(payload[k]))
    <3>1. Parts(payload'[k]) \in SUBSET Parts(payload[k])
      BY <1>1, <2>1, <2>2
    <3> QED BY <1>2, <3>1, FS_Subset
  <2>4. \A k \in Keys : Cardinality(Parts(payload'[k])) \in Nat
    BY <2>3, FS_CardinalityType
  <2>5. \A k \in Keys : Cardinality(Parts(payload[k])) + 1 <= term
    BY <2>1 DEF PartsInv, Loose
  <2>6. \A k \in Keys : Cardinality(Parts(payload'[k])) + 1 <= term /\ Cardinality(Parts(payload'[k])) <= term
    BY <1>1, <1>2, <2>3, <2>4, <2>5
  <2>7. \A k \in Keys : Parts(payload[k])' = Parts(payload'[k])
    BY DEF Parts, IsSet
  <2> QED BY <2>1, <2>3, <2>6, <2>7 DEF PartsInv
<1>6. CASE /\ UNCHANGED payload /\ (pc' = "copy" => pc = "copy" /\ UNCHANGED job)
           /\ ~StageRename
  <2>1. \A k \in Keys : Parts(payload[k])' = Parts(payload[k])
    BY <1>6 DEF Parts, IsSet
  <2>2. CASE Open
    <3>1. pc = "down" /\ pc' = "boot" /\ term' = term + 1
      BY <2>2 DEF Open
    <3>2. \A k \in Keys : Cardinality(Parts(payload[k])) <= term
      BY DEF PartsInv
    <3> QED BY <1>1, <1>2, <2>1, <3>1, <3>2 DEF PartsInv
  <2>3. CASE Crash
    <3>1. pc' = "down" /\ UNCHANGED term /\ term < MaxTerm
      BY <2>3 DEF Crash
    <3> QED BY <1>1, <1>2, <2>1, <3>1 DEF PartsInv, Loose
  <2>4. CASE ~Open /\ ~Crash
    <3>1. UNCHANGED term /\ (pc = "down" => pc' = "down") /\ (pc' = "down" => pc = "down")
          /\ (pc = "copy" => pc' = "copy" /\ UNCHANGED job)
      BY <1>6, <2>4, CopyStays
    <3>2. \A k \in Keys : Loose(k)' <=> Loose(k)
      BY <1>6, <3>1 DEF Loose
    <3> QED BY <2>1, <3>1, <3>2 DEF PartsInv
  <2> QED BY <2>2, <2>3, <2>4
<1> QED BY <1>3, <1>4, <1>5, <1>6, PayloadSteps

\* With room for every name and every crash, no file is old enough to be pruned.
LEMMA RoomRetains ==
  ASSUME Room, AgentTypeOK, ShelfInv, PartsInv
  PROVE  RetentionSuffices
<1> SUFFICES ASSUME pc = "prune", NEW f \in payload[job.key]
             PROVE  f.age < RetainedPayloads
  BY DEF RetentionSuffices
<1> DEFINE fs == payload[job.key]
           S == Names(job.key)
<1>1. job.key \in Keys /\ fs \in SUBSET PayloadFile
  BY DeploymentFields DEF AgentTypeOK, HandlerSteps
<1>2. IsFiniteSet(S) /\ Cardinality(S) + (MaxTerm - 1) <= RetainedPayloads
  BY <1>1 DEF Room
<1>3. /\ Shelf(fs, job.key) /\ IsFiniteSet(Parts(fs)) /\ Cardinality(Parts(fs)) + 1 <= term
      /\ term <= MaxTerm
  BY <1>1 DEF ShelfInv, PartsInv, Loose
<1>4. f.age \in Nat /\ f.age + 1 \in Nat /\ f.age + 1 - 1 = f.age
  BY <1>1 DEF PayloadFile
<1>5. \A i \in 0 .. f.age + 1 - 1 : \E g \in fs : g.age = i
  BY <1>3, <1>4 DEF Shelf
<1>6. ASSUME NEW g \in fs, IsSet(g) PROVE [gen |-> g.gen, digest |-> g.digest] \in S
  <2>1. PICK d \in Deployments : d.key = job.key /\ SameName(g, d)
    BY <1>3, <1>6 DEF Shelf
  <2> QED BY <2>1 DEF Names, Ptr, SameName
<1>7. \A p \in S : p.gen # 0
  BY DeploymentFields DEF Names, Ptr
<1> HIDE DEF fs, S
<1>8. f.age + 1 <= Cardinality(S) + Cardinality(Parts(fs))
  BY <1>1, <1>2, <1>3, <1>4, <1>5, <1>6, <1>7, YoungerFiles
<1>9. Cardinality(S) \in Nat /\ Cardinality(Parts(fs)) \in Nat /\ RetainedPayloads \in Nat
      /\ MaxTerm \in Nat /\ term \in Nat
  BY <1>2, <1>3, FS_CardinalityType, BoundsAssumption DEF AgentTypeOK
<1> QED BY <1>2, <1>3, <1>4, <1>8, <1>9

\* An agent that retains a file for each name a payload of the key can have and for
\* each crash never prunes a payload: the hypothesis of the theorems above can be met
\* by configuration.  The names alone are not enough, because prunePayloads counts
\* the copies that crashes have cut off.
THEOREM RoomSuffices ==
  ASSUME Room
  PROVE  AgentSpec => []RetentionSuffices
<1>1. AgentInit => ShelfInv /\ PartsInv
  <2> SUFFICES ASSUME AgentInit PROVE ShelfInv /\ PartsInv
    OBVIOUS
  <2>1. \A k \in Keys : payload[k] = {} /\ Parts(payload[k]) = {}
    BY DEF AgentInit, Parts
  <2>2. ShelfInv
    BY <2>1 DEF AgentInit, ShelfInv, Shelf
  <2>3. IsFiniteSet({}) /\ Cardinality({}) = 0
    BY FS_EmptySet
  <2>4. /\ \A k \in Keys : IsFiniteSet(Parts(payload[k])) /\ Cardinality(Parts(payload[k])) = 0
        /\ term = 0 /\ pc = "down" /\ MaxTerm \in Nat \ {0}
    BY <2>1, <2>3, BoundsAssumption DEF AgentInit
  <2>5. PartsInv
    BY <2>4 DEF PartsInv, Loose
  <2> QED BY <2>2, <2>5
<1>2. AgentTypeOK /\ ShelfInv /\ PartsInv /\ [AgentNext]_agentVars => (ShelfInv /\ PartsInv)'
  BY ShelfStep, PartsStep
<1>3. AgentTypeOK /\ ShelfInv /\ PartsInv => RetentionSuffices
  BY RoomRetains
<1> QED
  BY <1>1, <1>2, <1>3, AgentTypes, PTL DEF AgentSpec

\* The two hypotheses together: with one key and a retained file for each of its names
\* and for each crash, whatever a peer sends and wherever crashes fall, the pointer names
\* a payload that hashes, the record follows it, acknowledgements are true, the
\* generation only grows and a finding is replaced only by a newer activation.
THEOREM RoomyAgentIsSound ==
  ASSUME OneKey, Room
  PROVE  AgentSpec => /\ [](PointerNamesPayload /\ RecordFollowsPointer /\ AckedIsLive)
                      /\ GenerationMonotone
                      /\ EvidenceKept
<1>1. AgentSpec => []RetentionSuffices
  BY RoomSuffices
<1>2. AgentSpec /\ []RetentionSuffices => []PointerNamesPayload
  BY PointerAlwaysNamesPayload
<1>3. AgentSpec /\ []RetentionSuffices => []RecordFollowsPointer
  BY RecordAlwaysFollows
<1>4. AgentSpec /\ []RetentionSuffices => []AckedIsLive
  BY AcksAreTrue
<1>5. AgentSpec /\ []RetentionSuffices => GenerationMonotone
  BY PointerNeverGoesBack
<1>6. AgentSpec /\ []RetentionSuffices => EvidenceKept
  BY EvidenceAlwaysKept
<1> QED
  BY <1>1, <1>2, <1>3, <1>4, <1>5, <1>6, PTL

-----------------------------------------------------------------------------
(* What start-up claims when payloads were damaged at rest.                *)

\* The commit on record is what some pointer names, and that payload hashes.
Verified == IsSet(committed) => \E k \in Keys : current[k] = committed /\ Intact(k)

\* Only a pointer makes a commit, and recovery leaves no commit unverified once it
\* has visited a directory; it has one to visit if there is a commit.
ClaimInv ==
  /\ IsSet(committed) => \E k \in Keys : IsSet(current[k])
  /\ pc \in {"unmark", "resolve", "commit"} => IsSet(current[job.key])
  /\ pc = "boot" => scan # {} \/ Verified
  /\ pc = "bootAbort" => Verified

\* Every step keeps the claims.
LEMMA ClaimStep ==
  ASSUME AgentTypeOK, AgentTypeOK', ClaimInv, AgentNext
  PROVE  ClaimInv'
<1>0. \A d \in Deployments : Ptr(d).gen # 0 /\ d.key \in Keys
  BY DeploymentFields DEF Ptr
<1>1. CASE \E m \in Instructions : OnApplyCommit(m)
  <2>1. PICK m \in Instructions : OnApplyCommit(m)
    BY <1>1
  <2>2. CASE CommitCode(m) = "Ok"
    <3>1. /\ m.dep \in Deployments /\ current' = [current EXCEPT ![m.dep.key] = Ptr(m.dep)]
          /\ job' = m.dep /\ pc' \in {"commit", "unmark"} /\ current \in [Keys -> Pointer]
      BY <2>1, <2>2 DEF OnApplyCommit, Instructions, AgentTypeOK
    <3>2. IsSet(current'[m.dep.key]) /\ m.dep.key \in Keys
      BY <1>0, <3>1 DEF IsSet
    <3> QED BY <3>1, <3>2 DEF ClaimInv
  <2>3. CASE CommitCode(m) # "Ok"
    BY <2>1, <2>3 DEF OnApplyCommit, ClaimInv, journal, IsSet
  <2> QED BY <2>2, <2>3
<1>2. CASE CommitRecord
  <2>1. job \in Deployments /\ IsSet(current[job.key]) /\ pc' = "finding" /\ UNCHANGED current
    BY <1>2 DEF CommitRecord, AgentTypeOK, HandlerSteps, ClaimInv, files
  <2> QED BY <1>0, <2>1 DEF ClaimInv, IsSet
<1>3. CASE Open
  <2>1. /\ UNCHANGED <<committed, current, payload>> /\ pc' = "boot"
        /\ scan' = {k \in Keys : IsSet(current[k]) \/ pending[k]}
    BY <1>3 DEF Open
  <2>2. scan' # {} \/ ~IsSet(committed)
    BY <2>1 DEF ClaimInv
  <2> QED BY <2>1, <2>2 DEF ClaimInv, Verified, IsSet
<1>4. CASE RecoverCommit
  <2>1. /\ dir \in Keys /\ UNCHANGED <<current, payload, job>> /\ pc' = "boot"
        /\ committed' = IF IsSet(current[dir]) /\ Intact(dir) THEN current[dir] ELSE Unset
    BY <1>4 DEF RecoverCommit, AgentTypeOK, files
  <2>2. ~IsSet(Unset)
    BY DEF IsSet, Unset
  <2>3. \A k \in Keys : Intact(k)' <=> Intact(k)
    BY <2>1 DEF Intact
  <2>4. IsSet(committed') => /\ IsSet(current[dir]) /\ Intact(dir)
                             /\ committed' = current[dir]
    BY <2>1, <2>2
  <2>5. Verified'
    BY <2>1, <2>3, <2>4 DEF Verified, IsSet
  <2>6. IsSet(committed') => \E k \in Keys : IsSet(current'[k])
    BY <2>1, <2>4
  <2> QED BY <2>1, <2>5, <2>6 DEF ClaimInv, IsSet
<1>6. CASE RecoverNote
  <2>1. /\ pc = "boot" /\ scan = {} /\ pc' = "bootAbort"
        /\ UNCHANGED <<committed, current, payload>>
    BY <1>6 DEF RecoverNote, files
  <2> QED BY <2>1 DEF ClaimInv, Verified, Intact, IsSet
<1>5. CASE ~\/ \E m \in Instructions : OnApplyCommit(m)
            \/ CommitRecord \/ Open \/ RecoverCommit \/ RecoverNote
  <2>1. /\ UNCHANGED <<committed, current>>
        /\ pc' \notin {"boot", "bootAbort"}
        /\ pc' \in {"unmark", "resolve", "commit"} =>
             pc \in {"unmark", "resolve", "commit"} /\ job' = job
    BY <1>5 DEF AgentNext, Request, HandlerStep, RecoveryStep, OnPrepare, OnChunk,
         OnTransferComplete, OnStage, StageRename, StageRecord, OnApplyPrepare, WindowRecord,
         ActivateUnmark, CommitResolve, CommitFinding, PrunePayloads, OnApplyAbort, AbortNote,
         AbortResolve, OnRetire, Crash, RecoverKey, RecoverUnmark, RecoverResolve,
         RecoverAbort, RecoverDone, journal, files
  <2> QED BY <2>1 DEF ClaimInv, IsSet
<1> QED BY <1>1, <1>2, <1>3, <1>4, <1>5, <1>6

\* At the end of start-up, with or without a window to abort, a committed generation is
\* only claimed when its payload is there and hashes: for any number of keys, and although bytes at rest were damaged
\* while the agent was down, any number of times.
THEOREM ClaimsAreIntact == DamageSpec => []AgentTypeOK /\ ClaimIsIntact
<1> DEFINE Claim == (pc \in {"boot", "bootAbort"} /\ pc' = "serve" /\ IsSet(committed')) =>
                      (\E k \in Keys : current'[k] = committed' /\ Intact(k)')
<1>1. AgentInit => AgentTypeOK /\ ClaimInv
  BY TypeInit DEF AgentInit, ClaimInv, IsSet, Unset
<1>2. AgentTypeOK /\ ClaimInv /\ [AgentNext \/ DamageAtRest]_agentVars => (AgentTypeOK /\ ClaimInv)'
  <2>1. CASE AgentNext
    BY <2>1, TypeStep, ClaimStep
  <2>2. CASE DamageAtRest
    BY <2>2, DamageFrame DEF ClaimInv, IsSet, journal, process
  <2>3. CASE UNCHANGED agentVars
    BY <2>3, TypeStep DEF ClaimInv, Verified, Intact, IsSet, agentVars, journal, files, process
  <2> QED BY <2>1, <2>2, <2>3
<1>3. AgentTypeOK /\ ClaimInv /\ [AgentNext \/ DamageAtRest]_agentVars => [Claim]_agentVars
  <2>1. ASSUME AgentTypeOK, ClaimInv, AgentNext \/ DamageAtRest,
               pc \in {"boot", "bootAbort"}, pc' = "serve"
        PROVE  Verified'
    <3>1. (pc = "boot" => scan = {}) /\ UNCHANGED <<committed, current, payload>>
      BY <2>1 DEF AgentNext, Request, HandlerStep, RecoveryStep, OnPrepare, OnChunk,
         OnTransferComplete, OnStage, StageRename, StageRecord, OnApplyPrepare, WindowRecord,
         OnApplyCommit, ActivateUnmark, CommitResolve, CommitRecord, CommitFinding, PrunePayloads,
         OnApplyAbort, AbortNote, AbortResolve, OnRetire, Crash, Open, RecoverKey, RecoverUnmark,
         RecoverResolve, RecoverCommit, RecoverNote, RecoverAbort, RecoverDone, DamageAtRest,
         journal, files
    <3>2. Verified
      BY <2>1, <3>1 DEF ClaimInv
    <3> QED BY <3>1, <3>2 DEF Verified, Intact, IsSet
  <2> QED BY <2>1 DEF Verified, IsSet
<1> QED
  BY <1>1, <1>2, <1>3, PTL DEF DamageSpec, ClaimIsIntact
=============================================================================
