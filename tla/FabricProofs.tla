---------------------------- MODULE FabricProofs ----------------------------
(***************************************************************************)
(* Theorems about the distributor and the agent together, from those about *)
(* each of them (DistributorProofs, AgentProofs).                          *)
(***************************************************************************)
EXTENDS Fabric, AgentProofs, DistributorProofs

\* The requests about a delivery that is driven, and the places of the session
\* where it is.
DriveKinds == {"Prepare", "Chunk", "TransferComplete", "Stage", "ApplyPrepare", "ApplyCommit"}
Driving == {"Offer", "prepareAck", "chunk", "chunkAck", "result", "stageAck", "windowAck",
            "commitAck"}

-----------------------------------------------------------------------------
(* The shape of the whole: both parts keep their own invariants, and what  *)
(* is on the wire is of the right kind.                                    *)

RequestOK ==
  req = NoReq \/ /\ req \in [kind : {"Hello", "ReconcileRequest", "ApplyAbort"} \cup DriveKinds,
                             dep : MaybeDeployment, offset : Nat]
                 /\ req.kind \notin {"Hello", "ReconcileRequest"} => req.dep \in Deployments

WireOK ==
  /\ link \in {"none", "open", "broken"}
  /\ RequestOK
  /\ inbox \in Seq(Frames) /\ out \in Seq(Frames)

\* Only an artifact within the limit has a transfer, and a running agent has a
\* boot term.
AgentOK ==
  /\ AgentTypeOK
  /\ \A d \in Deployments : xfer[d].open => d.size <= MaxArtifact
  /\ pc # "down" => term # 0

\* An abort names the window of the report it answers.
AbortNamed == ses.pc = "abortAck" => ses.report.window \in Deployments

BaseInv == DInv /\ AgentOK /\ AbortNamed /\ WireOK /\ live \subseteq Deployments

-----------------------------------------------------------------------------
(* What is claimed was live.                                               *)

\* Whatever deployment the pair p stands for is in S.
Within(S, p) == \A d \in Deployments : PairOf(d) = p => d \in S

Committing == {"unmark", "resolve", "commit", "finding", "prune"}

\* The agent's own records: pointer, committed pair, findings, and the commit
\* under way.
LiveKnown ==
  /\ \A k \in Keys : Within(live, current[k])
  /\ Within(live, committed)
  /\ \A e \in Entries : Within(live, [gen |-> e.gen, digest |-> e.digest])
  /\ pc \in Committing => Within(live, PairOf(job))

\* The deployments a frame says are, or were, active; no session is asked.
Claims(m) ==
  {d \in Deployments :
     \/ m.kind = "Report" /\ PairOf(d) \in m.findings \cup {m.pair}
     \/ m.kind = "PrepareAck" /\ m.duplicate /\ m.dep = d
     \/ m.kind = "DeliveryAck" /\ m.dep = d
     \/ m.kind = "ApplyCommitAck" /\ m.ok /\ m.pair = PairOf(d)}

Honest(S, frames) == \A i \in 1 .. Len(frames) : Claims(frames[i]) \subseteq S

HonestInv ==
  LiveKnown /\ Honest(live, inbox) /\ Honest(live, out) /\ heard.active \subseteq live

-----------------------------------------------------------------------------
(* What is converged is running.                                           *)

\* A plan among the records r asks for generation g or a newer one.
Reached(r, g) == \E e \in Known(r) : e.gen >= g

\* Nothing is asked of the agent, or runs there, that no plan reaches.
PlanReaches ==
  /\ \A k \in Keys : IsSet(current[k]) => Reached(rec, current[k].gen)
  /\ req.kind \in DriveKinds => Reached(rec, req.dep.gen)
  /\ ses.pc \in Driving => Reached(rec, ses.cur.gen)

\* What was live is behind the pointer, or is what it names.
LiveBehind == \A d \in live : d.gen < current[d.key].gen \/ current[d.key] = PairOf(d)

RunInv == AreaInv /\ LiveInv /\ LiveBehind

-----------------------------------------------------------------------------
(* Pruning takes nothing that matters.                                     *)

\* A generation is not used again for other content.
OneContent == \A d, e \in Deployments : d.key = e.key /\ d.gen = e.gen => d.digest = e.digest

\* None of the payloads of the key, and nothing that is being copied there, is of
\* a newer generation.
Newest(d) ==
  /\ \A f \in payload[d.key] : f.gen <= d.gen
  /\ pc = "copy" => job.gen <= d.gen

\* Payloads were staged in the order of their generations, and nothing older
\* than a payload is driven, asked for or committed any more.
StagedInOrder ==
  /\ \A k \in Keys : \A f, g \in payload[k] :
       IsSet(f) /\ IsSet(g) /\ f.age < g.age => g.gen < f.gen
  /\ \A k \in Keys : \A f \in payload[k] : IsSet(f) => Reached(rec, f.gen)
  /\ pc = "copy" => Reached(rec, job.gen)
  /\ ses.pc \in Driving =>
       Newest(ses.cur) /\ (req.kind \in DriveKinds => req.dep.gen <= ses.cur.gen)
  /\ req.kind \in DriveKinds => Newest(req.dep)
  /\ pc \in Committing \cup {"copy"} => Newest(job)

\* A file is retained for each crash and one more, whatever names there are.
CrashRoom == MaxTerm <= RetainedPayloads

OrderInv == ShelfInv /\ StagedInOrder

-----------------------------------------------------------------------------
(* Where a session goes.                                                   *)

\* The session asks for nothing about a delivery.
Elsewhere == ses'.pc \notin Driving \cup {"abortAck"}

\* It goes on with the same delivery.
GoesOn(place) == ses'.pc = place /\ ses'.cur = ses.cur /\ ses'.report = ses.report

\* A plan on record has a newer generation.
Superseded(d) == Known(rec) \cap SameLineage(d) # {} /\ Latest(rec, d).gen > d.gen

\* A step of the session leaves the delivery, goes on with it, starts with one
\* that is on record and not superseded, or aborts the window of its report.
SessionMove ==
  \/ Elsewhere
  \/ ses.pc \in Driving /\ ses'.pc \in Driving /\ ses'.cur = ses.cur
  \/ ses'.pc \in Driving /\ ses'.cur \in Known(rec) /\ ~Superseded(ses'.cur)
  \/ ses'.pc = "abortAck" /\ ses'.report.window \in Deployments

\* The ways out of a delivery, and out of a session, ask for nothing.
LEMMA Leaving ==
  ASSUME ses \in Session,
         \/ FailSession \/ EndSession \/ DriveError
         \/ \E errs : NextDelivery(errs)
         \/ \E after : Return(after) \/ Error(after)
  PROVE  Elsewhere
  <1>1. FailSession => ses'.pc = "fail"
    BY DEF FailSession, Idle
  <1>2. EndSession => ses'.pc = "idle"
    BY DEF EndSession, Idle
  <1>3. ASSUME NEW errs, NextDelivery(errs) PROVE ses'.pc = "drive"
    BY <1>3 DEF NextDelivery, Session
  <1>4. DriveError => ses'.pc \in {"idle", "drive"}
    BY <1>2, <1>3 DEF DriveError
  <1>5. ASSUME NEW after, Return(after) PROVE ses'.pc \in {"drive", "apply"}
    BY <1>3, <1>5 DEF Return, Session
  <1>6. ASSUME NEW after, Error(after) PROVE ses'.pc \in {"fail", "idle", "drive"}
    BY <1>1, <1>4, <1>6 DEF Error
  <1> QED
    BY <1>1, <1>2, <1>3, <1>4, <1>5, <1>6 DEF Elsewhere, Driving

\* A transition of the record is followed by the place it names.
LEMMA TransitionMoves ==
  ASSUME ses \in Session, NEW to, NEW place, NEW after, Transition(to, place, after)
  PROVE  Elsewhere \/ GoesOn(place)
  <1>1. CASE IsLegalTransition(held[ses.cur].state, to)
    BY <1>1 DEF Transition, GoesOn, Session
  <1>2. CASE ~IsLegalTransition(held[ses.cur].state, to)
    BY <1>2, Leaving DEF Transition
  <1> QED BY <1>1, <1>2

\* Recording a result leaves the delivery, or goes on to adopt an activation.
LEMMA RecordMoves ==
  ASSUME ses \in Session, NEW after,
         \/ RecordRejected(after) \/ RecordRetired(after) \/ RecordFailure(after)
         \/ Adopt(after) \/ \E m : OnNack(m)
  PROVE  Elsewhere
  <1>1. "rewrite" \notin Driving \cup {"abortAck"} /\ "adopt" \notin Driving \cup {"abortAck"}
    BY DEF Driving
  <1>2. ASSUME NEW t, RecordFailure(t) PROVE Elsewhere
    BY <1>2, Leaving DEF RecordFailure
  <1>3. CASE RecordRejected(after) \/ RecordRetired(after)
    BY <1>1, <1>3, Leaving, TransitionMoves DEF RecordRejected, RecordRetired, GoesOn, Elsewhere
  <1>4. CASE Adopt(after)
    <2>1. CASE IsActivationState(held[ses.cur].state)
      BY <1>1, <1>4, <2>1 DEF Adopt, Elsewhere, Session
    <2>2. CASE ~IsActivationState(held[ses.cur].state)
      BY <1>1, <1>4, <2>2, TransitionMoves DEF Adopt, GoesOn, Elsewhere
    <2> QED BY <2>1, <2>2
  <1>5. CASE \E m : OnNack(m)
    BY <1>2, <1>5, Leaving DEF OnNack
  <1> QED BY <1>2, <1>3, <1>4, <1>5

\* Only what is not superseded is offered or activated.
LEMMA DecidesUnsuperseded ==
  ASSUME NEW d, NEW r, NEW elapsed, NEW fresh,
         Decision(d, r, elapsed, fresh) \in {"Offer", "Activate"}
  PROVE  ~Superseded(d)
  BY DEF Decision, Decide, DecisionInput, Superseded

\* A turn of driveDelivery.
LEMMA DriveReadMoves ==
  ASSUME DInv, NEW elapsed, NEW fresh, DriveRead(elapsed, fresh)
  PROVE  SessionMove
  <1> DEFINE d == First(ses.todo)
             action == Decision(d, rec[d], elapsed, fresh)
  <1>1. ses \in Session /\ ses.pc = "drive" /\ d \in Deployments
    BY FirstIn DEF DInv, WorkerOK, DriveRead, Session
  <1>2. CASE ses' = [ses EXCEPT !.todo = @ \ {d}, !.again = FALSE]
    BY <1>1, <1>2 DEF SessionMove, Elsewhere, Driving, Session
  <1>3. CASE ~(ses' = [ses EXCEPT !.todo = @ \ {d}, !.again = FALSE])
    <2>1. /\ rec[d].state # "None"
          /\ ses' = [ses EXCEPT !.cur = d, !.after = "loop",
                                !.pc = IF action = "Activate" THEN ActivationStep(rec[d].state)
                                       ELSE action]
      BY <1>3 DEF DriveRead
    <2>2. /\ ses'.cur = d
          /\ ses'.pc = IF action = "Activate" THEN ActivationStep(rec[d].state) ELSE action
      <3> HIDE DEF d, action
      <3> QED BY <1>1, <2>1 DEF Session
    <2>3. action \in PolicyActions
      BY DecisionAction
    <2>4. d \in Known(rec)
      BY <1>1, <2>1 DEF Known
    <2>5. CASE action \in {"Offer", "Activate"}
      <3>1. ~Superseded(d)
        BY <2>5, DecidesUnsuperseded
      <3>2. ses'.pc \in Driving
        <4> HIDE DEF action, d
        <4> QED BY <2>2, <2>5 DEF Driving, ActivationStep
      <3> HIDE DEF d
      <3> QED BY <2>2, <2>4, <3>1, <3>2 DEF SessionMove
    <2>6. CASE action \notin {"Offer", "Activate"}
      <3> HIDE DEF action, d
      <3> QED BY <2>2, <2>3, <2>6 DEF SessionMove, Elsewhere, Driving, PolicyActions
    <2> QED BY <2>5, <2>6
  <1> QED BY <1>2, <1>3

\* The application of the report.
LEMMA ApplyReportMoves ==
  ASSUME DInv, ApplyReport
  PROVE  SessionMove
  <1> DEFINE d == First(ses.todo)
             outcome == ReconcileDelivery(ses.report, ses.term, d, NoDeployment)
  <1>1. ses \in Session /\ ses.pc = "apply" /\ d \in Deployments
    BY FirstIn DEF DInv, WorkerOK, ApplyReport, Session
  <1>2. \/ outcome = "ResolvePrepareWindow" /\ ses' = [ses EXCEPT !.cur = d, !.pc = "abortAck"]
        \/ ses' = [ses EXCEPT !.cur = d, !.pc = "rewrite", !.after = "apply"]
        \/ ses' = [ses EXCEPT !.cur = d, !.pc = "adopt", !.after = "apply"]
        \/ ses' = [ses EXCEPT !.todo = @ \ {d}]
        \/ FailSession
    BY DEF ApplyReport
  <1>3. outcome = "ResolvePrepareWindow" => ses.report.window # NoDeployment
    BY DEF ReconcileDelivery
  <1>4. ses.report.window \in MaybeDeployment
    BY <1>1 DEF Session, Reported
  <1> HIDE DEF d, outcome
  <1> QED
    BY <1>1, <1>2, <1>3, <1>4, Leaving DEF SessionMove, Elsewhere, Driving, Session, MaybeDeployment

\* The steps of a session that wait for nobody.
LEMMA SessionStepMoves ==
  ASSUME DInv, SessionStep
  PROVE  SessionMove
  <1>0. ses \in Session
    BY DEF DInv, WorkerOK
  <1>1. CASE \/ \E d \in Deployments, elapsed \in BOOLEAN : PickWork(d, elapsed)
             \/ PickVerification
    BY <1>1 DEF PickWork, PickVerification, Idle, SessionMove, Elsewhere, Driving
  <1>2. CASE SessionFailureOne \/ RearmOne
    BY <1>0, <1>2 DEF SessionFailureOne, RearmOne, Session, SessionMove, Elsewhere, Driving
  <1>3. CASE SessionFailureDone \/ DriveDone \/ Rewrite
    BY <1>0, <1>3, Leaving DEF SessionFailureDone, DriveDone, Rewrite, SessionMove
  <1>4. CASE ApplyDone \/ AdoptTarget
    BY <1>0, <1>4 DEF ApplyDone, AdoptTarget, Session, SessionMove, Elsewhere, Driving
  <1>5. CASE Acknowledge
    <2>1. "rewrite" \notin Driving \cup {"abortAck"}
      BY DEF Driving
    <2> QED
      BY <1>0, <1>5, <2>1, Leaving, TransitionMoves DEF Acknowledge, GoesOn, SessionMove, Elsewhere
  <1>6. CASE DriveLocal
    <2>1. "rewrite" \notin Driving \cup {"abortAck"}
      BY DEF Driving
    <2> QED
      BY <1>0, <1>6, <2>1, RecordMoves, TransitionMoves DEF DriveLocal, GoesOn, SessionMove, Elsewhere
  <1>7. CASE Retry \/ SendPrepare \/ SendComplete
    <2>1. ses.pc \in Driving /\ {"Offer", "prepareAck", "result"} \subseteq Driving
      BY <1>7 DEF Retry, SendPrepare, SendComplete, Driving
    <2>2. Elsewhere \/ GoesOn("Offer") \/ GoesOn("prepareAck") \/ GoesOn("result")
      <3>1. CASE Retry
        BY <1>0, <3>1, TransitionMoves DEF Retry
      <3>2. CASE SendPrepare /\ held[ses.cur].state = "Prepared"
        BY <1>0, <3>2, TransitionMoves DEF SendPrepare
      <3>3. CASE SendPrepare /\ held[ses.cur].state # "Prepared"
        BY <1>0, <3>3 DEF SendPrepare, GoesOn, Session
      <3>4. CASE SendComplete /\ held[ses.cur].state \in {"Offered", "Prepared"}
        BY <1>0, <3>4, TransitionMoves DEF SendComplete
      <3>5. CASE SendComplete /\ held[ses.cur].state \notin {"Offered", "Prepared"}
        BY <1>0, <3>5 DEF SendComplete, GoesOn, Session
      <3> QED BY <1>7, <3>1, <3>2, <3>3, <3>4, <3>5
    <2> QED BY <2>1, <2>2 DEF SessionMove, GoesOn
  <1>8. CASE SendChunk
    BY <1>0, <1>8 DEF SendChunk, Session, SessionMove, Driving
  <1>9. CASE DigestMismatch
    BY <1>0, <1>9, RecordMoves DEF DigestMismatch, SessionMove
  <1> QED
    BY <1>1, <1>2, <1>3, <1>4, <1>5, <1>6, <1>7, <1>8, <1>9, DriveReadMoves, ApplyReportMoves
       DEF SessionStep

\* A verdict leaves the delivery or goes on to the next request about it.
LEMMA VerdictMoves ==
  ASSUME ses \in Session, NEW m, NEW place, NEW kind, NEW to, NEW next,
         OnVerdict(m, place, kind, to, next)
  PROVE  Elsewhere \/ (ses.pc = place /\ GoesOn(next))
  <1>1. CASE m.kind = kind /\ m.ok /\ to = held[ses.cur].state /\ ses' = [ses EXCEPT !.pc = next]
    BY <1>1 DEF OnVerdict, GoesOn, Session
  <1>2. CASE Transition(to, next, "loop")
    BY <1>2, TransitionMoves DEF OnVerdict
  <1>3. CASE RecordFailure("loop") \/ OnNack(m) \/ DriveError
    BY <1>3, RecordMoves, Leaving
  <1> QED
    BY <1>1, <1>2, <1>3 DEF OnVerdict

\* The receipt of a frame.
LEMMA ReceiveMoves ==
  ASSUME DInv, NEW m, Receive(m)
  PROVE  SessionMove
  <1>0. ses \in Session
    BY DEF DInv, WorkerOK
  <1>1. CASE OnHello(m) \/ OnReport(m)
    <2>1. CASE FailSession
      BY <1>0, <2>1, Leaving DEF SessionMove
    <2>2. CASE ~FailSession
      BY <1>0, <1>1, <2>2 DEF OnHello, OnReport, Session, SessionMove, Elsewhere, Driving
    <2> QED BY <2>1, <2>2
  <1>2. CASE OnAbortAck(m)
    BY <1>0, <1>2, Leaving DEF OnAbortAck, SessionMove
  <1>3. CASE OnPrepareReply(m)
    <2>1. CASE ses' = [ses EXCEPT !.pc = "chunk", !.offset = m.bytes]
      BY <1>0, <1>3, <2>1 DEF OnPrepareReply, Session, SessionMove, Driving
    <2>2. CASE ~(ses' = [ses EXCEPT !.pc = "chunk", !.offset = m.bytes])
      <3>1. \/ DriveError
            \/ \E after : Adopt(after) \/ RecordFailure(after) \/ RecordRejected(after)
                            \/ RecordRetired(after)
            \/ OnNack(m)
        BY <1>3, <2>2 DEF OnPrepareReply, OnPrepareAck, OnPrepareReject
      <3> QED BY <1>0, <3>1, Leaving, RecordMoves DEF SessionMove
    <2> QED BY <2>1, <2>2
  <1>4. CASE OnChunkReply(m)
    <2>1. CASE ses' = [ses EXCEPT !.pc = "chunk", !.offset = m.bytes]
      BY <1>0, <1>4, <2>1 DEF OnChunkReply, Session, SessionMove, Driving
    <2>2. CASE ~(ses' = [ses EXCEPT !.pc = "chunk", !.offset = m.bytes])
      BY <1>0, <1>4, <2>2, Leaving, RecordMoves DEF OnChunkReply, SessionMove
    <2> QED BY <2>1, <2>2
  <1>5. CASE OnTransferResult(m) \/ OnStageAck(m) \/ OnApplyPrepareAck(m)
    <2>1. \/ Elsewhere
          \/ /\ ses.pc \in {"result", "stageAck", "windowAck"}
             /\ \/ GoesOn(ActivationStep("Verified")) \/ GoesOn(ActivationStep("Staged"))
                \/ GoesOn("commitAck")
      BY <1>0, <1>5, VerdictMoves DEF OnTransferResult, OnStageAck, OnApplyPrepareAck
    <2> QED
      BY <2>1 DEF GoesOn, ActivationStep, Driving, SessionMove
  <1>6. CASE OnCommitAck(m) \/ OnAck(m)
    BY <1>0, <1>6, Leaving, RecordMoves DEF OnCommitAck, OnAck, SessionMove
  <1> QED
    BY <1>1, <1>2, <1>3, <1>4, <1>5, <1>6 DEF Receive

\* Faults, and the end of a connection.
LEMMA TroubleMoves ==
  ASSUME DInv, Fault \/ Unreachable \/ ConnectionLost
  PROVE  SessionMove
  <1>0. ses \in Session
    BY DEF DInv, WorkerOK
  <1>1. ASSUME Unreachable \/ ConnectionLost PROVE SessionMove
    BY <1>0, <1>1, Leaving DEF Unreachable, ConnectionLost, SessionMove
  <1>2. CASE ReadFails
    BY <1>0, <1>2, RecordMoves DEF ReadFails, SessionMove
  <1> QED
    BY <1>1, <1>2, DriveReadMoves DEF Fault

-----------------------------------------------------------------------------
(* The two parts in one step.                                              *)

\* What every step is for the distributor.
Turn ==
  /\ StepSound
  /\ SessionMove \/ UNCHANGED ses

\* The steps of the agent change nothing of the distributor but the faults that
\* are left.
LEMMA AgentTurn ==
  ASSUME DInv, UNCHANGED <<rec, tgt, stored, listed, epoch, ses, held, loc, ctl, verify, heard, ops>>,
         faults' \in Nat
  PROVE  Turn
  <1>1. HeardGrows
    BY KeepHeard
  <1>2. SessionEffect
    BY <1>1, NoCommit, KeepWorker DEF SessionEffect, aside, DInv, RestOK
  <1> QED
    BY <1>1, <1>2, WorkerStepSound DEF Turn

\* Every step is sound for the distributor.
LEMMA EveryTurn ==
  ASSUME DInv, inbox \in Seq(Frames), FNext \/ UNCHANGED fvars
  PROVE  Turn
  <1>0. ses \in Session /\ faults \in Nat
    BY DEF DInv, WorkerOK, RestOK
  <1>1. CASE WorkerStep
    BY <1>1, SessionStepSound, SessionStepMoves DEF WorkerStep, Turn
  <1>2. CASE Dial
    <2>1. Connect
      BY <1>2 DEF Dial
    <2>2. HeardGrows /\ UNCHANGED faults
      BY <2>1, KeepHeard DEF Connect
    <2>3. SessionMove
      BY <1>0, <2>1 DEF Connect, SessionMove, Elsewhere, Driving, Session
    <2> QED BY <1>0, <2>1, <2>2, <2>3, ConnectSound, WorkerStepSound DEF Turn
  <1>3. CASE DialFails \/ Lost
    <2>1. Unreachable \/ ConnectionLost
      BY <1>3 DEF DialFails, Lost
    <2>2. HeardGrows /\ UNCHANGED faults
      BY <1>3, <2>1, KeepHeard DEF Unreachable, ConnectionLost, DialFails, Lost
    <2> QED BY <1>0, <2>1, <2>2, ConnectionLostSound, TroubleMoves, WorkerStepSound DEF Turn
  <1>4. CASE Deliver
    <2>1. Head(inbox) \in Frames /\ Receive(Head(inbox))
      BY <1>4 DEF Deliver
    <2> DEFINE m == Head(inbox)
    <2> HIDE DEF m
    <2>2. UNCHANGED faults
      BY <2>1 DEF Receive, OnHello, OnReport, OnAbortAck, OnPrepareReply, OnChunkReply,
             OnTransferResult, OnStageAck, OnApplyPrepareAck, OnVerdict, OnCommitAck, OnAck
    <2> QED
      BY <1>0, <2>1, <2>2, ReceiveHears, ReceiveSound, ReceiveMoves, WorkerStepSound DEF Turn
  <1>5. CASE Faulty
    BY <1>5, FaultSound, TroubleMoves DEF Faulty, Turn
  <1>6. CASE OtherThread
    <2>1. UNCHANGED ses
      BY <1>6 DEF OtherThread, LocalStep, LocalRead, LocalWrite, LocalRewrite, Operation, ControlStep,
             Submit, Retire, RequestVerification, SubmitList, SubmitRead, SubmitOlder,
             SubmitSupersede, SubmitSupersedeRewrite, SubmitHistory, SubmitRemove,
             SubmitTargetRead, SubmitTargetWrite, SubmitDelivery, RetireWrite, away
    <2> QED BY <1>6, <2>1, LocalSound, ControlSound DEF OtherThread, Turn
  <1>7. CASE RestartDistributor
    <2>1. SessionMove
      BY <1>7 DEF RestartDistributor, Restart, Idle, SessionMove, Elsewhere, Driving
    <2> QED BY <1>7, <2>1, RestartSound DEF RestartDistributor, Turn
  <1>8. CASE Handle
    <2>4. Dispatch
      BY <1>8 DEF Handle
    <2>5. faults' = faults \/ faults' = faults + 1
      BY <2>4 DEF Dispatch
    <2>1. faults' \in Nat
      BY <1>0, <2>5
    <2>2. UNCHANGED <<store, ses, held, others, heard, ops>>
      BY <1>8 DEF Handle
    <2>3. UNCHANGED <<rec, tgt, stored, listed, epoch, ses, held, loc, ctl, verify, heard, ops>>
      BY <2>2 DEF store, others
    <2> QED BY <2>1, <2>3, AgentTurn
  <1>9. CASE HandlerGoesOn \/ Drop \/ AgentCrash \/ AgentStarts \/ UNCHANGED fvars
    <2>1. UNCHANGED vars
      BY <1>9 DEF HandlerGoesOn, Drop, AgentCrash, AgentStarts, fvars
    <2> QED BY <2>1, StutterSound DEF Turn, vars
  <1> QED
    BY <1>1, <1>2, <1>3, <1>4, <1>5, <1>6, <1>7, <1>8, <1>9 DEF FNext, Worker, AgentSteps

\* A chunk at an offset outside the limit is refused, as some chunk inside it is.
LEMMA ChunkWithin ==
  ASSUME AgentOK, NEW d \in Deployments, NEW offset \in Nat, NEW good \in BOOLEAN,
         OnChunk(d, offset, good)
  PROVE  \E o \in 0 .. MaxArtifact : OnChunk(d, o, good)
  <1>1. MaxArtifact \in Nat \ {0} /\ d.size \in Nat
    BY BoundsAssumption, DeploymentFields
  <1>2. CASE offset <= MaxArtifact
    BY <1>1, <1>2
  <1>3. CASE offset > MaxArtifact
    <2>1. ChunkCode(d, offset) # "Ok"
      BY <1>1, <1>3 DEF ChunkCode, AgentOK
    <2>2. PICK o \in {0, 1} : o # xfer[d].bytes
      OBVIOUS
    <2>3. ChunkCode(d, o) # "Ok"
      BY <2>2 DEF ChunkCode
    <2>4. OnChunk(d, o, good)
      BY <2>1, <2>3 DEF OnChunk
    <2> QED BY <1>1, <2>4
  <1> QED BY <1>1, <1>2, <1>3

\* A request that is handled is one of those the agent answers, and says what it
\* is about.
LEMMA RequestFacts ==
  ASSUME RequestOK, req # NoReq
  PROVE  /\ req.kind \in {"Hello", "ReconcileRequest", "ApplyAbort"} \cup DriveKinds
         /\ req.offset \in Nat
         /\ req.kind \notin {"Hello", "ReconcileRequest"} =>
              /\ req.dep \in Deployments /\ Instruction \in Instructions
              /\ Instruction.dep = req.dep /\ Instruction.gen = req.dep.gen
  BY DEF RequestOK, Instruction, Instructions, Gens

\* Handling a request is what the agent does with some request of a peer.
LEMMA DispatchStep ==
  ASSUME AgentOK, RequestOK, req # NoReq, Dispatch
  PROVE  Request \/ UNCHANGED agentVars
  <1>1. CASE req.kind \in {"Hello", "ReconcileRequest"}
    BY <1>1 DEF Dispatch
  <1>2. CASE req.kind \notin {"Hello", "ReconcileRequest"}
    <2>1. req.dep \in Deployments /\ Instruction \in Instructions /\ req.offset \in Nat
      BY <1>2, RequestFacts
    <2>2. CASE req.kind # "Chunk"
      BY <1>2, <2>1, <2>2 DEF Dispatch, Request
    <2>3. CASE req.kind = "Chunk"
      <3>1. PICK good \in BOOLEAN : OnChunk(req.dep, req.offset, good)
        BY <2>3 DEF Dispatch
      <3> QED BY <2>1, <3>1, ChunkWithin DEF Request
    <2> QED BY <2>2, <2>3
  <1> QED BY <1>1, <1>2

\* Every step is one of the agent as it is specified alone, or leaves it alone.
LEMMA AgentPart ==
  ASSUME AgentOK, RequestOK, FNext \/ UNCHANGED fvars
  PROVE  [AgentNext]_agentVars
  <1>1. CASE Worker \/ Faulty \/ OtherThread \/ RestartDistributor \/ Drop \/ UNCHANGED fvars
    BY <1>1 DEF Worker, WorkerStep, Dial, DialFails, Deliver, Lost, Faulty, OtherThread,
                RestartDistributor, Drop, fvars, Wire
  <1>2. CASE Handle
    <2>1. Dispatch /\ req # NoReq
      BY <1>2 DEF Handle
    <2> QED BY <2>1, DispatchStep DEF AgentNext
  <1>3. CASE HandlerGoesOn \/ AgentStarts \/ AgentCrash
    BY <1>3 DEF HandlerGoesOn, AgentStarts, AgentCrash, AgentNext
  <1> QED BY <1>1, <1>2, <1>3 DEF FNext, AgentSteps

\* A transfer is opened only for an artifact within the limit.
LEMMA OpenedWithin ==
  ASSUME AgentTypeOK, AgentNext, NEW e \in Deployments, xfer'[e].open
  PROVE  xfer[e].open \/ e.size <= MaxArtifact
  <1>0. xfer \in [Deployments -> Transfer] /\ NoXfer.open = FALSE
    BY DEF AgentTypeOK, NoXfer
  <1>1. ASSUME NEW d \in Deployments, OnPrepare(d)
        PROVE  xfer[e].open \/ e.size <= MaxArtifact
    <2>1. CASE PrepareCode(d) = "Ok"
      <3>1. d.size <= MaxArtifact
        BY <2>1, DeploymentFields, BoundsAssumption DEF PrepareCode
      <3> QED BY <1>0, <1>1, <2>1, <3>1 DEF OnPrepare
    <2>2. CASE PrepareCode(d) # "Ok"
      BY <1>1, <2>2 DEF OnPrepare
    <2> QED BY <2>1, <2>2
  <1>2. ASSUME NEW d \in Deployments, DestroyTransfer(d) PROVE xfer[e].open
    BY <1>0, <1>2 DEF DestroyTransfer
  <1>3. ASSUME NEW d \in Deployments, OnTransferComplete(d) PROVE xfer[e].open
    <2>1. CASE DestroyTransfer(d)
      BY <1>2, <2>1
    <2>2. CASE ~DestroyTransfer(d)
      <3>1. \/ xfer' = [xfer EXCEPT ![d].verified = TRUE, ![d].saved = xfer[d].bytes]
            \/ UNCHANGED xfer
        BY <1>3, <2>2 DEF OnTransferComplete
      <3> QED BY <1>0, <3>1 DEF Transfer
    <2> QED BY <2>1, <2>2
  <1>4. ASSUME NEW d \in Deployments, NEW offset \in 0 .. MaxArtifact, NEW good \in BOOLEAN,
               OnChunk(d, offset, good)
        PROVE  xfer[e].open
    <2> DEFINE noted(n) == [xfer[d] EXCEPT !.bytes = offset + 1, !.saved = n]
    <2>1. (\E n : xfer' = [xfer EXCEPT ![d] = noted(n)]) \/ xfer' = xfer
      BY <1>4, Zenon DEF OnChunk
    <2>2. \A n : noted(n).open = xfer[d].open
      BY <1>0 DEF Transfer
    <2> HIDE DEF noted
    <2> QED BY <1>0, <2>1, <2>2
  <1>5. ASSUME NEW m \in Instructions, OnRetire(m) PROVE xfer[e].open
    BY <1>2, <1>5 DEF OnRetire, Instructions
  <1>6. CASE StageRecord
    <2>1. xfer' = [xfer EXCEPT ![job].staged = TRUE, ![job].saved = xfer[job].bytes]
      BY <1>6 DEF StageRecord
    <2> QED BY <1>0, <2>1 DEF Transfer
  <1>7. CASE Crash
    <2>1. xfer'[e] = [xfer[e] EXCEPT !.bytes = xfer[e].saved]
      BY <1>7 DEF Crash
    <2> QED BY <1>0, <2>1 DEF Transfer
  <1>8. CASE Open
    BY <1>0, <1>8 DEF Open, Supported
  <1>9. CASE UNCHANGED xfer
    BY <1>9
  <1>10. \/ \E d \in Deployments : \/ OnPrepare(d)
                                   \/ OnTransferComplete(d)
                                   \/ \E offset \in 0 .. MaxArtifact, good \in BOOLEAN :
                                        OnChunk(d, offset, good)
         \/ \E m \in Instructions : OnRetire(m)
         \/ StageRecord \/ Crash \/ Open
         \/ UNCHANGED xfer
    BY DEF AgentNext, Request, HandlerStep, RecoveryStep, OnStage, OnApplyPrepare, WindowRecord,
           OnApplyCommit, ActivateUnmark, CommitResolve, CommitRecord, CommitFinding,
           StageRename, PrunePayloads, OnApplyAbort, AbortNote, AbortResolve, RecoverKey,
           RecoverUnmark, RecoverResolve, RecoverCommit, RecoverNote, RecoverAbort, RecoverDone,
           journal
  <1> QED
    BY <1>1, <1>3, <1>4, <1>5, <1>6, <1>7, <1>8, <1>9, <1>10

\* The agent keeps its types, its limit and its term.
LEMMA AgentOKStep ==
  ASSUME AgentOK, [AgentNext]_agentVars
  PROVE  AgentOK'
  <1>1. AgentTypeOK'
    BY TypeStep DEF AgentOK
  <1>2. CASE AgentNext
    <2>1. \A d \in Deployments : xfer'[d].open => d.size <= MaxArtifact
      BY <1>2, OpenedWithin DEF AgentOK
    <2>2. Open \/ (UNCHANGED term /\ (pc' = "down" \/ pc # "down"))
      BY <1>2 DEF AgentNext, Request, HandlerStep, RecoveryStep, OnPrepare, OnChunk,
           OnTransferComplete, OnStage, StageRename, StageRecord, OnApplyPrepare, WindowRecord, OnApplyCommit,
           ActivateUnmark, CommitResolve, CommitRecord, CommitFinding, PrunePayloads,
           OnApplyAbort, AbortNote, AbortResolve, OnRetire, Crash, RecoverKey,
           RecoverUnmark, RecoverResolve, RecoverCommit, RecoverNote, RecoverAbort,
           RecoverDone, journal
    <2>3. Open => term' = term + 1 /\ term \in Nat
      BY DEF Open, AgentOK, AgentTypeOK
    <2>4. (pc # "down" => term # 0)'
      BY <2>2, <2>3 DEF AgentOK
    <2> QED BY <1>1, <2>1, <2>4 DEF AgentOK
  <1>3. CASE UNCHANGED agentVars
    BY <1>1, <1>3 DEF AgentOK, agentVars, journal, process
  <1> QED BY <1>2, <1>3

\* One frame, or two.
LEMMA ShortAnswer ==
  ASSUME NEW a \in Frames, NEW b \in Frames
  PROVE  <<a>> \in Seq(Frames) /\ <<a, b>> \in Seq(Frames)
  OBVIOUS

\* What the agent answers is what the decoders of the distributor let through.
LEMMA AnswerFrames ==
  ASSUME AgentOK, RequestOK, req # NoReq, pc = "serve"
  PROVE  Answer \in Seq(Frames)
  <1>1. /\ term \in Nat \ {0} /\ committed \in PairOfAny
        /\ \A d \in Deployments : PairOf(d) \in PairOfAny
    <2>1. Pointer \subseteq PairOfAny
      BY DEF Pointer, PairOfAny, Unset
    <2>2. committed \in PairOfAny
      BY <2>1 DEF AgentOK, AgentTypeOK
    <2>3. \A d \in Deployments : PairOf(d) \in PairOfAny
      BY DeploymentFields DEF PairOf, PairOfAny
    <2> QED BY <2>2, <2>3 DEF AgentOK, AgentTypeOK
  <1>2. CASE req.kind = "Hello"
    <2>1. [kind |-> "HelloAck", term |-> term, pair |-> committed] \in Frames
      BY <1>1 DEF Frames, HelloAcks
    <2> QED BY <1>2, <2>1 DEF Answer
  <1>3. CASE req.kind = "ReconcileRequest"
    <2>1. {[gen |-> e.gen, digest |-> e.digest] : e \in Entries} \in SUBSET PairOfAny
      <3>1. \A e \in Entries : e \in Finding
        BY DEF Entries, AgentOK, AgentTypeOK
      <3>2. \A e \in Entries : [gen |-> e.gen, digest |-> e.digest] \in PairOfAny
        BY <3>1 DEF Finding, PairOfAny
      <3> QED BY <3>2
    <2>2. prepared.dep \in Deployments \cup {NoDeployment}
      BY DEF AgentOK, AgentTypeOK, Window
    <2>3. Report \in Reports
      <3> DEFINE pairs == {[gen |-> e.gen, digest |-> e.digest] : e \in Entries}
      <3>1. Report = [kind |-> "Report", term |-> term, pair |-> committed, findings |-> pairs,
                      window |-> prepared.dep]
        BY DEF Report
      <3>2. pairs \in SUBSET PairOfAny
        BY <2>1
      <3> HIDE DEF pairs
      <3> QED BY <1>1, <2>2, <3>1, <3>2 DEF Reports
    <2>4. Report \in Frames
      BY <2>3 DEF Frames
    <2> QED BY <1>3, <2>4 DEF Answer
  <1>4. CASE req.kind = "ApplyAbort"
    <2>1. [kind |-> "AbortAck"] \in Frames
      BY DEF Frames, ApplyAnswers
    <2> QED BY <1>4, <2>1 DEF Answer
  <1>5. \A code : \A kind \in {"TransferResult", "StageAck", "ApplyPrepareAck"} : Verdict(kind, code) \in Frames
    BY DEF Verdict, Frames, TransferAnswers, ApplyAnswers
  <1>6. \A keyed, stale \in BOOLEAN : NackFrame(keyed, stale) \in Frames
    BY DEF NackFrame, Frames, Acknowledgements
  <1>7. \A d \in Deployments : AckFrame(d) \in Frames /\ KeylessAck(d) \in Frames
    BY <1>1 DEF AckFrame, KeylessAck, Frames, Acknowledgements
  <1>8. ASSUME req.kind \in DriveKinds PROVE req.dep \in Deployments /\ req.offset \in Nat
    BY <1>8, RequestFacts DEF DriveKinds
  <1>9. CASE req.kind = "Prepare"
    <2>1. req.dep \in Deployments /\ req.dep.size \in Nat
      BY <1>8, <1>9, DeploymentFields DEF DriveKinds
    <2>2. ResumeFrom(req.dep) \in Nat
      BY <2>1 DEF ResumeFrom, AgentOK, AgentTypeOK, Transfer, StagingFile
    <2>3. PrepareAnswer(req.dep) \in PrepareAnswers
      BY <2>1, <2>2 DEF PrepareAnswer, PrepareAnswers
    <2>4. PrepareAnswer(req.dep) \in Frames
      BY <2>3 DEF Frames
    <2> QED BY <1>9, <2>4 DEF Answer
  <1>10. CASE req.kind = "Chunk"
    <2>1. req.dep \in Deployments /\ req.offset \in Nat /\ xfer[req.dep].bytes \in Nat
      BY <1>8, <1>10 DEF DriveKinds, AgentOK, AgentTypeOK, Transfer
    <2>2. ChunkAnswer(req.dep, req.offset) \in TransferAnswers
      BY <2>1 DEF ChunkAnswer, TransferAnswers
    <2>3. ChunkAnswer(req.dep, req.offset) \in Frames
      BY <2>2 DEF Frames
    <2> QED BY <1>10, <2>3 DEF Answer
  <1>11. CASE req.kind = "TransferComplete"
    <2>1. CompleteAnswer(req.dep) \in Seq(Frames)
      BY <1>5, <1>6, ShortAnswer DEF CompleteAnswer
    <2> QED BY <1>11, <2>1 DEF Answer
  <1>12. CASE req.kind \in {"Stage", "ApplyPrepare"}
    BY <1>5, <1>12 DEF Answer
  <1>13. CASE req.kind = "ApplyCommit"
    <2>1. req.dep \in Deployments /\ Instruction.dep = req.dep
      BY <1>8, <1>13 DEF DriveKinds, Instruction
    <2> DEFINE staged == xfer[req.dep].open /\ xfer[req.dep].staged
               answer(ok, pair) == [kind |-> "ApplyCommitAck", ok |-> ok, pair |-> pair]
    <2>2. \A ok \in BOOLEAN, pair \in PairOfAny : answer(ok, pair) \in Frames
      BY DEF Frames, ApplyAnswers
    <2>3. staged \in BOOLEAN
      BY <2>1 DEF AgentOK, AgentTypeOK, Transfer
    <2>4. CommitAnswer(Instruction) =
            CASE CommitCode(Instruction) = "Ok" -> <<answer(TRUE, PairOf(req.dep)), AckFrame(req.dep)>>
              [] CommitCode(Instruction) = "DuplicateSuppressed" ->
                   <<answer(TRUE, committed), KeylessAck(req.dep)>>
              [] CommitCode(Instruction) = "StaleGeneration" ->
                   <<answer(FALSE, committed), NackFrame(FALSE, TRUE)>>
              [] CommitCode(Instruction) = "GenerationConflict" ->
                   <<answer(FALSE, committed), NackFrame(FALSE, FALSE)>>
              [] OTHER -> <<answer(FALSE, committed), NackFrame(staged, FALSE)>>
      BY <2>1 DEF CommitAnswer
    <2> HIDE DEF answer, staged
    <2>5. CommitAnswer(Instruction) \in Seq(Frames)
      BY <1>1, <1>6, <1>7, <2>1, <2>2, <2>3, <2>4, ShortAnswer
    <2> QED BY <1>13, <2>5 DEF Answer
  <1> QED
    BY <1>2, <1>3, <1>4, <1>9, <1>10, <1>11, <1>12, <1>13, RequestFacts DEF DriveKinds

\* A step of the session keeps the abort named.
LEMMA AbortNamedStep ==
  ASSUME AbortNamed, SessionMove \/ UNCHANGED ses
  PROVE  AbortNamed'
  BY DEF AbortNamed, SessionMove, Elsewhere, Driving

\* What the distributor asks for is a request.
LEMMA AskOK ==
  ASSUME DInv', AbortNamed', ses'.pc \in Receiving \ {"ack"}, req' = Ask(ses')
  PROVE  /\ RequestOK'
         /\ req'.kind \in DriveKinds <=> ses'.pc \in Driving
         /\ req'.kind \in DriveKinds => req'.dep = ses'.cur
  <1>1. /\ ses' \in Session /\ ses'.offset \in Nat /\ ses'.cur \in MaybeDeployment
        /\ ses'.pc \notin {"helloAck", "report"} => ses'.cur \in Deployments
    <2>1. ses' \in Session /\ WorkerControl'
      BY DEF DInv, WorkerOK
    <2>2. ses'.offset \in Nat /\ ses'.cur \in MaybeDeployment
      BY <2>1 DEF Session
    <2>3. ses'.pc \notin {"helloAck", "report"} => ses'.pc \in AtWork
      BY DEF AtWork
    <2> QED BY <2>1, <2>2, <2>3 DEF WorkerControl
  <1>2. ses'.pc = "abortAck" => ses'.report.window \in Deployments
    BY DEF AbortNamed
  <1>3. /\ req'.kind \in {"Hello", "ReconcileRequest", "ApplyAbort"} \cup DriveKinds
        /\ req'.offset = ses'.offset
        /\ req'.dep = IF ses'.pc = "abortAck" THEN ses'.report.window ELSE ses'.cur
        /\ req'.kind \in DriveKinds <=> ses'.pc \in Driving
        /\ req'.kind \in {"Hello", "ReconcileRequest"} <=> ses'.pc \in {"helloAck", "report"}
        /\ req' = [kind |-> req'.kind, dep |-> req'.dep, offset |-> req'.offset]
    BY DEF Ask, Receiving, DriveKinds, Driving
  <1>4. req'.dep \in MaybeDeployment
    BY <1>1, <1>2, <1>3 DEF MaybeDeployment
  <1>5. req' \in [kind : {"Hello", "ReconcileRequest", "ApplyAbort"} \cup DriveKinds,
                  dep : MaybeDeployment, offset : Nat]
    BY <1>1, <1>3, <1>4
  <1>6. req'.kind \notin {"Hello", "ReconcileRequest"} => req'.dep \in Deployments
    BY <1>1, <1>2, <1>3
  <1>7. req'.kind \in DriveKinds => req'.dep = ses'.cur
    BY <1>3 DEF Driving
  <1> QED
    BY <1>3, <1>5, <1>6, <1>7 DEF RequestOK

\* What a step does to the wire.
WireMove ==
  /\ link' \in {link, "none", "open", "broken"}
  /\ \/ UNCHANGED req
     \/ req' = NoReq
     \/ ses'.pc \in Receiving \ {"ack"} /\ req' = Ask(ses')
  /\ \/ inbox' = inbox
     \/ inbox' = <<>>
     \/ inbox # <<>> /\ inbox' = Tail(inbox)
     \/ inbox' = inbox \o out
     \/ Handle /\ inbox' = inbox \o Answer
  /\ out' = out \/ out' = <<>> \/ (Handle /\ out' = Answer)

\* Every step of the system moves the wire like that.
LEMMA EveryWire ==
  ASSUME ses \in Session, FNext \/ UNCHANGED fvars
  PROVE  WireMove
  <1>1. ASSUME NEW rest, Wire(rest), rest = inbox \/ (inbox # <<>> /\ rest = Tail(inbox))
        PROVE  WireMove
    BY <1>1 DEF Wire, WireMove, Asks
  <1>2. CASE WorkerStep \/ DialFails \/ Deliver \/ Lost \/ Faulty \/ RestartDistributor
    BY <1>1, <1>2 DEF WorkerStep, DialFails, Deliver, Lost, Faulty, RestartDistributor
  <1>3. CASE Dial
    <2>1. ses'.pc = "helloAck"
      BY <1>3 DEF Dial, Connect, Session
    <2> QED BY <1>3, <2>1 DEF Dial, WireMove, Receiving
  <1>4. CASE OtherThread \/ AgentStarts \/ UNCHANGED fvars
    BY <1>4 DEF OtherThread, AgentStarts, fvars, wire, WireMove
  <1>5. CASE Drop
    BY <1>5 DEF Drop, WireMove
  <1>6. CASE AgentCrash
    BY <1>6 DEF AgentCrash, WireMove
  <1>7. CASE HandlerGoesOn
    BY <1>7 DEF HandlerGoesOn, Answered, WireMove
  <1>8. CASE Handle
    <2>1. UNCHANGED link /\ req' = NoReq
      BY <1>8 DEF Handle
    <2>2. \/ inbox' = Answered(Answer) /\ UNCHANGED out
          \/ out' = Answer /\ UNCHANGED inbox
      BY <1>8 DEF Handle
    <2> QED BY <1>8, <2>1, <2>2 DEF Answered, WireMove
  <1> QED
    BY <1>2, <1>3, <1>4, <1>5, <1>6, <1>7, <1>8 DEF FNext, Worker, AgentSteps

\* The deployments that have been live only grow, by those that the pointer names.
LEMMA EveryLive ==
  ASSUME FNext \/ UNCHANGED fvars
  PROVE  Live \/ (UNCHANGED live /\ (UNCHANGED agentVars \/ Crash))
  <1>1. ASSUME NEW rest, Wire(rest) PROVE UNCHANGED <<agentVars, live>>
    BY <1>1 DEF Wire
  <1>2. CASE Worker \/ Faulty \/ RestartDistributor
    BY <1>1, <1>2 DEF Worker, WorkerStep, Dial, DialFails, Deliver, Lost, Faulty, RestartDistributor
  <1>3. CASE OtherThread \/ Drop \/ AgentCrash \/ UNCHANGED fvars
    BY <1>3 DEF OtherThread, Drop, AgentCrash, fvars
  <1>4. CASE AgentSteps
    <2>1. Handle => Live
      BY DEF Handle
    <2>2. HandlerGoesOn \/ AgentStarts => Live
      BY DEF HandlerGoesOn, AgentStarts
    <2> QED BY <1>4, <2>1, <2>2 DEF AgentSteps
  <1> QED BY <1>2, <1>3, <1>4 DEF FNext

\* Every step keeps the shape of the whole.
LEMMA BaseStep ==
  ASSUME BaseInv, FNext \/ UNCHANGED fvars
  PROVE  BaseInv' /\ Turn /\ [AgentNext]_agentVars /\ WireMove
  <1>1. Turn
    BY EveryTurn DEF BaseInv, WireOK
  <1>2. DInv' /\ AbortNamed'
    BY <1>1, AbortNamedStep DEF Turn, StepSound, BaseInv
  <1>3. [AgentNext]_agentVars /\ AgentOK'
    BY AgentPart, AgentOKStep DEF BaseInv, WireOK
  <1>4. WireMove
    BY EveryWire DEF BaseInv, DInv, WorkerOK
  <1>5. WireOK'
    <2>1. link' \in {"none", "open", "broken"}
      BY <1>4 DEF WireMove, BaseInv, WireOK
    <2>2. RequestOK'
      <3>1. CASE UNCHANGED req \/ req' = NoReq
        BY <3>1 DEF BaseInv, WireOK, RequestOK
      <3>2. CASE ses'.pc \in Receiving \ {"ack"} /\ req' = Ask(ses')
        BY <1>2, <3>2, AskOK
      <3> QED BY <1>4, <3>1, <3>2 DEF WireMove
    <2>3. Handle => Answer \in Seq(Frames)
      <3>1. Handle => pc = "serve" /\ req # NoReq
        BY DEF Handle
      <3> QED BY <3>1, AnswerFrames DEF BaseInv, WireOK
    <2>4. inbox \in Seq(Frames) /\ out \in Seq(Frames)
      BY DEF BaseInv, WireOK
    <2>5. \A s, t \in Seq(Frames) : s \o t \in Seq(Frames) /\ (s # <<>> => Tail(s) \in Seq(Frames))
      OBVIOUS
    <2>6. <<>> \in Seq(Frames)
      OBVIOUS
    <2>7. inbox' \in Seq(Frames)
      BY <1>4, <2>3, <2>4, <2>5, <2>6, Zenon DEF WireMove
    <2>8. out' \in Seq(Frames)
      BY <1>4, <2>3, <2>4, <2>6, Zenon DEF WireMove
    <2> QED BY <2>1, <2>2, <2>7, <2>8 DEF WireOK
  <1>6. live' \subseteq Deployments
    BY EveryLive DEF Live, BaseInv
  <1> QED
    BY <1>1, <1>2, <1>3, <1>4, <1>5, <1>6 DEF BaseInv

\* The agent that runs what is installed.
LEMMA RunningOK ==
  ASSUME Installed \in Deployments, Running
  PROVE  AgentOK
  <1>1. /\ Installed.key \in Keys /\ Installed.gen \in Nat \ {0} /\ Installed.digest \in Digests
        /\ Installed.size \in Nat
    BY DeploymentFields
  <1>2. PairOf(Installed) \in Pointer /\ Unset \in Pointer
    BY <1>1 DEF PairOf, Pointer
  <1>3. committed \in Pointer /\ current \in [Keys -> Pointer]
    BY <1>2 DEF Running
  <1>4. xfer \in [Deployments -> Transfer]
    BY <1>1, NoneTypes DEF Running, Transfer
  <1>5. staging \in [Deployments -> StagingFile]
    BY <1>1, NoneTypes DEF Running, StagingFile
  <1>6. findings \in Seq(Finding)
    BY <1>1 DEF Running, Finding
  <1>7. payload \in [Keys -> SUBSET PayloadFile]
    BY <1>1 DEF Running, PayloadFile
  <1>8. /\ term = 1 /\ prepared \in Window /\ applyRollbacks = 0 /\ pending \in [Keys -> BOOLEAN]
        /\ pc = "serve" /\ job = NoDeployment /\ scan = {} /\ dir = NoKey /\ chunkCounter = 0
        /\ acked = {}
    BY NoneTypes DEF Running
  <1>9. AgentTypeOK
    BY <1>3, <1>4, <1>5, <1>6, <1>7, <1>8 DEF AgentTypeOK, Steps, HandlerSteps
  <1>10. ASSUME NEW d \in Deployments, xfer[d].open PROVE d.size <= MaxArtifact
    <2>1. d = Installed
      BY <1>10 DEF Running, NoXfer
    <2> QED BY <2>1, InstalledAssumption
  <1> QED BY <1>8, <1>9, <1>10 DEF AgentOK

\* The start of both.
LEMMA BaseInit == FInit => BaseInv
  <1> SUFFICES ASSUME FInit PROVE BaseInv
    OBVIOUS
  <1>1. DInv /\ AbortNamed
    BY InitSound DEF FInit, Init, Idle, AbortNamed
  <1>2. AgentOK
    <2>1. CASE Installed = NoDeployment
      <3>1. AgentInit
        BY <2>1 DEF FInit
      <3> QED BY <3>1, TypeInit DEF AgentInit, AgentOK, NoXfer
    <2>2. CASE Installed # NoDeployment
      BY <2>2, RunningOK, DistributorAssumption DEF FInit
    <2> QED BY <2>1, <2>2
  <1>3. WireOK /\ live \subseteq Deployments
    BY DEF FInit, WireOK, RequestOK
  <1> QED BY <1>1, <1>2, <1>3 DEF BaseInv

\* The distributor and the agent keep their own invariants when they talk to each
\* other, and the decoders of the one accept what the other sends.
THEOREM FabricInvariant == FSpec => []BaseInv
  <1>1. BaseInv /\ [FNext]_fvars => BaseInv'
    BY BaseStep
  <1> QED
    BY <1>1, BaseInit, PTL DEF FSpec

\* The agent of the composition does what the agent alone may do, so what is
\* shown of it for any peer holds here: no handler depends on what this
\* distributor sends, and an agent that was installed afresh implements AgentSpec.
THEOREM AgentRefined == FSpec => [][AgentNext]_agentVars
  <1>1. BaseInv /\ [FNext]_fvars => [AgentNext]_agentVars
    BY BaseStep
  <1> QED
    BY <1>1, FabricInvariant, PTL DEF FSpec

\* From an agent that was installed afresh, the whole specification.
THEOREM AgentImplemented ==
  ASSUME Installed = NoDeployment
  PROVE  FSpec => AgentSpec
  <1>1. FInit => AgentInit
    BY DEF FInit
  <1> QED
    BY <1>1, AgentRefined, PTL DEF FSpec, AgentSpec

\* With this agent as its peer, the desired generation of a lineage never goes back.
THEOREM FabricDesired == FSpec => DesiredStays
  <1>1. BaseInv /\ [FNext]_fvars =>
          [\A d \in Known(rec) :
             \E e \in SameLineage(d) : rec'[e].state # "None" /\ e.gen >= d.gen]_vars
    BY BaseStep DEF Turn, StepSound, Desired
  <1> QED
    BY <1>1, FabricInvariant, PTL DEF FSpec, DesiredStays

-----------------------------------------------------------------------------
(* What is claimed was live.                                               *)

\* A commit under way has switched the pointer.
LEMMA CommittingMoves ==
  ASSUME AgentTypeOK, AgentNext, pc' \in Committing
  PROVE  \/ pc \in Committing /\ job' = job
         \/ job' \in Deployments /\ current'[job'.key] = Ptr(job')
  <1>1. CASE \E m \in Instructions : OnApplyCommit(m)
    <2>1. PICK m \in Instructions : OnApplyCommit(m)
      BY <1>1
    <2>2. CASE CommitCode(m) = "Ok"
      <3>1. m.dep \in Deployments /\ m.dep.key \in Keys /\ current \in [Keys -> Pointer]
        BY DeploymentFields DEF Instructions, AgentTypeOK
      <3> QED BY <2>1, <2>2, <3>1 DEF OnApplyCommit
    <2>3. CASE CommitCode(m) # "Ok"
      BY <2>1, <2>3 DEF OnApplyCommit, Committing
    <2> QED BY <2>2, <2>3
  <1>2. CASE ~\E m \in Instructions : OnApplyCommit(m)
    BY <1>2 DEF AgentNext, Request, HandlerStep, RecoveryStep, OnPrepare, OnChunk, Committing,
           OnTransferComplete, OnStage, StageRename, StageRecord, OnApplyPrepare, WindowRecord,
           ActivateUnmark, CommitResolve, CommitRecord, CommitFinding, PrunePayloads,
           OnApplyAbort, AbortNote, AbortResolve, OnRetire, Crash, Open, RecoverKey,
           RecoverUnmark, RecoverResolve, RecoverCommit, RecoverNote, RecoverAbort, RecoverDone
  <1> QED BY <1>1, <1>2

\* The committed pair is recorded by a commit, or taken from a pointer.
LEMMA CommittedMoves ==
  ASSUME AgentTypeOK, AgentNext
  PROVE  \/ UNCHANGED committed
         \/ pc = "commit" /\ committed' = Ptr(job)
         \/ committed' = Unset
         \/ \E k \in Keys : committed' = current[k]
  <1>1. UNCHANGED committed \/ CommitRecord \/ RecoverCommit
    BY DEF AgentNext, Request, HandlerStep, RecoveryStep, OnPrepare, OnChunk,
           OnTransferComplete, OnStage, StageRename, StageRecord, OnApplyPrepare, WindowRecord, OnApplyCommit,
           ActivateUnmark, CommitResolve, CommitFinding, PrunePayloads,
           OnApplyAbort, AbortNote, AbortResolve, OnRetire, Crash, Open, RecoverKey,
           RecoverUnmark, RecoverResolve, RecoverNote, RecoverAbort, RecoverDone, journal
  <1>2. RecoverCommit => dir \in Keys
    BY DEF RecoverCommit, AgentTypeOK
  <1> QED BY <1>1, <1>2 DEF CommitRecord, RecoverCommit

\* A finding is entered by the commit it is about.
LEMMA EntriesMove ==
  ASSUME AgentTypeOK, AgentNext, NEW e \in Entries'
  PROVE  \/ e \in Entries
         \/ pc = "finding" /\ e = [key |-> job.key, gen |-> job.gen, digest |-> job.digest]
  <1>1. CASE UNCHANGED findings
    BY <1>1 DEF Entries
  <1>2. CASE CommitFinding
    <2> DEFINE new == [key |-> job.key, gen |-> job.gen, digest |-> job.digest]
    <2>1. pc = "finding" /\ job \in Deployments /\ findings \in Seq(Finding)
          /\ findings' = FindingUpsert(findings, new)
      BY <1>2 DEF CommitFinding, AgentTypeOK, HandlerSteps
    <2>2. new \in Finding
      BY <2>1, DeploymentFields DEF Finding
    <2>3. e \in {FindingUpsert(findings, new)[i] : i \in 1 .. Len(FindingUpsert(findings, new))}
      BY <2>1 DEF Entries
    <2> HIDE DEF new
    <2>4. e = new \/ e \in {findings[i] : i \in 1 .. Len(findings)}
      BY <2>1, <2>2, <2>3, UpsertEntries
    <2> QED BY <2>1, <2>4 DEF Entries, new
  <1>3. UNCHANGED findings \/ CommitFinding
    BY DEF AgentNext, Request, HandlerStep, RecoveryStep, OnPrepare, OnChunk,
           OnTransferComplete, OnStage, StageRename, StageRecord, OnApplyPrepare, WindowRecord, OnApplyCommit,
           ActivateUnmark, CommitResolve, CommitRecord, PrunePayloads,
           OnApplyAbort, AbortNote, AbortResolve, OnRetire, Crash, Open, RecoverKey,
           RecoverUnmark, RecoverResolve, RecoverCommit, RecoverNote, RecoverAbort,
           RecoverDone, journal
  <1> QED BY <1>1, <1>2, <1>3

\* The pair of a deployment is never the unset one, and names its pointer.
LEMMA PairFacts ==
  /\ \A d \in Deployments : PairOf(d) = Ptr(d) /\ PairOf(d).gen = d.gen /\ PairOf(d) # Unset
  /\ \A S : Within(S, Unset)
  <1>1. \A d \in Deployments : PairOf(d) = Ptr(d) /\ PairOf(d).gen = d.gen /\ PairOf(d) # Unset
    BY DeploymentFields DEF PairOf, Ptr, Unset
  <1> QED BY <1>1 DEF Within

\* With one key, what the pointer names after a step has been live.
LEMMA PointerNoted ==
  ASSUME OneKey, AgentTypeOK, LiveKnown, FNext \/ UNCHANGED fvars, NEW k \in Keys
  PROVE  live \subseteq live' /\ Within(live', current'[k])
  <1>1. CASE Live
    <2>1. \A d \in Deployments : d.key = k
      BY DeploymentFields DEF OneKey
    <2> QED BY <1>1, <2>1 DEF Live, Within
  <1>2. CASE UNCHANGED live /\ (UNCHANGED agentVars \/ Crash)
    <2>1. UNCHANGED current
      BY <1>2 DEF agentVars, files, Crash
    <2> QED BY <1>2, <2>1 DEF LiveKnown
  <1> QED BY <1>1, <1>2, EveryLive

\* The records of the agent keep naming what has been live.
LEMMA LiveKnownStep ==
  ASSUME OneKey, AgentTypeOK, AgentTypeOK', LiveKnown, FNext \/ UNCHANGED fvars, [AgentNext]_agentVars
  PROVE  LiveKnown'
  <1>1. \A k \in Keys : live \subseteq live' /\ Within(live', current'[k])
    BY PointerNoted
  <1>2. live \subseteq live'
    BY EveryLive DEF Live
  <1>3. \A p : Within(live, p) => Within(live', p)
    BY <1>2 DEF Within
  <1>4. CASE AgentNext
    <2>1. Within(live', committed')
      BY <1>3, <1>4, CommittedMoves, PairFacts DEF LiveKnown, Committing, AgentTypeOK, HandlerSteps
    <2>2. ASSUME NEW e \in Entries' PROVE Within(live', [gen |-> e.gen, digest |-> e.digest])
      <3>1. CASE e \in Entries
        BY <1>3, <3>1 DEF LiveKnown
      <3>2. CASE pc = "finding" /\ e = [key |-> job.key, gen |-> job.gen, digest |-> job.digest]
        BY <1>3, <3>2 DEF LiveKnown, Committing, PairOf
      <3> QED BY <1>4, <3>1, <3>2, EntriesMove
    <2>3. ASSUME pc' \in Committing PROVE Within(live', PairOf(job'))
      <3>1. CASE pc \in Committing /\ job' = job
        BY <1>3, <3>1 DEF LiveKnown
      <3>2. CASE job' \in Deployments /\ current'[job'.key] = Ptr(job')
        BY <1>1, <3>2, PairFacts, DeploymentFields
      <3> QED BY <1>4, <2>3, <3>1, <3>2, CommittingMoves
    <2> QED BY <1>1, <2>1, <2>2, <2>3 DEF LiveKnown
  <1>5. CASE UNCHANGED agentVars
    <2>1. UNCHANGED <<committed, findings, pc, job>> /\ Entries' = Entries
      BY <1>5 DEF agentVars, journal, process, Entries
    <2> QED BY <1>1, <1>3, <2>1 DEF LiveKnown
  <1> QED BY <1>4, <1>5

\* An answer of one frame, or of two.
LEMMA HonestFrames ==
  ASSUME NEW S, NEW a, NEW b
  PROVE  /\ Claims(a) \subseteq S => Honest(S, <<a>>)
         /\ Claims(a) \subseteq S /\ Claims(b) \subseteq S => Honest(S, <<a, b>>)
  <1>1. ASSUME Claims(a) \subseteq S, NEW i \in 1 .. Len(<<a>>) PROVE Claims(<<a>>[i]) \subseteq S
    <2>1. i = 1
      OBVIOUS
    <2> QED BY <1>1, <2>1
  <1>2. ASSUME Claims(a) \subseteq S, Claims(b) \subseteq S, NEW i \in 1 .. Len(<<a, b>>)
        PROVE  Claims(<<a, b>>[i]) \subseteq S
    <2>1. i = 1 \/ i = 2
      OBVIOUS
    <2>2. CASE i = 1
      BY <1>2, <2>2
    <2>3. CASE i = 2
      BY <1>2, <2>3
    <2> QED BY <2>1, <2>2, <2>3
  <1> QED BY <1>1, <1>2 DEF Honest

\* A commit that is answered as done: the pair in the answer and the deployment in
\* the acknowledgement have been live.
LEMMA CommitHonest ==
  ASSUME OneKey, BaseInv, LiveKnown, Handle, req.kind = "ApplyCommit"
  PROVE  Honest(live', CommitAnswer(Instruction))
  <1> DEFINE d == req.dep
             staged == xfer[d].open /\ xfer[d].staged
             answer(ok, pair) == [kind |-> "ApplyCommitAck", ok |-> ok, pair |-> pair]
             code == CommitCode(Instruction)
  <1>1. /\ d \in Deployments /\ d.key \in Keys /\ d.gen \in Nat \ {0} /\ d.digest \in Digests
        /\ Instruction \in Instructions /\ Instruction.dep = d /\ Instruction.gen = d.gen
    BY RequestFacts, DeploymentFields DEF Handle, BaseInv, WireOK
  <1>2. Dispatch /\ pc = "serve"
    BY DEF Handle
  <1>3. OnApplyCommit(Instruction)
    BY <1>2 DEF Dispatch
  <1>4. FNext
    BY DEF FNext, AgentSteps
  <1>5. live \subseteq live' /\ \A k \in Keys : Within(live', current'[k])
    BY <1>1, <1>4, PointerNoted DEF BaseInv, AgentOK
  <1>6. /\ \A pair : Within(live', pair) => Claims(answer(TRUE, pair)) \subseteq live'
        /\ \A pair : Claims(answer(FALSE, pair)) \subseteq live'
        /\ d \in live' => Claims(AckFrame(d)) \subseteq live' /\ Claims(KeylessAck(d)) \subseteq live'
        /\ \A keyed, stale : Claims(NackFrame(keyed, stale)) \subseteq live'
    BY DEF Claims, Within, AckFrame, KeylessAck, NackFrame
  <1>7. CommitAnswer(Instruction) =
            CASE code = "Ok" -> <<answer(TRUE, PairOf(d)), AckFrame(d)>>
              [] code = "DuplicateSuppressed" -> <<answer(TRUE, committed), KeylessAck(d)>>
              [] code = "StaleGeneration" -> <<answer(FALSE, committed), NackFrame(FALSE, TRUE)>>
              [] code = "GenerationConflict" -> <<answer(FALSE, committed), NackFrame(FALSE, FALSE)>>
              [] OTHER -> <<answer(FALSE, committed), NackFrame(staged, FALSE)>>
    BY <1>1 DEF CommitAnswer
  <1>8. ASSUME code = "Ok" PROVE Within(live', PairOf(d)) /\ d \in live'
    <2>1. current'[d.key] = Ptr(d)
      BY <1>1, <1>3, <1>8 DEF OnApplyCommit, BaseInv, AgentOK, AgentTypeOK
    <2> QED BY <1>1, <1>5, <2>1, PairFacts DEF Within
  <1>9. Within(live', committed)
    BY <1>5 DEF Within, LiveKnown
  <1>10. ASSUME code = "DuplicateSuppressed" PROVE d \in live'
    <2>1. CASE IsCommitted(d.gen, d.digest)
      <3>1. committed = PairOf(d)
        BY <1>1, <2>1 DEF IsCommitted, IsSet, BaseInv, AgentOK, AgentTypeOK, Pointer, PairOf, Unset
      <3> QED BY <1>1, <1>9, <3>1 DEF Within
    <2>2. CASE ~IsCommitted(d.gen, d.digest)
      <3>1. \E e \in Entries : e.gen = d.gen /\ e.digest = d.digest
        BY <1>1, <1>10, <2>2 DEF CommitCode
      <3>2. Within(live, PairOf(d))
        BY <3>1 DEF LiveKnown, PairOf
      <3> QED BY <1>1, <1>5, <3>2 DEF Within
    <2> QED BY <2>1, <2>2
  <1> HIDE DEF answer, staged, d, code
  <1> QED
    BY <1>6, <1>7, <1>8, <1>9, <1>10, HonestFrames

\* Every answer claims only what has been live.
LEMMA AnswerHonest ==
  ASSUME OneKey, BaseInv, LiveKnown, Handle
  PROVE  Honest(live', Answer)
  <1>1. /\ req.kind \in {"Hello", "ReconcileRequest", "ApplyAbort"} \cup DriveKinds
        /\ req.kind \in DriveKinds => req.dep \in Deployments
    BY RequestFacts DEF Handle, BaseInv, WireOK, DriveKinds
  <1>2. live \subseteq live'
    BY EveryLive DEF Live, FNext, AgentSteps
  <1>3. CASE req.kind = "Hello"
    <2>1. Claims([kind |-> "HelloAck", term |-> term, pair |-> committed]) \subseteq live'
      BY DEF Claims
    <2> QED BY <1>3, <2>1, HonestFrames DEF Answer
  <1>4. CASE req.kind = "ReconcileRequest"
    <2>1. Claims(Report) \subseteq live
      BY DEF Claims, Report, LiveKnown, Within
    <2> QED BY <1>2, <1>4, <2>1, HonestFrames DEF Answer
  <1>5. CASE req.kind = "ApplyAbort"
    <2>1. Claims([kind |-> "AbortAck"]) \subseteq live'
      BY DEF Claims
    <2> QED BY <1>5, <2>1, HonestFrames DEF Answer
  <1>6. CASE req.kind = "Prepare"
    <2>1. req.dep \in Deployments
      BY <1>1, <1>6 DEF DriveKinds
    <2>2. CASE PrepareCode(req.dep) = "DuplicateSuppressed"
      <3>1. [key |-> req.dep.key, gen |-> req.dep.gen, digest |-> req.dep.digest] \in Entries
        BY <2>2 DEF PrepareCode
      <3>2. Within(live, PairOf(req.dep))
        BY <3>1 DEF LiveKnown, PairOf
      <3>3. PrepareAnswer(req.dep) = [kind |-> "PrepareAck", dep |-> req.dep, duplicate |-> TRUE,
                                      bytes |-> req.dep.size]
        BY <2>2 DEF PrepareAnswer
      <3>4. Claims(PrepareAnswer(req.dep)) \subseteq live'
        BY <1>2, <2>1, <3>2, <3>3 DEF Claims, Within
      <3> QED BY <1>6, <3>4, HonestFrames DEF Answer
    <2>3. CASE PrepareCode(req.dep) # "DuplicateSuppressed"
      <3>1. \/ /\ PrepareAnswer(req.dep).kind = "PrepareAck"
               /\ ~PrepareAnswer(req.dep).duplicate
            \/ PrepareAnswer(req.dep).kind = "PrepareReject"
        BY <2>3 DEF PrepareAnswer
      <3>2. Claims(PrepareAnswer(req.dep)) \subseteq live'
        BY <3>1 DEF Claims
      <3> QED BY <1>6, <3>2, HonestFrames DEF Answer
    <2> QED BY <2>2, <2>3
  <1>7. CASE req.kind = "Chunk"
    <2>1. Claims(ChunkAnswer(req.dep, req.offset)) \subseteq live'
      BY DEF Claims, ChunkAnswer
    <2> QED BY <1>7, <2>1, HonestFrames DEF Answer
  <1>8. \A code : \A kind \in {"TransferResult", "StageAck", "ApplyPrepareAck"} :
          Claims(Verdict(kind, code)) \subseteq live'
    BY DEF Claims, Verdict
  <1>9. CASE req.kind = "TransferComplete"
    <2>1. Claims(NackFrame(TRUE, FALSE)) \subseteq live'
      BY DEF Claims, NackFrame
    <2>2. Honest(live', CompleteAnswer(req.dep))
      BY <1>8, <2>1, HonestFrames DEF CompleteAnswer
    <2> QED BY <1>9, <2>2 DEF Answer
  <1>10. CASE req.kind = "Stage"
    BY <1>8, <1>10, HonestFrames DEF Answer
  <1>11. CASE req.kind = "ApplyPrepare"
    BY <1>8, <1>11, HonestFrames DEF Answer
  <1>12. CASE req.kind = "ApplyCommit"
    BY <1>12, CommitHonest DEF Answer
  <1> QED
    BY <1>1, <1>3, <1>4, <1>5, <1>6, <1>7, <1>9, <1>10, <1>11, <1>12 DEF DriveKinds

\* Frames that are passed on, read or put behind each other stay honest.
LEMMA HonestWire ==
  ASSUME NEW S, NEW T, S \subseteq T, NEW s \in Seq(Frames), Honest(S, s)
  PROVE  /\ Honest(T, s) /\ Honest(T, <<>>)
         /\ s # <<>> => Honest(T, Tail(s)) /\ Claims(Head(s)) \subseteq T
         /\ \A t \in Seq(Frames) : Honest(T, t) => Honest(T, s \o t)
  <1>1. Honest(T, s) /\ Honest(T, <<>>)
    BY DEF Honest
  <1>2. ASSUME s # <<>> PROVE Honest(T, Tail(s)) /\ Claims(Head(s)) \subseteq T
    <2>1. Len(s) \in Nat \ {0} /\ Head(s) = s[1]
      BY <1>2
    <2>2. Len(Tail(s)) = Len(s) - 1 /\ \A i \in 1 .. Len(s) - 1 : Tail(s)[i] = s[i + 1]
      BY <1>2
    <2> QED BY <1>1, <2>1, <2>2 DEF Honest
  <1>3. ASSUME NEW t \in Seq(Frames), Honest(T, t) PROVE Honest(T, s \o t)
    <2>1. Len(s \o t) = Len(s) + Len(t) /\ Len(s) \in Nat /\ Len(t) \in Nat
      OBVIOUS
    <2>2. ASSUME NEW i \in 1 .. Len(s) + Len(t) PROVE Claims((s \o t)[i]) \subseteq T
      <3>1. CASE i <= Len(s)
        <4>1. (s \o t)[i] = s[i] /\ i \in 1 .. Len(s)
          BY <2>1, <3>1
        <4> QED BY <1>1, <4>1 DEF Honest
      <3>2. CASE i > Len(s)
        <4>1. (s \o t)[i] = t[i - Len(s)] /\ i - Len(s) \in 1 .. Len(t)
          BY <2>1, <3>2
        <4> QED BY <1>3, <4>1 DEF Honest
      <3> QED BY <2>1, <3>1, <3>2
    <2> QED BY <2>1, <2>2 DEF Honest
  <1> QED BY <1>1, <1>2, <1>3

\* What is heard is what a frame claims.
LEMMA EveryHeard ==
  ASSUME FNext \/ UNCHANGED fvars
  PROVE  \/ UNCHANGED heard
         \/ inbox # <<>> /\ heard'.active \subseteq heard.active \cup Claims(Head(inbox))
  <1>1. CASE Deliver
    <2>1. inbox # <<>> /\ Receive(Head(inbox))
      BY <1>1 DEF Deliver
    <2>2. heard'.active = heard.active \cup Activates(Head(inbox))
      BY <2>1 DEF Receive
    <2>3. Activates(Head(inbox)) \subseteq Claims(Head(inbox))
      BY DEF Activates, Settles, Claims
    <2> QED BY <2>1, <2>2, <2>3
  <1>2. CASE WorkerStep
    BY <1>2 DEF WorkerStep, SessionStep, PickWork, PickVerification, SessionFailureOne,
           SessionFailureDone, RearmOne, ApplyReport, ApplyDone, AdoptTarget, Acknowledge, Rewrite,
           DriveRead, DriveDone, DriveLocal, Retry, SendPrepare, SendChunk, DigestMismatch,
           SendComplete
  <1>3. CASE Dial \/ DialFails \/ Lost \/ Faulty \/ RestartDistributor
    BY <1>3 DEF Dial, DialFails, Lost, Faulty, RestartDistributor, Connect, Unreachable,
           ConnectionLost, Fault, ReadFails, DriveRead, Restart
  <1>4. CASE OtherThread
    BY <1>4 DEF OtherThread, LocalStep, LocalRead, LocalWrite, LocalRewrite, Operation, ControlStep,
           Submit, Retire, RequestVerification, SubmitList, SubmitRead, SubmitOlder,
           SubmitSupersede, SubmitSupersedeRewrite, SubmitHistory, SubmitRemove,
           SubmitTargetRead, SubmitTargetWrite, SubmitDelivery, RetireWrite, away
  <1>5. CASE Handle
    BY <1>5 DEF Handle
  <1>6. CASE HandlerGoesOn \/ Drop \/ AgentCrash \/ AgentStarts \/ UNCHANGED fvars
    BY <1>6 DEF HandlerGoesOn, Drop, AgentCrash, AgentStarts, fvars, vars
  <1> QED
    BY <1>1, <1>2, <1>3, <1>4, <1>5, <1>6 DEF FNext, Worker, AgentSteps

\* Every step keeps the claims honest.
LEMMA HonestStep ==
  ASSUME OneKey, BaseInv, HonestInv, FNext \/ UNCHANGED fvars
  PROVE  HonestInv'
  <1>1. BaseInv' /\ [AgentNext]_agentVars /\ WireMove
    BY BaseStep
  <1>2. LiveKnown'
    BY <1>1, LiveKnownStep DEF BaseInv, AgentOK, HonestInv
  <1>3. live \subseteq live'
    BY EveryLive DEF Live
  <1>4. inbox \in Seq(Frames) /\ out \in Seq(Frames)
    BY DEF BaseInv, WireOK
  <1>5. /\ Honest(live', inbox) /\ Honest(live', <<>>) /\ Honest(live', out)
        /\ inbox # <<>> => Honest(live', Tail(inbox)) /\ Claims(Head(inbox)) \subseteq live'
        /\ \A t \in Seq(Frames) : Honest(live', t) => Honest(live', inbox \o t)
    BY <1>3, <1>4, HonestWire DEF HonestInv
  <1>6. Handle => Answer \in Seq(Frames) /\ Honest(live', Answer)
    <2>1. Handle => pc = "serve" /\ req # NoReq
      BY DEF Handle
    <2> QED BY <2>1, AnswerFrames, AnswerHonest DEF BaseInv, WireOK, HonestInv
  <1>7. Honest(live', inbox') /\ Honest(live', out')
    BY <1>1, <1>4, <1>5, <1>6, Zenon DEF WireMove
  <1>8. heard'.active \subseteq live'
    BY <1>3, <1>5, EveryHeard DEF HonestInv
  <1> QED BY <1>2, <1>7, <1>8 DEF HonestInv

\* At the start the target has said nothing but what it runs.
LEMMA HonestInit ==
  ASSUME OneKey, FInit
  PROVE  HonestInv
  <1>1. /\ inbox = <<>> /\ out = <<>> /\ heard.active = {Installed} \ {NoDeployment}
        /\ live = {d \in Deployments : current[d.key] = PairOf(d)}
    BY DEF FInit, Init
  <1>2. Honest(live, inbox) /\ Honest(live, out)
    BY <1>1 DEF Honest
  <1>3. \A k \in Keys : Within(live, current[k])
    BY <1>1, DeploymentFields DEF Within, OneKey
  <1>4. CASE Installed = NoDeployment
    <2>1. committed = Unset /\ findings = <<>> /\ pc = "down"
      BY <1>4 DEF FInit, AgentInit
    <2>2. Entries = {}
      BY <2>1 DEF Entries
    <2> QED BY <1>1, <1>2, <1>3, <1>4, <2>1, <2>2, PairFacts DEF HonestInv, LiveKnown, Committing
  <1>5. CASE Installed # NoDeployment
    <2>1. Installed \in Deployments /\ Installed.key \in Keys
      BY <1>5, DistributorAssumption, DeploymentFields
    <2>2. Running
      BY <1>5 DEF FInit
    <2>3. /\ committed = PairOf(Installed) /\ pc = "serve"
          /\ current[Installed.key] = PairOf(Installed)
          /\ findings = <<[key |-> Installed.key, gen |-> Installed.gen, digest |-> Installed.digest]>>
      BY <2>1, <2>2 DEF Running
    <2>4. Entries = {[key |-> Installed.key, gen |-> Installed.gen, digest |-> Installed.digest]}
      BY <2>3 DEF Entries
    <2>5. Within(live, PairOf(Installed)) /\ Installed \in live
      BY <1>1, <1>3, <2>1, <2>3
    <2>6. LiveKnown
      BY <1>3, <2>3, <2>4, <2>5 DEF LiveKnown, Committing, PairOf
    <2> QED BY <1>1, <1>2, <2>5, <2>6 DEF HonestInv
  <1> QED BY <1>4, <1>5

\* Whatever is on the wire, in the agent's records or in the distributor's
\* history, an activation is claimed only of what has been live.
THEOREM ClaimsAreHonest ==
  ASSUME OneKey
  PROVE  FSpec => []HonestInv
  <1>1. FInit => HonestInv
    BY HonestInit
  <1>2. BaseInv /\ HonestInv /\ [FNext]_fvars => HonestInv'
    BY HonestStep
  <1> QED
    BY <1>1, <1>2, FabricInvariant, PTL DEF FSpec

\* With one key, a record of the distributor says Applied or Acknowledged only if
\* the live pointer of the target has named exactly that deployment: through
\* duplicated commits, late acknowledgements, answers to an earlier request,
\* crashes of the agent between switch and record, and restarts of the distributor
\* with copies in flight.
THEOREM ClaimedAlwaysWasLive ==
  ASSUME OneKey
  PROVE  FSpec => []ClaimedWasLive
  <1>1. BaseInv /\ HonestInv => ClaimedWasLive
    <2> SUFFICES ASSUME BaseInv, HonestInv, NEW d \in Deployments, IsActivationState(rec[d].state)
                 PROVE  d \in live
      BY DEF ClaimedWasLive
    <2>1. Backed(heard, rec[d], d) /\ heard.settled \subseteq heard.active
      BY DEF BaseInv, DInv, RecordsOK, RestOK, HeardOK
    <2>2. rec[d].state \in {"Applied", "Acknowledged"}
      BY DEF IsActivationState
    <2> QED BY <2>1, <2>2 DEF Backed, HonestInv
  <1> QED
    BY <1>1, FabricInvariant, ClaimsAreHonest, PTL

-----------------------------------------------------------------------------
(* What runs is what a plan asks for, or older.                            *)

\* No step takes a generation out of reach.
LEMMA ReachStays ==
  ASSUME Desired, NEW g \in Nat, Reached(rec, g)
  PROVE  Reached(rec', g)
  <1>1. PICK e \in Known(rec) : e.gen >= g
    BY DEF Reached
  <1>2. PICK f \in SameLineage(e) : rec'[f].state # "None" /\ f.gen >= e.gen
    BY <1>1 DEF Desired
  <1>3. e \in Deployments /\ f \in Deployments /\ e.gen \in Nat /\ f.gen \in Nat
    BY <1>1, <1>2, DeploymentFacts DEF Known, SameLineage
  <1>4. f \in Known(rec') /\ f.gen >= g
    BY <1>1, <1>2, <1>3 DEF Known
  <1> QED BY <1>4 DEF Reached

\* Only the commit that was asked for moves the pointer.
LEMMA CurrentMoves ==
  ASSUME BaseInv, FNext \/ UNCHANGED fvars
  PROVE  \/ UNCHANGED current
         \/ /\ Handle /\ req.kind = "ApplyCommit" /\ OnApplyCommit(Instruction)
            /\ CommitCode(Instruction) = "Ok" /\ req.dep \in Deployments
            /\ current' = [current EXCEPT ![req.dep.key] = Ptr(req.dep)]
  <1>1. CASE Handle
    <2>1. Dispatch /\ req # NoReq
      BY <1>1 DEF Handle
    <2>2. UNCHANGED current \/ (req.kind = "ApplyCommit" /\ OnApplyCommit(Instruction))
      BY <2>1 DEF Dispatch, OnApplyAbort, OnPrepare, OnChunk, OnTransferComplete, OnStage,
             OnApplyPrepare, agentVars, files
    <2>3. CASE req.kind = "ApplyCommit" /\ OnApplyCommit(Instruction)
      <3>1. req.dep \in Deployments /\ Instruction.dep = req.dep
        BY <2>1, <2>3, RequestFacts DEF BaseInv, WireOK
      <3>2. \/ UNCHANGED current
            \/ /\ CommitCode(Instruction) = "Ok"
               /\ current' = [current EXCEPT ![req.dep.key] = Ptr(req.dep)]
        BY <2>3, <3>1 DEF OnApplyCommit
      <3> QED BY <1>1, <2>3, <3>1, <3>2
    <2> QED BY <2>2, <2>3
  <1>2. CASE HandlerGoesOn \/ AgentStarts \/ AgentCrash
    BY <1>2 DEF HandlerGoesOn, AgentStarts, AgentCrash, HandlerStep, RecoveryStep, StageRename, StageRecord,
           WindowRecord, ActivateUnmark, CommitResolve, CommitRecord, CommitFinding, PrunePayloads,
           AbortNote, AbortResolve, Crash, Open, RecoverKey, RecoverUnmark, RecoverResolve,
           RecoverCommit, RecoverNote, RecoverAbort, RecoverDone, files
  <1>3. CASE Worker \/ Faulty \/ OtherThread \/ RestartDistributor \/ Drop \/ UNCHANGED fvars
    <2>1. UNCHANGED agentVars
      BY <1>3 DEF Worker, WorkerStep, Dial, DialFails, Deliver, Lost, Faulty, OtherThread,
                  RestartDistributor, Drop, fvars, Wire
    <2> QED BY <2>1 DEF agentVars, files
  <1> QED BY <1>1, <1>2, <1>3 DEF FNext, AgentSteps

\* What is asked for is what the session drives.
LEMMA RequestMoves ==
  ASSUME DInv', AbortNamed', WireMove, req'.kind \in DriveKinds
  PROVE  \/ UNCHANGED req
         \/ ses'.pc \in Driving /\ req'.dep = ses'.cur
  BY AskOK DEF WireMove, NoReq, DriveKinds

\* Where the session is driving, it is at a deployment.
LEMMA DrivingFacts ==
  ASSUME DInv
  PROVE  ses.pc \in Driving => ses.cur \in Deployments /\ ses.cur.gen \in Nat
  <1>1. Driving \subseteq AtWork
    BY DEF Driving, AtWork, Receiving, Sending
  <1> QED BY <1>1, DeploymentFacts DEF DInv, WorkerOK, WorkerControl

\* Every step keeps to what the plans reach.
LEMMA PlanStep ==
  ASSUME BaseInv, PlanReaches, FNext \/ UNCHANGED fvars
  PROVE  PlanReaches'
  <1>1. BaseInv' /\ Turn /\ WireMove
    BY BaseStep
  <1>2. \A g \in Nat : Reached(rec, g) => Reached(rec', g)
    BY <1>1, ReachStays DEF Turn, StepSound
  <1>3. req.kind \in DriveKinds => req.dep \in Deployments /\ req.dep.gen \in Nat
    <2>1. NoReq.kind \notin DriveKinds
      BY DEF NoReq, DriveKinds
    <2> QED BY <2>1, RequestFacts, DeploymentFacts DEF BaseInv, WireOK, DriveKinds
  <1>4. ses.pc \in Driving => ses.cur.gen \in Nat
    BY DrivingFacts DEF BaseInv
  <1>5. ASSUME NEW k \in Keys, IsSet(current'[k]) PROVE Reached(rec', current'[k].gen)
    <2>0. current \in [Keys -> Pointer] /\ current[k].gen \in Nat
      BY UnsetPointer DEF BaseInv, AgentOK, AgentTypeOK
    <2>1. CASE current'[k] = current[k]
      BY <1>2, <1>5, <2>0, <2>1 DEF PlanReaches, IsSet
    <2>2. CASE current'[k] # current[k]
      <3>1. req.kind = "ApplyCommit" /\ req.dep \in Deployments
            /\ current' = [current EXCEPT ![req.dep.key] = Ptr(req.dep)]
        BY <2>2, CurrentMoves
      <3>2. current'[k].gen = req.dep.gen
        BY <2>0, <2>2, <3>1 DEF Ptr
      <3>3. Reached(rec, req.dep.gen) /\ req.dep.gen \in Nat
        BY <1>3, <3>1 DEF PlanReaches, DriveKinds
      <3> QED BY <1>2, <3>2, <3>3
    <2> QED BY <2>1, <2>2
  <1>6. ASSUME ses'.pc \in Driving PROVE Reached(rec', ses'.cur.gen)
    <2>1. CASE ses.pc \in Driving /\ ses'.cur = ses.cur
      BY <1>2, <1>4, <2>1 DEF PlanReaches
    <2>2. CASE ses'.cur \in Known(rec)
      <3>1. ses'.cur.gen \in Nat
        BY <2>2, DeploymentFacts DEF Known
      <3>2. Reached(rec, ses'.cur.gen)
        BY <2>2, <3>1 DEF Reached
      <3> QED BY <1>2, <3>1, <3>2
    <2>3. \/ ses.pc \in Driving /\ ses'.cur = ses.cur
          \/ ses'.cur \in Known(rec)
      BY <1>1, <1>6 DEF Turn, SessionMove, Elsewhere, Driving
    <2> QED BY <2>1, <2>2, <2>3
  <1>7. ASSUME req'.kind \in DriveKinds PROVE Reached(rec', req'.dep.gen)
    <2>1. \/ UNCHANGED req
          \/ ses'.pc \in Driving /\ req'.dep = ses'.cur
      BY <1>1, <1>7, RequestMoves DEF BaseInv
    <2> QED BY <1>2, <1>3, <1>6, <1>7, <2>1 DEF PlanReaches
  <1> QED BY <1>5, <1>6, <1>7 DEF PlanReaches

\* What is installed is on record.
LEMMA PlanInit == FInit => PlanReaches
  <1> SUFFICES ASSUME FInit PROVE PlanReaches
    OBVIOUS
  <1>1. req.kind \notin DriveKinds /\ ses.pc \notin Driving
    BY DEF FInit, Init, Idle, NoReq, DriveKinds, Driving
  <1>2. ASSUME NEW k \in Keys, IsSet(current[k]) PROVE Reached(rec, current[k].gen)
    <2>1. CASE Installed = NoDeployment
      BY <1>2, <2>1 DEF FInit, AgentInit, Unset, IsSet
    <2>2. CASE Installed # NoDeployment
      <3>1. Installed \in Deployments /\ Installed.gen \in Nat
        BY <2>2, DistributorAssumption
      <3>2. current[k] = PairOf(Installed)
        BY <1>2, <2>2 DEF FInit, Running, Unset, IsSet
      <3>3. rec[Installed].state = "Acknowledged"
        BY <2>2, <3>1 DEF FInit, Init
      <3>4. Installed \in Known(rec)
        BY <3>1, <3>3 DEF Known
      <3> QED BY <3>1, <3>2, <3>4 DEF Reached, PairOf
    <2> QED BY <2>1, <2>2
  <1> QED BY <1>1, <1>2 DEF PlanReaches

\* The target runs, and is asked for, nothing newer than the newest plan on record,
\* however late a request is read.
THEOREM NothingBeyondThePlans == FSpec => []PlanReaches
  <1>1. BaseInv /\ PlanReaches /\ [FNext]_fvars => PlanReaches'
    BY PlanStep
  <1> QED
    BY <1>1, PlanInit, FabricInvariant, PTL DEF FSpec

-----------------------------------------------------------------------------
(* Pruning takes nothing that matters.                                     *)

\* The latest record of a lineage is its newest.
LEMMA LatestTops ==
  ASSUME DInv, NEW d \in Known(rec)
  PROVE  /\ Latest(rec, d) \in Known(rec) \cap SameLineage(d)
         /\ \A e \in Known(rec) \cap SameLineage(d) : e.gen <= Latest(rec, d).gen
  <1> DEFINE S == Known(rec) \cap SameLineage(d)
             Top(e) == \A f \in S : f = e \/ Before(f, e)
  <1>1. S \in SUBSET Deployments /\ S # {}
    BY DEF Known, SameLineage
  <1>2. IsFiniteSet(S)
    <2>1. IsFiniteSet(Known(rec)) /\ S \in SUBSET Known(rec)
      BY DEF DInv, RecordsOK
    <2> HIDE DEF S
    <2> QED BY <2>1, FS_Subset
  <1>3. PICK top \in S : {f \in S : Before(top, f)} = {}
    <2> HIDE DEF S
    <2> QED BY <1>1, <1>2, NewestIn
  <1>4. \A e, f \in Deployments : e = f \/ Before(e, f) \/ Before(f, e)
    BY DeploymentFacts DEF Before
  <1>5. top \in S /\ Top(top)
    BY <1>1, <1>3, <1>4
  <1>6. Latest(rec, d) \in S /\ Top(Latest(rec, d))
    BY <1>5 DEF Latest
  <1>7. \A e, f \in S : f = e \/ Before(f, e) => f.gen <= e.gen
    BY <1>1, DeploymentFacts DEF Before
  <1> QED BY <1>6, <1>7

\* With one key, what is not superseded is as new as anything a plan reaches.
LEMMA UnsupersededTop ==
  ASSUME OneKey, DInv, NEW d \in Known(rec), ~Superseded(d), NEW g \in Nat, Reached(rec, g)
  PROVE  g <= d.gen
  <1>1. PICK e \in Known(rec) : e.gen >= g
    BY DEF Reached
  <1>2. d \in Deployments /\ e \in Deployments /\ d.gen \in Nat /\ e.gen \in Nat
    BY <1>1, DeploymentFacts DEF Known
  <1>3. d.key = e.key
    BY <1>2, DeploymentFields DEF OneKey
  <1>4. d \in Known(rec) \cap SameLineage(d) /\ e \in Known(rec) \cap SameLineage(d)
    BY <1>1, <1>2, <1>3 DEF SameLineage
  <1>5. Latest(rec, d) \in Known(rec) /\ e.gen <= Latest(rec, d).gen
    BY <1>4, LatestTops
  <1>6. Latest(rec, d).gen \in Nat
    BY <1>5, DeploymentFacts DEF Known
  <1>7. Latest(rec, d).gen <= d.gen
    BY <1>2, <1>4, <1>6 DEF Superseded
  <1> QED BY <1>1, <1>2, <1>5, <1>6, <1>7

\* A copy goes in front of everything, and has no name yet.
LEMMA CopiedOrder ==
  ASSUME NEW fs \in SUBSET PayloadFile,
         \A f, g \in fs : IsSet(f) /\ IsSet(g) /\ f.age < g.age => g.gen < f.gen
  PROVE  /\ \A f, g \in Copied(fs) : IsSet(f) /\ IsSet(g) /\ f.age < g.age => g.gen < f.gen
         /\ \A f \in Copied(fs) : f.gen = 0 \/ \E g \in fs : f.gen = g.gen
  <1> DEFINE up(f) == [f EXCEPT !.age = @ + 1]
  <1>1. Copied(fs) = {up(f) : f \in fs} \cup {PartFile} /\ PartFile.gen = 0
    BY DEF Copied, PartFile
  <1>2. \A f \in fs : f.age \in Nat /\ up(f).age = f.age + 1 /\ up(f).gen = f.gen
    BY DEF PayloadFile
  <1> HIDE DEF up
  <1>3. ASSUME NEW f \in Copied(fs), NEW g \in Copied(fs), IsSet(f), IsSet(g), f.age < g.age
        PROVE  g.gen < f.gen
    <2>1. PICK x \in fs : f = up(x)
      BY <1>1, <1>3 DEF IsSet
    <2>2. PICK y \in fs : g = up(y)
      BY <1>1, <1>3 DEF IsSet
    <2>3. x.gen = f.gen /\ y.gen = g.gen /\ x.age < y.age
      BY <1>2, <1>3, <2>1, <2>2
    <2> QED BY <1>3, <2>3 DEF IsSet
  <1> QED BY <1>1, <1>2, <1>3

\* A payload written as the newest goes in front of those that are older.
LEMMA PlacedOrder ==
  ASSUME OneContent, NEW d \in Deployments, NEW fs \in SUBSET PayloadFile, Shelf(fs, d.key),
         \A f, g \in fs : IsSet(f) /\ IsSet(g) /\ f.age < g.age => g.gen < f.gen,
         \A f \in fs : f.gen <= d.gen
  PROVE  /\ \A f, g \in Placed(fs, d) : IsSet(f) /\ IsSet(g) /\ f.age < g.age => g.gen < f.gen
         /\ \A f \in Placed(fs, d) : f.gen = d.gen \/ \E g \in fs : f.gen = g.gen
  <1> DEFINE old == {f \in fs : SameName(f, d)}
             down(f) == IF \E o \in old : o.age < f.age THEN f.age - 1 ELSE f.age
             aged(f) == [f EXCEPT !.age = IF \E o \in old : o.age < f.age
                                          THEN @ - 1 ELSE @]
             new == [gen |-> d.gen, digest |-> d.digest, age |-> 0,
                     ok |-> Hashes(staging[d], d)]
             rest == fs \ (old \cup {PartFile})
  <1>1. Placed(fs, d) = {aged(f) : f \in rest} \cup {new}
    BY DEF Placed
  <1>2. \A f \in fs : f.age \in Nat /\ f.gen \in Nat
    BY DEF PayloadFile
  <1>3. /\ \A f \in fs : aged(f).age = down(f) /\ aged(f).gen = f.gen
        /\ new.age = 0 /\ new.gen = d.gen
    BY DEF PayloadFile
  <1>4. \A f \in rest : down(f) \in Nat
    BY <1>2
  <1>5. ASSUME NEW f \in rest, IsSet(f) PROVE f.gen < d.gen
    <2>1. PICK e \in Deployments : e.key = d.key /\ SameName(f, e)
      BY <1>5 DEF Shelf
    <2>2. f.gen # d.gen
      BY <2>1 DEF OneContent, SameName
    <2>3. f.gen \in Nat /\ d.gen \in Nat /\ f.gen <= d.gen
      BY <1>2, DeploymentFields
    <2> QED BY <2>2, <2>3
  <1>6. ASSUME NEW f \in rest, NEW g \in rest, down(f) < down(g) PROVE f.age < g.age
    <2>1. f.age \in Nat /\ g.age \in Nat /\ \A o \in old : o.age \in Nat
      BY <1>2
    <2>2. CASE g.age < f.age
      <3>1. (\E o \in old : o.age < g.age) => \E o \in old : o.age < f.age
        <4> HIDE DEF old
        <4> QED BY <2>1, <2>2
      <3>2. down(g) <= down(f)
        BY <2>1, <2>2, <3>1
      <3>3. down(f) \in Nat /\ down(g) \in Nat
        BY <1>4
      <3> HIDE DEF down
      <3> QED BY <1>6, <3>2, <3>3
    <2>3. CASE f.age = g.age
      <3>1. down(f) = down(g) /\ down(f) \in Nat
        BY <1>4, <2>3
      <3> HIDE DEF down
      <3> QED BY <1>6, <3>1
    <2> QED BY <2>1, <2>2, <2>3
  <1>7. ASSUME NEW f \in Placed(fs, d), NEW g \in Placed(fs, d), IsSet(f), IsSet(g), f.age < g.age
        PROVE  g.gen < f.gen
    <2>1. CASE f = new
      <3>1. PICK x \in rest : g = aged(x)
        <4>1. g # new
          <5>1. new.age = 0
            BY <1>3
          <5> HIDE DEF new
          <5> QED BY <1>7, <2>1, <5>1
        <4> HIDE DEF aged, new, rest
        <4> QED BY <1>1, <4>1
      <3>2. g.gen = x.gen /\ f.gen = d.gen
        BY <1>3, <2>1, <3>1
      <3>3. IsSet(x)
        BY <1>7, <3>2 DEF IsSet
      <3> HIDE DEF rest
      <3> QED BY <1>5, <3>2, <3>3
    <2>2. CASE f # new
      <3>1. PICK x \in rest : f = aged(x)
        <4> HIDE DEF aged, new, rest
        <4> QED BY <1>1, <2>2
      <3>2. f.age = down(x) /\ f.gen = x.gen /\ down(x) \in Nat
        BY <1>3, <1>4, <3>1
      <3>3. g # new
        <4>1. new.age = 0
          BY <1>3
        <4> HIDE DEF new, down
        <4> QED BY <1>7, <3>2, <4>1
      <3>4. PICK y \in rest : g = aged(y)
        <4> HIDE DEF aged, new, rest
        <4> QED BY <1>1, <3>3
      <3>5. g.age = down(y) /\ g.gen = y.gen
        BY <1>3, <3>4
      <3>6. x.age < y.age
        <4> HIDE DEF down, rest
        <4> QED BY <1>6, <1>7, <3>2, <3>5
      <3>7. IsSet(x) /\ IsSet(y) /\ x \in fs /\ y \in fs
        BY <1>7, <3>2, <3>5 DEF IsSet
      <3> HIDE DEF rest, down, aged, new, old
      <3> QED BY <3>2, <3>5, <3>6, <3>7
    <2> QED BY <2>1, <2>2
  <1>8. \A f \in Placed(fs, d) : f.gen = d.gen \/ \E g \in fs : f.gen = g.gen
    <2>1. \A f \in rest : f \in fs /\ aged(f).gen = f.gen
      BY <1>3
    <2>2. new.gen = d.gen
      BY <1>3
    <2> HIDE DEF aged, new, rest
    <2> QED BY <1>1, <2>1, <2>2
  <1> QED BY <1>7, <1>8

\* Payloads are removed, the one that was asked for is copied, or the copy renamed.
LEMMA PayloadMoves ==
  ASSUME BaseInv, FNext \/ UNCHANGED fvars
  PROVE  \/ /\ \A k \in Keys : payload'[k] \subseteq payload[k]
            /\ pc' = "copy" => pc = "copy" /\ UNCHANGED job
         \/ /\ Handle /\ req.kind = "Stage" /\ req.dep \in Deployments /\ pc' = "copy" /\ job' = req.dep
            /\ payload' = [payload EXCEPT ![req.dep.key] = Copied(payload[req.dep.key])]
         \/ /\ pc = "copy" /\ pc' = "stage"
            /\ payload' = [payload EXCEPT ![job.key] = Placed(payload[job.key], job)]
  <1>0. payload \in [Keys -> SUBSET PayloadFile]
    BY DEF BaseInv, AgentOK, AgentTypeOK
  <1>1. CASE Handle
    <2>1. Dispatch /\ req # NoReq /\ pc = "serve"
      BY <1>1 DEF Handle
    <2>2. \/ UNCHANGED payload /\ (pc' = "copy" => pc = "copy" /\ UNCHANGED job)
          \/ req.kind = "Stage" /\ OnStage(Instruction)
      BY <2>1 DEF Dispatch, OnApplyAbort, OnPrepare, OnChunk, OnTransferComplete, OnApplyCommit,
             OnApplyPrepare, agentVars, files, process
    <2>3. CASE req.kind = "Stage" /\ OnStage(Instruction)
      <3>1. req.dep \in Deployments /\ Instruction.dep = req.dep
        BY <2>1, <2>3, RequestFacts DEF BaseInv, WireOK
      <3> QED BY <1>1, <2>3, <3>1 DEF OnStage
    <2> QED BY <2>2, <2>3
  <1>2. CASE PrunePayloads
    <2>1. \A k \in Keys : payload'[k] \subseteq payload[k]
      BY <1>0, <1>2 DEF PrunePayloads
    <2>2. pc' = "serve"
      BY <1>2 DEF PrunePayloads
    <2> QED BY <2>1, <2>2
  <1>3. CASE (HandlerGoesOn \/ AgentStarts \/ AgentCrash) /\ ~PrunePayloads
    <2>1. CASE StageRename
      BY <2>1 DEF StageRename
    <2>2. CASE ~StageRename
      BY <1>3, <2>2 DEF HandlerGoesOn, AgentStarts, AgentCrash, HandlerStep, RecoveryStep, StageRecord,
             WindowRecord, ActivateUnmark, CommitResolve, CommitRecord, CommitFinding,
             AbortNote, AbortResolve, Crash, Open, RecoverKey, RecoverUnmark, RecoverResolve,
             RecoverCommit, RecoverNote, RecoverAbort, RecoverDone, files
    <2> QED BY <2>1, <2>2
  <1>4. CASE Worker \/ Faulty \/ OtherThread \/ RestartDistributor \/ Drop \/ UNCHANGED fvars
    <2>1. UNCHANGED agentVars
      BY <1>4 DEF Worker, WorkerStep, Dial, DialFails, Deliver, Lost, Faulty, OtherThread,
                  RestartDistributor, Drop, fvars, Wire
    <2> QED BY <2>1 DEF agentVars, files, process
  <1> QED BY <1>1, <1>2, <1>3, <1>4 DEF FNext, AgentSteps

\* A commit under way is the one that was asked for.
LEMMA CommitsRequest ==
  ASSUME BaseInv, FNext \/ UNCHANGED fvars, pc' \in Committing
  PROVE  \/ pc \in Committing /\ job' = job
         \/ Handle /\ req.kind = "ApplyCommit" /\ job' = req.dep
  <1>1. CASE Handle
    <2>1. Dispatch /\ req # NoReq /\ pc = "serve"
      BY <1>1 DEF Handle
    <2>2. req.kind = "ApplyCommit" /\ OnApplyCommit(Instruction)
      BY <2>1 DEF Dispatch, OnApplyAbort, OnPrepare, OnChunk, OnTransferComplete, OnStage,
             OnApplyPrepare, agentVars, process, Committing
    <2>3. Instruction.dep = req.dep
      BY DEF Instruction
    <2> QED BY <1>1, <2>1, <2>2, <2>3 DEF OnApplyCommit, Committing
  <1>2. CASE HandlerGoesOn \/ AgentStarts \/ AgentCrash
    BY <1>2 DEF HandlerGoesOn, AgentStarts, AgentCrash, HandlerStep, RecoveryStep, StageRename, StageRecord,
           WindowRecord, ActivateUnmark, CommitResolve, CommitRecord, CommitFinding, PrunePayloads,
           AbortNote, AbortResolve, Crash, Open, RecoverKey, RecoverUnmark, RecoverResolve,
           RecoverCommit, RecoverNote, RecoverAbort, RecoverDone, Committing
  <1>3. CASE Worker \/ Faulty \/ OtherThread \/ RestartDistributor \/ Drop \/ UNCHANGED fvars
    <2>1. UNCHANGED agentVars
      BY <1>3 DEF Worker, WorkerStep, Dial, DialFails, Deliver, Lost, Faulty, OtherThread,
                  RestartDistributor, Drop, fvars, Wire
    <2> QED BY <2>1 DEF agentVars, process
  <1> QED BY <1>1, <1>2, <1>3 DEF FNext, AgentSteps

\* Generations are numbers wherever they are compared.
LEMMA OrderTypes ==
  ASSUME BaseInv
  PROVE  /\ payload \in [Keys -> SUBSET PayloadFile]
         /\ \A k \in Keys : \A f \in payload[k] : f.gen \in Nat
         /\ req.kind \in DriveKinds => req.dep \in Deployments /\ req.dep.gen \in Nat /\ req.dep.key \in Keys
         /\ ses.pc \in Driving => ses.cur \in Deployments /\ ses.cur.gen \in Nat /\ ses.cur.key \in Keys
         /\ pc \in Committing \cup {"copy"} =>
              job \in Deployments /\ job.gen \in Nat /\ job.key \in Keys
  <1>1. payload \in [Keys -> SUBSET PayloadFile] /\ \A k \in Keys : \A f \in payload[k] : f.gen \in Nat
    BY DEF BaseInv, AgentOK, AgentTypeOK, PayloadFile
  <1>2. NoReq.kind \notin DriveKinds
    BY DEF NoReq, DriveKinds
  <1>3. req.kind \in DriveKinds => req.dep \in Deployments
    BY <1>2, RequestFacts DEF BaseInv, WireOK, DriveKinds
  <1>4. pc \in Committing \cup {"copy"} => job \in Deployments
    BY DEF BaseInv, AgentOK, AgentTypeOK, HandlerSteps, Committing
  <1> QED BY <1>1, <1>3, <1>4, DrivingFacts, DeploymentFields DEF BaseInv

\* A payload that is copied is the newest.
LEMMA OrderCopy ==
  ASSUME OneKey, BaseInv, BaseInv', PlanReaches, OrderInv, Handle, req.kind = "Stage",
         req.dep \in Deployments, pc' = "copy", job' = req.dep,
         payload' = [payload EXCEPT ![req.dep.key] = Copied(payload[req.dep.key])]
  PROVE  StagedInOrder'
  <1> DEFINE d == req.dep
             fs == payload[d.key]
  <1>1. /\ UNCHANGED <<rec, ses>> /\ req' = NoReq
    BY DEF Handle, store
  <1>2. /\ d.key \in Keys /\ d.gen \in Nat /\ fs \in SUBSET PayloadFile
        /\ payload \in [Keys -> SUBSET PayloadFile]
    BY OrderTypes, DeploymentFields
  <1>3. /\ \A f, g \in fs : IsSet(f) /\ IsSet(g) /\ f.age < g.age => g.gen < f.gen
        /\ \A f \in fs : f.gen <= d.gen
    BY <1>2 DEF OrderInv, StagedInOrder, Newest, DriveKinds
  <1>4. /\ \A f, g \in Copied(fs) : IsSet(f) /\ IsSet(g) /\ f.age < g.age => g.gen < f.gen
        /\ \A f \in Copied(fs) : f.gen = 0 \/ \E g \in fs : f.gen = g.gen
    <2> HIDE DEF d, fs
    <2> QED BY <1>2, <1>3, CopiedOrder
  <1>5. \A k \in Keys : k = d.key /\ payload'[k] = Copied(fs)
    BY <1>2 DEF OneKey
  <1>6. Reached(rec', d.gen) /\ \A f \in fs : IsSet(f) => Reached(rec', f.gen)
    BY <1>1, <1>2 DEF PlanReaches, DriveKinds, OrderInv, StagedInOrder
  <1>7. ASSUME NEW e \in Deployments, d.gen <= e.gen PROVE Newest(e)'
    <2>1. e.key = d.key /\ e.gen \in Nat /\ \A f \in fs : f.gen \in Nat
      BY <1>2, DeploymentFields DEF OneKey, PayloadFile
    <2>2. \A f \in Copied(fs) : f.gen <= e.gen
      BY <1>2, <1>3, <1>4, <1>7, <2>1
    <2> QED BY <1>2, <1>5, <1>7, <2>1, <2>2 DEF Newest
  <1>8. ASSUME ses'.pc \in Driving PROVE Newest(ses.cur)'
    <2>1. ses.cur \in Deployments /\ d.gen <= ses.cur.gen
      BY <1>1, <1>8, OrderTypes DEF OrderInv, StagedInOrder, DriveKinds
    <2>2. ses' = ses
      BY <1>1
    <2> QED BY <1>7, <2>1, <2>2 DEF Newest
  <1>9. Newest(job)'
    <2>1. \A f \in fs : f.gen \in Nat
      BY <1>2 DEF PayloadFile
    <2>2. \A f \in Copied(fs) : f.gen <= d.gen
      <3> HIDE DEF d, fs
      <3> QED BY <1>2, <1>3, <1>4, <2>1
    <2>3. payload'[job'.key] = Copied(fs) /\ job'.gen = d.gen /\ job'.gen <= job'.gen
      BY <1>2, <1>5
    <2> HIDE DEF d, fs
    <2> QED BY <2>2, <2>3 DEF Newest
  <1>10. req'.kind \notin DriveKinds /\ pc' \notin Committing
    BY <1>1 DEF NoReq, DriveKinds, Committing
  <1>11. \A k \in Keys : \A f, g \in payload'[k] :
           IsSet(f) /\ IsSet(g) /\ f.age < g.age => g.gen < f.gen
    BY <1>4, <1>5
  <1>12. \A k \in Keys : \A f \in payload'[k] : IsSet(f) => Reached(rec', f.gen)
    BY <1>4, <1>5, <1>6 DEF IsSet
  <1> QED BY <1>6, <1>8, <1>9, <1>10, <1>11, <1>12 DEF StagedInOrder, IsSet

\* A step that renames a copy, or adds nothing, keeps the order of the payloads.
LEMMA FilesInOrder ==
  ASSUME OneKey, OneContent, BaseInv, OrderInv, \A g \in Nat : Reached(rec, g) => Reached(rec', g),
         \/ /\ \A k \in Keys : payload'[k] \subseteq payload[k]
            /\ pc' = "copy" => pc = "copy" /\ UNCHANGED job
         \/ /\ pc = "copy" /\ pc' = "stage"
            /\ payload' = [payload EXCEPT ![job.key] = Placed(payload[job.key], job)]
  PROVE  /\ \A k \in Keys : \A f, g \in payload'[k] :
              IsSet(f) /\ IsSet(g) /\ f.age < g.age => g.gen < f.gen
         /\ \A k \in Keys : \A f \in payload'[k] : IsSet(f) => Reached(rec', f.gen)
         /\ pc' = "copy" => Reached(rec', job'.gen)
         /\ \A d \in Deployments :
              Newest(d) => /\ \A f \in payload'[d.key] : f.gen <= d.gen
                           /\ pc' = "copy" => job'.gen <= d.gen
  <1>1. CASE /\ \A k \in Keys : payload'[k] \subseteq payload[k]
             /\ pc' = "copy" => pc = "copy" /\ UNCHANGED job
    <2>1. \A k \in Keys : \A f, g \in payload'[k] :
            IsSet(f) /\ IsSet(g) /\ f.age < g.age => g.gen < f.gen
      BY <1>1 DEF OrderInv, StagedInOrder
    <2>2. \A k \in Keys : \A f \in payload'[k] : IsSet(f) => Reached(rec', f.gen)
      BY <1>1, OrderTypes DEF OrderInv, StagedInOrder
    <2>3. pc' = "copy" => Reached(rec', job'.gen)
      BY <1>1, OrderTypes DEF OrderInv, StagedInOrder
    <2>4. ASSUME NEW d \in Deployments, Newest(d)
          PROVE  /\ \A f \in payload'[d.key] : f.gen <= d.gen
                 /\ pc' = "copy" => job'.gen <= d.gen
      BY <1>1, <2>4, DeploymentFields DEF Newest
    <2> QED BY <2>1, <2>2, <2>3, <2>4
  <1>2. CASE /\ pc = "copy" /\ pc' = "stage"
             /\ payload' = [payload EXCEPT ![job.key] = Placed(payload[job.key], job)]
    <2> DEFINE fs == payload[job.key]
    <2>1. /\ job \in Deployments /\ job.key \in Keys /\ job.gen \in Nat
          /\ fs \in SUBSET PayloadFile /\ payload \in [Keys -> SUBSET PayloadFile]
          /\ \A f \in fs : f.gen \in Nat
      BY <1>2, OrderTypes
    <2>2. /\ Shelf(fs, job.key)
          /\ \A f, g \in fs : IsSet(f) /\ IsSet(g) /\ f.age < g.age => g.gen < f.gen
          /\ \A f \in fs : f.gen <= job.gen
      BY <1>2, <2>1 DEF OrderInv, ShelfInv, StagedInOrder, Newest
    <2>3. /\ \A f, g \in Placed(fs, job) : IsSet(f) /\ IsSet(g) /\ f.age < g.age => g.gen < f.gen
          /\ \A f \in Placed(fs, job) : f.gen = job.gen \/ \E g \in fs : f.gen = g.gen
      <3> HIDE DEF fs
      <3> QED BY <2>1, <2>2, PlacedOrder
    <2>4. \A k \in Keys : k = job.key /\ payload'[k] = Placed(fs, job)
      BY <1>2, <2>1 DEF OneKey
    <2>5. Reached(rec', job.gen) /\ \A f \in fs : IsSet(f) => Reached(rec', f.gen)
      BY <1>2, <2>1 DEF OrderInv, StagedInOrder
    <2>6. ASSUME NEW d \in Deployments, Newest(d)
          PROVE  \A f \in payload'[d.key] : f.gen <= d.gen
      <3>1. d.key = job.key /\ d.key \in Keys /\ job.gen <= d.gen /\ \A f \in fs : f.gen <= d.gen
        BY <1>2, <2>1, <2>6, DeploymentFields DEF OneKey, Newest
      <3> HIDE DEF fs
      <3> QED BY <2>3, <2>4, <3>1
    <2>7. \A f \in Placed(fs, job) : IsSet(f) => Reached(rec', f.gen)
      <3> HIDE DEF fs
      <3> QED BY <2>3, <2>5 DEF IsSet
    <2> HIDE DEF fs
    <2> QED BY <1>2, <2>3, <2>4, <2>6, <2>7
  <1> QED BY <1>1, <1>2

\* Every step keeps the payloads in order.
LEMMA OrderStep ==
  ASSUME OneKey, OneContent, BaseInv, PlanReaches, OrderInv, FNext \/ UNCHANGED fvars
  PROVE  OrderInv'
  <1>1. BaseInv' /\ Turn /\ WireMove /\ [AgentNext]_agentVars
    BY BaseStep
  <1>2. ShelfInv'
    BY <1>1, ShelfStep DEF BaseInv, AgentOK, OrderInv
  <1>3. CASE /\ Handle /\ req.kind = "Stage" /\ req.dep \in Deployments /\ pc' = "copy" /\ job' = req.dep
             /\ payload' = [payload EXCEPT ![req.dep.key] = Copied(payload[req.dep.key])]
    BY <1>1, <1>2, <1>3, OrderCopy DEF OrderInv
  <1>4. CASE \/ /\ \A k \in Keys : payload'[k] \subseteq payload[k]
                /\ pc' = "copy" => pc = "copy" /\ UNCHANGED job
             \/ /\ pc = "copy" /\ pc' = "stage"
                /\ payload' = [payload EXCEPT ![job.key] = Placed(payload[job.key], job)]
    <2>1. \A g \in Nat : Reached(rec, g) => Reached(rec', g)
      BY <1>1, ReachStays DEF Turn, StepSound
    <2>2. /\ \A k \in Keys : \A f, g \in payload'[k] :
               IsSet(f) /\ IsSet(g) /\ f.age < g.age => g.gen < f.gen
          /\ \A k \in Keys : \A f \in payload'[k] : IsSet(f) => Reached(rec', f.gen)
          /\ pc' = "copy" => Reached(rec', job'.gen)
      BY <1>4, <2>1, FilesInOrder
    <2> DEFINE NewestThen(d) == /\ \A f \in payload'[d.key] : f.gen <= d.gen
                                /\ pc' = "copy" => job'.gen <= d.gen
    <2>3. /\ Newest(ses.cur)' <=> NewestThen(ses'.cur)
          /\ Newest(req.dep)' <=> NewestThen(req'.dep)
          /\ Newest(job)' <=> NewestThen(job')
      BY DEF Newest
    <2>4. \A d \in Deployments : Newest(d) => NewestThen(d)
      BY <1>4, <2>1, FilesInOrder
    <2>5. ASSUME ses'.pc \in Driving
          PROVE  /\ NewestThen(ses'.cur)
                 /\ req'.kind \in DriveKinds => req'.dep.gen <= ses'.cur.gen
      <3>1. ses'.cur \in Deployments /\ ses'.cur.gen \in Nat /\ ses'.cur.key \in Keys
        <4>1. ses'.cur \in Deployments
          <5>1. Driving \subseteq AtWork
            BY DEF Driving, AtWork, Receiving, Sending
          <5> QED BY <1>1, <2>5, <5>1 DEF BaseInv, DInv, WorkerOK, WorkerControl
        <4> QED BY <4>1, DeploymentFields
      <3>2. CASE ses.pc \in Driving /\ ses'.cur = ses.cur
        <4>1. NewestThen(ses'.cur)
          <5> HIDE DEF NewestThen
          <5> QED BY <2>4, <3>1, <3>2 DEF OrderInv, StagedInOrder
        <4>2. req'.kind \in DriveKinds => req'.dep.gen <= ses'.cur.gen
          <5>1. req'.kind \in DriveKinds => UNCHANGED req \/ req'.dep = ses'.cur
            BY <1>1, RequestMoves DEF BaseInv
          <5> QED BY <3>1, <3>2, <5>1 DEF OrderInv, StagedInOrder
        <4> QED BY <4>1, <4>2
      <3>3. CASE ses'.cur \in Known(rec) /\ ~Superseded(ses'.cur)
        <4>1. \A g \in Nat : Reached(rec, g) => g <= ses'.cur.gen
          BY <3>3, UnsupersededTop DEF BaseInv
        <4>2. Newest(ses'.cur)
          <5>1. \A f \in payload[ses'.cur.key] : f.gen \in Nat /\ f.gen <= ses'.cur.gen
            BY <3>1, <4>1, OrderTypes DEF OrderInv, StagedInOrder, IsSet
          <5>2. pc = "copy" => job.gen <= ses'.cur.gen
            BY <4>1, OrderTypes DEF OrderInv, StagedInOrder
          <5> QED BY <5>1, <5>2 DEF Newest
        <4>3. req'.kind \in DriveKinds => req'.dep.gen <= ses'.cur.gen
          <5>1. req'.kind \in DriveKinds => UNCHANGED req \/ req'.dep = ses'.cur
            BY <1>1, RequestMoves DEF BaseInv
          <5>2. req.kind \in DriveKinds => req.dep.gen <= ses'.cur.gen
            BY <4>1, OrderTypes DEF PlanReaches
          <5> QED BY <3>1, <5>1, <5>2
        <4> HIDE DEF NewestThen
        <4> QED BY <2>4, <3>1, <4>2, <4>3
      <3>4. \/ ses.pc \in Driving /\ ses'.cur = ses.cur
            \/ ses'.cur \in Known(rec) /\ ~Superseded(ses'.cur)
        BY <1>1, <2>5 DEF Turn, SessionMove, Elsewhere, Driving
      <3> QED BY <3>2, <3>3, <3>4
    <2> HIDE DEF NewestThen
    <2>6. ASSUME req'.kind \in DriveKinds PROVE NewestThen(req'.dep)
      <3>1. UNCHANGED req \/ (ses'.pc \in Driving /\ req'.dep = ses'.cur)
        BY <1>1, <2>6, RequestMoves DEF BaseInv
      <3> QED BY <2>4, <2>5, <2>6, <3>1, OrderTypes DEF OrderInv, StagedInOrder
    <2>7. ASSUME pc' \in Committing PROVE NewestThen(job')
      <3>1. CASE pc \in Committing /\ job' = job
        BY <2>4, <3>1, OrderTypes DEF OrderInv, StagedInOrder
      <3>2. CASE req.kind = "ApplyCommit" /\ job' = req.dep
        BY <2>4, <3>2, OrderTypes DEF OrderInv, StagedInOrder, DriveKinds
      <3> QED BY <2>7, <3>1, <3>2, CommitsRequest
    <2>8. ASSUME pc' = "copy" PROVE NewestThen(job')
      <3>1. pc = "copy" /\ job' = job
        BY <1>4, <2>8
      <3> QED BY <2>4, <3>1, OrderTypes DEF OrderInv, StagedInOrder
    <2>9. StagedInOrder'
      BY <2>2, <2>3, <2>5, <2>6, <2>7, <2>8 DEF StagedInOrder, IsSet
    <2> QED BY <1>2, <2>9 DEF OrderInv
  <1> QED BY <1>3, <1>4, PayloadMoves

\* At the start there is no payload, or the one that is installed.
LEMMA OrderInit == FInit => OrderInv /\ PartsInv
  <1> SUFFICES ASSUME FInit PROVE OrderInv /\ PartsInv
    OBVIOUS
  <1>1. req.kind \notin DriveKinds /\ ses.pc \notin Driving
    BY DEF FInit, Init, Idle, NoReq, DriveKinds, Driving
  <1>2. ASSUME \A k \in Keys : Parts(payload[k]) = {},
               \/ pc = "down" /\ term = 0
               \/ pc = "serve" /\ term = 1
        PROVE  PartsInv
    <2>1. IsFiniteSet({}) /\ Cardinality({}) = 0
      BY FS_EmptySet
    <2>2. /\ \A k \in Keys : IsFiniteSet(Parts(payload[k])) /\ Cardinality(Parts(payload[k])) = 0
          /\ MaxTerm \in Nat \ {0}
      BY <1>2, <2>1, BoundsAssumption
    <2> QED BY <1>2, <2>2 DEF PartsInv, Loose
  <1>3. CASE Installed = NoDeployment
    <2>1. pc = "down" /\ term = 0 /\ payload = [k \in Keys |-> {}]
      BY <1>3 DEF FInit, AgentInit
    <2>2. OrderInv
      BY <1>1, <2>1 DEF OrderInv, ShelfInv, Shelf, StagedInOrder, Committing
    <2>3. \A k \in Keys : Parts(payload[k]) = {}
      BY <2>1 DEF Parts
    <2> QED BY <1>2, <2>1, <2>2, <2>3
  <1>4. CASE Installed # NoDeployment
    <2> DEFINE d == Installed
               file == [gen |-> d.gen, digest |-> d.digest, ok |-> TRUE, age |-> 0]
    <2>1. d \in Deployments /\ d.key \in Keys /\ d.gen \in Nat /\ d.gen # 0
      BY <1>4, DistributorAssumption, DeploymentFields
    <2>2. pc = "serve" /\ term = 1 /\ payload = [k \in Keys |-> IF k = d.key THEN {file} ELSE {}]
      BY <1>4 DEF FInit, Running
    <2>3. Reached(rec, d.gen)
      <3>1. rec[d].state = "Acknowledged"
        BY <1>4, <2>1 DEF FInit, Init
      <3>2. d \in Known(rec)
        BY <2>1, <3>1 DEF Known
      <3> QED BY <2>1, <3>2 DEF Reached
    <2>4. file.age = 0 /\ file.gen = d.gen /\ file.digest = d.digest
      OBVIOUS
    <2>5. \A k \in Keys : \A f \in payload[k] : f = file /\ k = d.key
      <3> HIDE DEF d, file
      <3> QED BY <2>2
    <2>6. \A k \in Keys : Shelf(payload[k], k)
      <3> HIDE DEF d, file
      <3> QED BY <2>1, <2>4, <2>5 DEF Shelf, SameName
    <2>7. StagedInOrder
      <3> HIDE DEF d, file
      <3> QED BY <1>1, <2>2, <2>3, <2>4, <2>5 DEF StagedInOrder, Committing
    <2>8. \A k \in Keys : Parts(payload[k]) = {}
      <3> HIDE DEF d, file
      <3> QED BY <2>1, <2>4, <2>5 DEF Parts, IsSet
    <2> QED BY <1>2, <2>2, <2>6, <2>7, <2>8 DEF OrderInv, ShelfInv
  <1> QED BY <1>3, <1>4

\* A payload that would be pruned has another in front of it, whose generation is
\* newer than its own and at most that of the commit: copies that crashes left behind
\* are too few to reach so far.
LEMMA OrderRetains ==
  ASSUME CrashRoom, BaseInv, OrderInv, PartsInv
  PROVE  RetentionSuffices
  <1> SUFFICES ASSUME pc = "prune", NEW f \in payload[job.key], ~(f.age < RetainedPayloads)
               PROVE  f.gen < job.gen
    BY DEF RetentionSuffices
  <1> DEFINE fs == payload[job.key]
  <1>1. job \in Deployments /\ job.key \in Keys /\ job.gen \in Nat /\ job.gen # 0
        /\ fs \in SUBSET PayloadFile
    BY OrderTypes, DeploymentFields DEF Committing
  <1>2. f.age \in Nat /\ f.gen \in Nat /\ RetainedPayloads \in Nat /\ MaxTerm \in Nat /\ term \in Nat
    BY <1>1, BoundsAssumption DEF PayloadFile, BaseInv, AgentOK, AgentTypeOK
  <1>3. /\ Shelf(fs, job.key) /\ IsFiniteSet(Parts(fs)) /\ Cardinality(Parts(fs)) + 1 <= term
        /\ term <= MaxTerm
    BY <1>1 DEF OrderInv, ShelfInv, PartsInv, Loose
  <1>4. Cardinality(Parts(fs)) \in Nat
    BY <1>3, FS_CardinalityType
  <1>5. IsFiniteSet({}) /\ Cardinality({}) = 0
    BY FS_EmptySet
  <1>6. \A i \in 0 .. f.age - 1 : \E g \in fs : g.age = i
    <2>1. \A i \in 0 .. f.age - 1 : i \in 0 .. f.age
      BY <1>2
    <2> QED BY <1>3, <2>1 DEF Shelf
  <1>7. PICK g \in fs : IsSet(g) /\ g.age < f.age
    <2> SUFFICES ASSUME \A g \in fs : ~(IsSet(g) /\ g.age < f.age) PROVE FALSE
      OBVIOUS
    <2> HIDE DEF fs
    <2>1. f.age <= Cardinality({}) + Cardinality(Parts(fs))
      BY <1>1, <1>2, <1>3, <1>5, <1>6, YoungerFiles
    <2> QED BY <1>2, <1>3, <1>4, <1>5, <2>1 DEF CrashRoom
  <1>8. g.gen <= job.gen /\ g.gen \in Nat /\ (IsSet(f) => f.gen < g.gen)
    BY <1>1, <1>7, OrderTypes DEF OrderInv, StagedInOrder, Newest, Committing
  <1> QED BY <1>1, <1>2, <1>8 DEF IsSet

\* With one key and one content per generation, the distributor has payloads staged
\* in the order of their generations, so that keeping as many files as the agent may
\* start is enough, one for the payload and one for each copy a crash cuts off; with
\* room for every payload of a key as well, the order does not matter.
THEOREM PruningIsHarmless ==
  ASSUME OneKey, (OneContent /\ CrashRoom) \/ Room
  PROVE  FSpec => []RetentionSuffices
  <1>1. BaseInv /\ ShelfInv /\ PartsInv /\ [FNext]_fvars => ShelfInv' /\ PartsInv'
    BY BaseStep, ShelfStep, PartsStep DEF BaseInv, AgentOK
  <1>2. CASE OneContent /\ CrashRoom
    <2>1. BaseInv /\ PlanReaches /\ OrderInv /\ PartsInv /\ [FNext]_fvars => OrderInv' /\ PartsInv'
      BY <1>1, <1>2, OrderStep DEF OrderInv
    <2>2. BaseInv /\ OrderInv /\ PartsInv => RetentionSuffices
      BY <1>2, OrderRetains
    <2> QED
      BY <2>1, <2>2, OrderInit, FabricInvariant, NothingBeyondThePlans, PTL DEF FSpec
  <1>3. CASE Room
    <2>1. FInit => ShelfInv /\ PartsInv
      BY OrderInit DEF OrderInv
    <2>2. BaseInv /\ ShelfInv /\ PartsInv => RetentionSuffices
      BY <1>3, RoomRetains DEF BaseInv, AgentOK
    <2> QED
      BY <1>1, <2>1, <2>2, FabricInvariant, PTL DEF FSpec
  <1> QED BY <1>2, <1>3

-----------------------------------------------------------------------------
(* What is converged is running.                                           *)

\* The live area at the start: that of the agent alone, or of one that runs what is
\* installed.
LEMMA AreaStart == FInit => AreaInv
  <1> SUFFICES ASSUME FInit PROVE AreaInv
    OBVIOUS
  <1>1. CASE Installed = NoDeployment
    BY <1>1 DEF FInit, AgentInit, AreaInv, LiveAreaVerified, CopyVerified, TransferInv, Prefix, NoXfer, NoFile
  <1>2. CASE Installed # NoDeployment
    <2>1. Running /\ Installed \in Deployments
      BY <1>2, DistributorAssumption DEF FInit
    <2>2. LiveAreaVerified
      BY <2>1 DEF Running, LiveAreaVerified
    <2>3. \A d \in Deployments : TransferInv(d)
      BY <2>1 DEF Running, TransferInv, FileBacked, Hashes, NoXfer, NoFile
    <2>4. CopyVerified
      BY <2>1 DEF Running, CopyVerified
    <2> QED BY <2>2, <2>3, <2>4 DEF AreaInv
  <1> QED BY <1>1, <1>2

\* Digest before activation, in the whole system and whatever was installed: chunks
\* that arrive twice, late, corrupted or from an earlier session never make a payload
\* that does not hash, nor a byte count that the staging file does not back.
THEOREM FabricAreaVerified == FSpec => [](LiveAreaVerified /\ TransferBacked)
  <1>1. BaseInv /\ AreaInv /\ [FNext]_fvars => AreaInv'
    BY BaseStep, AreaStep DEF BaseInv, AgentOK
  <1>2. AreaInv => LiveAreaVerified /\ TransferBacked
    BY DEF AreaInv, TransferInv, FileBacked, TransferBacked
  <1> QED
    BY <1>1, <1>2, AreaStart, FabricInvariant, PTL DEF FSpec

\* Pointer, payload, record and findings at the start.
LEMMA LiveStart ==
  ASSUME OneKey, FInit
  PROVE  LiveInv /\ LiveBehind
  <1>1. live = {d \in Deployments : current[d.key] = PairOf(d)}
    BY DEF FInit
  <1>2. LiveBehind
    BY <1>1 DEF LiveBehind
  <1>3. CASE Installed = NoDeployment
    <2>1. LiveInv
      BY <1>3 DEF FInit, AgentInit, LiveInv, FilesInv, RecordInv, FindingsInv, AckedIsLive, NoXfer,
             Unset, IsSet, Entries
    <2> QED BY <1>2, <2>1
  <1>4. CASE Installed # NoDeployment
    <2> DEFINE d == Installed
    <2>1. Running /\ d \in Deployments /\ d.key \in Keys /\ d.gen \in Nat
      BY <1>4, DistributorAssumption, DeploymentFields DEF FInit
    <2>2. \A k \in Keys : k = d.key
      BY <2>1 DEF OneKey
    <2>3. /\ pc = "serve" /\ acked = {} /\ committed = PairOf(d)
          /\ \A k \in Keys : current[k] = PairOf(d)
          /\ \A k \in Keys : payload[k] = {[gen |-> d.gen, digest |-> d.digest, ok |-> TRUE, age |-> 0]}
          /\ findings = <<[key |-> d.key, gen |-> d.gen, digest |-> d.digest]>>
          /\ \A e \in Deployments : xfer[e].staged => e = d
      BY <2>1, <2>2 DEF Running, NoXfer
    <2>4. PairOf(d).gen = d.gen /\ PairOf(d).digest = d.digest
      BY DEF PairOf
    <2>5. \A e \in Entries : e.key = d.key /\ e.gen = d.gen
      BY <2>3 DEF Entries
    <2> HIDE DEF d
    <2>6. \A k \in Keys : HasFile(k, d) /\ HasFile(k, PairOf(d))
      <3> DEFINE f == [gen |-> d.gen, digest |-> d.digest, ok |-> TRUE, age |-> 0]
      <3>1. f.gen = d.gen /\ f.digest = d.digest /\ \A k \in Keys : f \in payload[k]
        BY <2>3
      <3> HIDE DEF f
      <3> QED BY <2>4, <3>1 DEF HasFile, SameName
    <2>7. FilesInv
      BY <2>1, <2>3, <2>6 DEF FilesInv
    <2>8. RecordInv
      BY <2>1, <2>3, <2>4 DEF RecordInv
    <2>9. FindingsInv
      BY <2>1, <2>3, <2>4, <2>5 DEF FindingsInv
    <2> QED BY <1>2, <2>3, <2>7, <2>8, <2>9 DEF LiveInv, AckedIsLive
  <1> QED BY <1>3, <1>4

\* The pointer of the one key moves forward, or not at all.
LEMMA PointerForward ==
  ASSUME OneKey, BaseInv, LiveInv, FNext \/ UNCHANGED fvars, NEW k \in Keys
  PROVE  /\ current[k].gen \in Nat /\ current'[k].gen \in Nat
         /\ current'[k] = current[k] \/ current'[k].gen > current[k].gen
  <1>1. BaseInv'
    BY BaseStep
  <1>2. current[k].gen \in Nat /\ current'[k].gen \in Nat /\ current \in [Keys -> Pointer]
    BY <1>1, UnsetPointer DEF BaseInv, AgentOK, AgentTypeOK
  <1>3. CASE /\ Handle /\ req.kind = "ApplyCommit" /\ OnApplyCommit(Instruction)
             /\ CommitCode(Instruction) = "Ok" /\ req.dep \in Deployments
             /\ current' = [current EXCEPT ![req.dep.key] = Ptr(req.dep)]
    <2>1. req.dep.key = k
      BY <1>3, DeploymentFields DEF OneKey
    <2>2. pc = "serve" /\ req # NoReq
      BY <1>3 DEF Handle
    <2>3. Instruction \in Instructions /\ Instruction.dep = req.dep
      BY <1>3, <2>2, RequestFacts DEF BaseInv, WireOK
    <2>4. req.dep.gen > current[k].gen
      BY <1>3, <2>1, <2>2, <2>3, CommitFacts DEF BaseInv, AgentOK
    <2>5. current'[k].gen = req.dep.gen
      BY <1>2, <1>3, <2>1 DEF Ptr
    <2> QED BY <1>2, <2>4, <2>5
  <1> QED BY <1>2, <1>3, CurrentMoves

\* Every step keeps what runs in line with what was live.
LEMMA RunStep ==
  ASSUME OneKey, BaseInv, RunInv, RetentionSuffices, FNext \/ UNCHANGED fvars
  PROVE  RunInv'
  <1>1. [AgentNext]_agentVars
    BY BaseStep
  <1>2. AreaInv' /\ LiveInv'
    BY <1>1, AreaStep, LiveStep DEF BaseInv, AgentOK, RunInv
  <1>3. ASSUME NEW d \in live' PROVE d.gen < current'[d.key].gen \/ current'[d.key] = PairOf(d)
    <2>1. d \in live \/ current'[d.key] = PairOf(d)
      BY <1>3, EveryLive DEF Live
    <2>2. CASE d \in live
      <3>1. d \in Deployments /\ d.key \in Keys /\ d.gen \in Nat
        BY <2>2, DeploymentFields DEF BaseInv
      <3>2. /\ current[d.key].gen \in Nat /\ current'[d.key].gen \in Nat
            /\ current'[d.key] = current[d.key] \/ current'[d.key].gen > current[d.key].gen
        BY <3>1, PointerForward DEF RunInv
      <3>3. d.gen <= current[d.key].gen
        BY <2>2, <3>1, <3>2, PairFacts DEF RunInv, LiveBehind
      <3> QED BY <2>2, <3>1, <3>2, <3>3 DEF RunInv, LiveBehind
    <2> QED BY <2>1, <2>2
  <1> QED BY <1>2, <1>3 DEF RunInv, LiveBehind

\* The live area, the agent's records and the history of the pointer agree.
THEOREM RunningInLine ==
  ASSUME OneKey, (OneContent /\ CrashRoom) \/ Room
  PROVE  FSpec => []RunInv
  <1>1. FInit => RunInv
    BY AreaStart, LiveStart DEF RunInv
  <1>2. BaseInv /\ RunInv /\ RetentionSuffices /\ [FNext]_fvars => RunInv'
    BY RunStep
  <1>3. FSpec => []RetentionSuffices
    BY PruningIsHarmless
  <1> QED
    BY <1>1, <1>2, <1>3, FabricInvariant, PTL DEF FSpec

\* What the agent promises for any peer, it keeps for this one with no hypothesis on
\* what pruning removes but a bound on the crashes: the pointer never dangles, the record follows it,
\* acknowledgements are true, and the generation that runs only grows.
THEOREM TargetIsSound ==
  ASSUME OneKey, (OneContent /\ CrashRoom) \/ Room
  PROVE  FSpec => /\ [](PointerNamesPayload /\ RecordFollowsPointer /\ AckedIsLive)
                  /\ GenerationMonotone
  <1>1. RunInv => PointerNamesPayload /\ RecordFollowsPointer /\ AckedIsLive
    <2>1. RunInv => PointerNamesPayload
      BY DEF RunInv, AreaInv, LiveAreaVerified, LiveInv, FilesInv, HasFile, SameName, Intact, IsSet,
             PointerNamesPayload
    <2>2. RunInv => RecordFollowsPointer /\ AckedIsLive
      BY DEF RunInv, LiveInv, RecordInv, RecordFollowsPointer
    <2> QED BY <2>1, <2>2
  <1>2. BaseInv /\ RunInv /\ [FNext]_fvars =>
          [\A k \in Keys : current'[k] # current[k] => current'[k].gen > current[k].gen]_agentVars
    BY PointerForward DEF RunInv
  <1>3. FSpec => []RunInv
    BY RunningInLine
  <1> QED
    BY <1>1, <1>2, <1>3, FabricInvariant, PTL DEF FSpec, GenerationMonotone

\* The convergence report is true of the target: the lineage that is reported
\* converged is the one the live pointer names.  What was acknowledged has been live
\* and the pointer has not left it but for something newer, which no plan asks for.
THEOREM ConvergedAlwaysRuns ==
  ASSUME OneKey, (OneContent /\ CrashRoom) \/ Room
  PROVE  FSpec => []ConvergedIsRunning
  <1>1. BaseInv /\ HonestInv /\ PlanReaches /\ RunInv => ConvergedIsRunning
    <2> SUFFICES ASSUME BaseInv, HonestInv, PlanReaches, RunInv,
                        NEW d \in Known(rec), Converged(rec, d)
                 PROVE  current[d.key] = PairOf(Latest(rec, d))
      BY DEF ConvergedIsRunning
    <2> DEFINE top == Latest(rec, d)
    <2>1. /\ top \in Known(rec) \cap SameLineage(d)
          /\ \A e \in Known(rec) \cap SameLineage(d) : e.gen <= top.gen
      BY LatestTops DEF BaseInv
    <2>2. rec[top].state = "Acknowledged"
      BY DEF Converged
    <2> HIDE DEF top
    <2>3. top \in Deployments /\ top.key = d.key /\ d.key \in Keys /\ top.gen \in Nat
      BY <2>1, DeploymentFields DEF Known, SameLineage
    <2>4. top \in live
      <3>1. Backed(heard, rec[top], top) /\ heard.settled \subseteq heard.active
        BY <2>3 DEF BaseInv, DInv, RecordsOK, RestOK, HeardOK
      <3> QED BY <2>2, <3>1 DEF Backed, HonestInv
    <2>5. ASSUME top.gen < current[d.key].gen PROVE FALSE
      <3>1. current[d.key].gen \in Nat
        BY <2>3, UnsetPointer DEF BaseInv, AgentOK, AgentTypeOK
      <3>2. IsSet(current[d.key])
        BY <2>3, <2>5, <3>1 DEF IsSet
      <3>3. PICK e \in Known(rec) : e.gen >= current[d.key].gen
        BY <2>3, <3>2 DEF PlanReaches, Reached
      <3>4. e \in Deployments /\ e.gen \in Nat /\ e.key = d.key
        BY <2>3, <3>3, DeploymentFields DEF Known, OneKey
      <3>5. e \in Known(rec) \cap SameLineage(d)
        BY <3>3, <3>4 DEF SameLineage
      <3> QED BY <2>1, <2>3, <2>5, <3>1, <3>3, <3>4, <3>5
    <2>6. current[d.key] = PairOf(top)
      BY <2>3, <2>4, <2>5 DEF RunInv, LiveBehind
    <2> QED BY <2>6 DEF top
  <1>2. FSpec => []RunInv
    BY RunningInLine
  <1>3. FSpec => []HonestInv
    BY ClaimsAreHonest
  <1> QED
    BY <1>1, <1>2, <1>3, FabricInvariant, NothingBeyondThePlans, PTL
=============================================================================
