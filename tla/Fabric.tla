------------------------------- MODULE Fabric -------------------------------
(***************************************************************************)
(* The distributor and the target agent together: module Distributor with  *)
(* module Agent as its peer, joined by one TCP connection at a time.       *)
(*                                                                         *)
(*   link   none, open, or broken (the agent died, the distributor does    *)
(*          not know yet);                                                 *)
(*   req    the request the agent has not read yet.  It may outlive its    *)
(*          session: the agent reads what was sent before it sees the end  *)
(*          of the connection, or does not;                                *)
(*   out    the answer to the request whose handler is running;            *)
(*   inbox  the frames on their way to the distributor, in order.  A frame *)
(*          nobody asked for, or whose wait has timed out, stays there and *)
(*          is read as the answer to a later request.                      *)
(*                                                                         *)
(* The agent serves one connection at a time (TargetAgent::serve), so a    *)
(* new session waits until the request of the last one is handled or gone. *)
(***************************************************************************)
EXTENDS Distributor, Agent

VARIABLES
  link, req, out, inbox,
  live          \* history: the deployments that have been live

wire == <<link, req, out, inbox>>
fvars == <<vars, agentVars, wire, live>>

\* The agent has accepted what it runs.
ASSUME InstalledAssumption == Installed \in Deployments => Installed.size <= MaxArtifact

NoReq == [kind |-> "none", dep |-> NoDeployment, offset |-> 0]

-----------------------------------------------------------------------------
(* The wire, seen from the distributor.                                    *)

\* The request the distributor sends when it starts to wait at s.pc.
Ask(s) ==
  [kind |-> CASE s.pc = "helloAck"   -> "Hello"
              [] s.pc = "report"     -> "ReconcileRequest"
              [] s.pc = "abortAck"   -> "ApplyAbort"
              [] s.pc = "prepareAck" -> "Prepare"
              [] s.pc = "chunkAck"   -> "Chunk"
              [] s.pc = "result"     -> "TransferComplete"
              [] s.pc = "stageAck"   -> "Stage"
              [] s.pc = "windowAck"  -> "ApplyPrepare"
              [] s.pc = "commitAck"  -> "ApplyCommit",
   dep |-> IF s.pc = "abortAck" THEN s.report.window ELSE s.cur,
   offset |-> s.offset]

Asks == ses'.pc \in Receiving \ {"ack", ses.pc}

\* What a step of the distributor that leaves `rest` in the inbox does to the
\* wire: it sends its next request, or hangs up.
Wire(rest) ==
  /\ IF ses'.pc \in {"idle", "fail"}
     THEN link' = "none" /\ inbox' = <<>> /\ UNCHANGED req
     ELSE /\ req' = IF Asks /\ link = "open" THEN Ask(ses') ELSE req
          /\ inbox' = rest
          /\ UNCHANGED link
  /\ UNCHANGED <<agentVars, out, live>>

WorkerStep == SessionStep /\ Wire(inbox)

\* connectTcp succeeds once the agent can accept.
Dial ==
  /\ Connect
  /\ pc = "serve"
  /\ req = NoReq
  /\ link' = "open"
  /\ req' = Ask(ses')
  /\ UNCHANGED <<agentVars, out, inbox, live>>

DialFails ==
  /\ pc \notin HandlerSteps \cup {"serve"}
  /\ Unreachable
  /\ UNCHANGED faults
  /\ Wire(inbox)

Deliver ==
  /\ inbox # <<>>
  /\ Receive(Head(inbox))
  /\ Wire(Tail(inbox))

\* The end of a broken connection is seen once everything before it is read.
Lost ==
  /\ link = "broken"
  /\ inbox = <<>>
  /\ ConnectionLost
  /\ UNCHANGED faults
  /\ Wire(inbox)

\* A timeout, a reset, unreadable bytes, a contact that is no longer fresh.
Faulty == Fault /\ Wire(inbox)

OtherThread ==
  /\ LocalStep \/ Operation \/ ControlStep
  /\ UNCHANGED <<agentVars, wire, live>>

RestartDistributor == Restart /\ Wire(inbox)

-----------------------------------------------------------------------------
(* The wire, seen from the agent.                                          *)

Answered(frames) == IF link = "open" THEN inbox \o frames ELSE inbox

Instruction == [dep |-> req.dep, gen |-> req.dep.gen]

AckFrame(d) == [kind |-> "DeliveryAck", dep |-> d, keyed |-> TRUE, term |-> term]
KeylessAck(d) == [kind |-> "DeliveryAck", dep |-> d, keyed |-> FALSE, term |-> term]
NackFrame(keyed, stale) == [kind |-> "DeliveryNack", keyed |-> keyed, stale |-> stale]
Verdict(kind, code) == [kind |-> kind, ok |-> code = "Ok"]

PrepareAnswer(d) ==
  LET code == PrepareCode(d) IN
  CASE code = "Ok" -> [kind |-> "PrepareAck", dep |-> d, duplicate |-> FALSE,
                       bytes |-> ResumeFrom(d)]
    [] code = "DuplicateSuppressed" ->
         [kind |-> "PrepareAck", dep |-> d, duplicate |-> TRUE, bytes |-> d.size]
    [] code \in {"StaleGeneration", "GenerationConflict"} ->
         [kind |-> "PrepareReject", code |-> code]
    [] code = "Busy" -> [kind |-> "PrepareReject", code |-> "Retryable"]
    [] OTHER -> [kind |-> "PrepareReject", code |-> "Terminal"]

\* A chunk out of order is answered like an accepted one, with the count the
\* agent has.
ChunkAnswer(d, offset) ==
  LET code == ChunkCode(d, offset) IN
  [kind |-> "ChunkAck", dep |-> d,
   code |-> IF code \in {"Ok", "ReorderedFrame"} THEN "Ok" ELSE "Refused",
   bytes |-> IF code = "Ok" THEN offset + 1 ELSE xfer[d].bytes]

\* The result of a transfer; a digest that does not match is followed by a
\* nack that nobody waits for.
CompleteAnswer(d) ==
  LET code == CompleteCode(d)
      result == Verdict("TransferResult", code) IN
  IF code = "DigestMismatch" THEN <<result, NackFrame(TRUE, FALSE)>> ELSE <<result>>

\* The answer to a commit, then an acknowledgement or a nack.  Only the
\* acknowledgement of a commit that switched, and the nacks of a staged
\* deployment, carry the key.
CommitAnswer(m) ==
  LET code == CommitCode(m)
      staged == xfer[m.dep].open /\ xfer[m.dep].staged
      answer(ok, pair) == [kind |-> "ApplyCommitAck", ok |-> ok, pair |-> pair] IN
  CASE code = "Ok" -> <<answer(TRUE, PairOf(m.dep)), AckFrame(m.dep)>>
    [] code = "DuplicateSuppressed" -> <<answer(TRUE, committed), KeylessAck(m.dep)>>
    [] code = "StaleGeneration" -> <<answer(FALSE, committed), NackFrame(FALSE, TRUE)>>
    [] code = "GenerationConflict" -> <<answer(FALSE, committed), NackFrame(FALSE, FALSE)>>
    [] OTHER -> <<answer(FALSE, committed), NackFrame(staged, FALSE)>>

Report ==
  [kind |-> "Report", term |-> term, pair |-> committed,
   findings |-> {[gen |-> e.gen, digest |-> e.digest] : e \in Entries},
   window |-> prepared.dep]

Answer ==
  CASE req.kind = "Hello"            -> <<[kind |-> "HelloAck", term |-> term, pair |-> committed]>>
    [] req.kind = "ReconcileRequest" -> <<Report>>
    [] req.kind = "ApplyAbort"       -> <<[kind |-> "AbortAck"]>>
    [] req.kind = "Prepare"          -> <<PrepareAnswer(req.dep)>>
    [] req.kind = "Chunk"            -> <<ChunkAnswer(req.dep, req.offset)>>
    [] req.kind = "TransferComplete" -> CompleteAnswer(req.dep)
    [] req.kind = "Stage"            -> <<Verdict("StageAck", StageCode(Instruction))>>
    [] req.kind = "ApplyPrepare"     ->
         <<Verdict("ApplyPrepareAck", ApplyPrepareCode(Instruction))>>
    [] req.kind = "ApplyCommit"      -> CommitAnswer(Instruction)

\* dispatch(): the handler of the request at hand.  A chunk whose bytes are
\* not those of the digest uses up one of the faults.
Dispatch ==
  \/ req.kind \in {"Hello", "ReconcileRequest"} /\ UNCHANGED <<agentVars, faults>>
  \/ req.kind = "ApplyAbort" /\ OnApplyAbort(Instruction) /\ UNCHANGED faults
  \/ req.kind = "Prepare" /\ OnPrepare(req.dep) /\ UNCHANGED faults
  \/ req.kind = "Chunk" /\ OnChunk(req.dep, req.offset, TRUE) /\ UNCHANGED faults
  \/ /\ req.kind = "Chunk" /\ OnChunk(req.dep, req.offset, FALSE)
     /\ faults < MaxFaults /\ faults' = faults + 1
  \/ req.kind = "TransferComplete" /\ OnTransferComplete(req.dep) /\ UNCHANGED faults
  \/ req.kind = "Stage" /\ OnStage(Instruction) /\ UNCHANGED faults
  \/ req.kind = "ApplyPrepare" /\ OnApplyPrepare(Instruction) /\ UNCHANGED faults
  \/ req.kind = "ApplyCommit" /\ OnApplyCommit(Instruction) /\ UNCHANGED faults

Live == live' = live \cup {d \in Deployments : current'[d.key] = PairOf(d)}

\* The agent reads the request.  It answers when its handler returns.
Handle ==
  /\ pc = "serve"
  /\ req # NoReq
  /\ Dispatch
  /\ req' = NoReq
  /\ IF pc' = "serve" THEN inbox' = Answered(Answer) /\ UNCHANGED out
     ELSE out' = Answer /\ UNCHANGED inbox
  /\ Live
  /\ UNCHANGED <<store, ses, held, others, heard, ops, link>>

HandlerGoesOn ==
  /\ HandlerStep
  /\ IF pc' = "serve" THEN inbox' = Answered(out) /\ out' = <<>>
     ELSE UNCHANGED <<inbox, out>>
  /\ Live
  /\ UNCHANGED <<vars, link, req>>

\* The connection ends before the agent reads the request.
Drop ==
  /\ link = "none"
  /\ req # NoReq
  /\ req' = NoReq
  /\ UNCHANGED <<vars, agentVars, link, out, inbox, live>>

\* The agent dies; what it had sent arrives, or does not.
AgentCrash ==
  /\ Crash
  /\ req' = NoReq
  /\ out' = <<>>
  /\ inbox' \in {inbox, <<>>}
  /\ link' = IF link = "open" THEN "broken" ELSE link
  /\ UNCHANGED <<vars, live>>

AgentStarts ==
  /\ RecoveryStep
  /\ Live
  /\ UNCHANGED <<vars, wire>>

-----------------------------------------------------------------------------
\* The agent has activated the installed deployment and runs since.
Running ==
  LET d == Installed IN
  /\ term = 1
  /\ committed = PairOf(d)
  /\ prepared = NoWindow
  /\ xfer = [e \in Deployments |-> IF e = d
                THEN [open |-> TRUE, bytes |-> d.size, saved |-> d.size,
                      verified |-> TRUE, staged |-> TRUE] ELSE NoXfer]
  /\ findings = <<[key |-> d.key, gen |-> d.gen, digest |-> d.digest]>>
  /\ applyRollbacks = 0
  /\ staging = [e \in Deployments |-> IF e = d
                   THEN [here |-> TRUE, len |-> d.size, good |-> d.size] ELSE NoFile]
  /\ payload = [k \in Keys |-> IF k = d.key
                   THEN {[gen |-> d.gen, digest |-> d.digest, ok |-> TRUE, age |-> 0]} ELSE {}]
  /\ current = [k \in Keys |-> IF k = d.key THEN PairOf(d) ELSE Unset]
  /\ pending = [k \in Keys |-> FALSE]
  /\ pc = "serve"
  /\ job = NoDeployment
  /\ scan = {}
  /\ dir = NoKey
  /\ chunkCounter = 0
  /\ acked = {}

FInit ==
  /\ Init
  /\ IF Installed = NoDeployment THEN AgentInit ELSE Running
  /\ link = "none"
  /\ req = NoReq
  /\ out = <<>>
  /\ inbox = <<>>
  /\ live = {d \in Deployments : current[d.key] = PairOf(d)}

Worker == WorkerStep \/ Dial \/ DialFails \/ Deliver \/ Lost
AgentSteps == Handle \/ HandlerGoesOn \/ AgentStarts

FNext ==
  \/ Worker
  \/ AgentSteps
  \/ Drop
  \/ OtherThread
  \/ Faulty
  \/ AgentCrash
  \/ RestartDistributor

FSpec == FInit /\ [][FNext]_fvars

\* Every thread that can go on does, a closed connection is noticed, and a
\* backoff that keeps being asked about has elapsed once.
BackoffElapsed == DriveRead(TRUE, TRUE) /\ UNCHANGED faults /\ Wire(inbox)

FairSpec ==
  /\ FSpec
  /\ WF_fvars(Worker)
  /\ WF_fvars(AgentSteps)
  /\ WF_fvars(Drop)
  /\ WF_fvars((LocalStep \/ ControlStep) /\ UNCHANGED <<agentVars, wire, live>>)
  /\ SF_fvars(BackoffElapsed)

-----------------------------------------------------------------------------
(* Properties.                                                             *)

\* A record says Applied or Acknowledged only if the live pointer of the
\* target has named exactly that deployment.
ClaimedWasLive ==
  \A d \in Deployments : IsActivationState(rec[d].state) => d \in live

\* The convergence report is true of the target: a lineage that is reported
\* converged is the one the live pointer of its key names.
ConvergedIsRunning ==
  \A d \in Known(rec) : Converged(rec, d) => current[d.key] = PairOf(Latest(rec, d))

\* Every plan converges once the target is up and the faults have stopped: the
\* newest generation on record is acknowledged in the end, whatever was lost,
\* timed out, corrupted or interrupted by a crash of the agent on the way.
\* Only a restart of the distributor itself may leave it blocked, and then it
\* is reported as blocked (the retry budget is not re-armed if the process
\* dies after it has recorded the target's new boot term).
EveryPlanConverges ==
  \A d \in Deployments :
    rec[d].state # "None" ~>
      LineageClass(rec, tgt, d) \in IF epoch = 1 THEN {"converged"}
                                    ELSE {"converged", "blocked"}

\* A delivery that used up its attempts while the target has a boot term the
\* controller does not know yet gets new ones (rearmAfterRestart).  docs/ARCHITECTURE.md
\* says so of every observed restart; the code loses the re-arming if the
\* controller dies between the record of the term and that of the delivery.
RestartRearms ==
  \A d \in Deployments :
    rec[d].state = "Failed" /\ rec[d].failures >= MaxAttempts /\ tgt.term < term ~>
      ~(rec[d].state = "Failed" /\ rec[d].failures >= MaxAttempts)
=============================================================================
