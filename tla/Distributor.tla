---------------------------- MODULE Distributor ----------------------------
(***************************************************************************)
(* The distributor (src/src/distributor.cpp): the controller process that  *)
(* keeps a durable record of every delivery and of every target, and       *)
(* drives the deliveries of one target over sessions with its agent.       *)
(*                                                                         *)
(* Three kinds of threads work on the records, each under the state lock   *)
(* for one read or one commit at a time, so a thread may write back a copy *)
(* that is no longer current:                                              *)
(*   ses, held  the worker that has claimed the target and runs a session  *)
(*              with it; held is its copy of each record;                  *)
(*   loc        another worker that applies a local decision (pickWork     *)
(*              claims a target for its session only);                     *)
(*   ctl        the control thread: submit, retire, verify.                *)
(* A commit is one durable step.  recordRejected, recordRetired and        *)
(* acknowledge commit the record twice; the second one is "rewrite".       *)
(*                                                                         *)
(* The target is not part of this module: an action On...(m) is the        *)
(* receipt of a frame m.  The peer of Spec may answer anything; module     *)
(* Fabric puts the agent there.                                            *)
(*                                                                         *)
(* Time: whether a backoff has elapsed, and whether contact is still       *)
(* fresh, is chosen at each decision, except that no backoff elapses       *)
(* inside the loop of driveDelivery that charged the failure               *)
(* (retryBackoffMillis is taken to be positive; its default is 200), so a  *)
(* session offers a delivery once.                                         *)
(* The journal and the artifact store keep what was committed to them      *)
(* (modules DurableStore and ArtifactStore).                               *)
(***************************************************************************)
EXTENDS Convergence, Reconciliation, ArtifactReader, FiniteSets

CONSTANTS
  Declared,          \* the guarantee the plans declare for it: TRUE is atomic
  MaxSessionErrors,  \* kMaxSessionErrors
  Installed,         \* the deployment that was delivered before, or NoDeployment
  MaxHistory,        \* policy.maxHistoryPerLineage
  Replies,           \* the frames the peer may answer with
  MaxEpoch,          \* bound: starts of the distributor
  MaxFaults,         \* bound: lost connections, timeouts, unreadable bytes
  Operations,        \* the requests made of the control thread: <<request, deployment>>
  MaxOps             \* bound: control operations

PairOfAny == [gen : Nat, digest : Digests \cup {NoDigest}]

(* The frames that the decoders of src/src/protocol.cpp let through, with  *)
(* the fields the distributor looks at.  "Other" is a frame that cannot be *)
(* decoded, or is of a type nobody waits for.                              *)

\* The unset term 0 is refused in both.
HelloAcks == [kind : {"HelloAck"}, term : Nat \ {0}, pair : PairOfAny]
Reports ==
  [kind : {"Report"}, term : Nat \ {0}, pair : PairOfAny, findings : SUBSET PairOfAny,
   window : Deployments \cup {NoDeployment}]

\* The codes of a refusal, by what offerAndTransfer does with them.
PrepareAnswers ==
  [kind : {"PrepareAck"}, dep : Deployments, duplicate : BOOLEAN, bytes : Nat]
    \cup [kind : {"PrepareReject"},
          code : {"Terminal", "GenerationConflict", "StaleGeneration", "Retryable"}]
TransferAnswers ==
  [kind : {"ChunkAck"}, dep : Deployments, code : {"Ok", "Refused"}, bytes : Nat]
    \cup [kind : {"TransferResult"}, ok : BOOLEAN]
ApplyAnswers ==
  [kind : {"StageAck", "ApplyPrepareAck"}, ok : BOOLEAN]
    \cup [kind : {"ApplyCommitAck"}, ok : BOOLEAN, pair : PairOfAny]
    \cup [kind : {"AbortAck"}]

\* Both decoders refuse a frame without a key: keyed is FALSE for such a frame.
Acknowledgements ==
  [kind : {"DeliveryAck"}, dep : Deployments, keyed : BOOLEAN, term : Nat \ {0}]
    \cup [kind : {"DeliveryNack"}, keyed : BOOLEAN, stale : BOOLEAN]

Frames ==
  HelloAcks \cup Reports \cup PrepareAnswers \cup TransferAnswers \cup ApplyAnswers
    \cup Acknowledgements \cup [kind : {"Other"}]

ASSUME DistributorAssumption ==
  /\ NoDeployment \notin Deployments
  /\ Rank \in [Deployments -> Nat]
  /\ \A d, e \in Deployments : Rank[d] = Rank[e] => d = e
  /\ \A d \in Deployments : /\ d.gen \in Nat \ {0}
                            /\ d.digest \in Digests
                            /\ d.size \in Nat \ {0}
                            /\ d.strict \in BOOLEAN
  /\ NoDigest \notin Digests
  /\ Installed \in Deployments \cup {NoDeployment}
  /\ Atomic \in BOOLEAN /\ Declared \in BOOLEAN
  /\ MaxAttempts \in Nat \ {0} /\ MaxHistory \in Nat \ {0}  \* DistributionPolicy::validate
  /\ Replies \subseteq Frames

VARIABLES
  rec,      \* state.deliveries
  tgt,      \* state.targets: the record of the target
  stored,   \* digests in the artifact store
  listed,   \* state.artifacts
  epoch,
  ses,      \* the session and how far its worker is
  held,     \* the worker's copies of delivery records
  loc,      \* a worker applying a local decision
  ctl,      \* the control thread
  verify,   \* verificationRequests_
  heard,    \* history: what the target has said is active
  faults,
  ops

store == <<rec, tgt, stored, listed, epoch>>
others == <<loc, ctl, verify>>
counters == <<faults, ops>>
vars == <<store, ses, held, others, heard, counters>>

-----------------------------------------------------------------------------
Absent == [state |-> "None", failures |-> 0]
NoCopies == [d \in Deployments |-> Absent]
NoReport == [kind |-> "Report", term |-> 0, pair |-> Unset, findings |-> {},
             window |-> NoDeployment]
NoTarget == [known |-> FALSE, atomic |-> Declared, term |-> 0, pair |-> Unset,
             window |-> FALSE, contact |-> FALSE]
Idle == [pc |-> "idle", term |-> 0, todo |-> {}, cur |-> NoDeployment,
         report |-> NoReport, offset |-> 0, reader |-> NewReader, errs |-> 0,
         again |-> FALSE, after |-> "done"]
NoLocal == [step |-> "idle", dep |-> NoDeployment, copy |-> Absent]
NoControl == [step |-> "idle", dep |-> NoDeployment, todo |-> {},
              copies |-> NoCopies, target |-> NoTarget]

First(S) == CHOOSE d \in S : \A e \in S : e = d \/ Before(d, e)
FirstId(S) == CHOOSE d \in S : \A e \in S : Rank[d] <= Rank[e]

Copies(S) == [d \in Deployments |-> IF d \in S THEN rec[d] ELSE Absent]

\* Mutant: the failure is counted twice.
ChargedTwice(r) == [state |-> "Failed", failures |-> r.failures + 2]

\* recordFailure: the failure counter (up to where it is compared).
Charged(r) == [state |-> "Failed",
               failures |-> IF r.failures < MaxAttempts THEN r.failures + 1
                            ELSE r.failures]
MayFail(r) == r.state = "Failed" \/ IsLegalTransition(r.state, "Failed")

Decision(d, r, elapsed, fresh) ==
  Decide(DecisionInput(rec, tgt, listed, d, r, elapsed, fresh))

-----------------------------------------------------------------------------
(* The session worker: how it goes on.                                     *)

\* recordSessionFailure: every pending delivery of the target, as it is now,
\* is charged.
FailSession ==
  /\ ses' = [Idle EXCEPT !.pc = "fail", !.todo = Pending(rec)]
  /\ held' = Copies(Pending(rec))

EndSession ==
  /\ ses' = Idle
  /\ held' = NoCopies

\* driveDelivery has returned; the next delivery is driven.
NextDelivery(errs) ==
  /\ ses' = [ses EXCEPT !.pc = "drive", !.todo = @ \ {ses.cur},
                        !.cur = NoDeployment, !.offset = 0,
                        !.reader = NewReader, !.errs = errs, !.again = FALSE,
                        !.after = "done"]
  /\ held' = [held EXCEPT ![ses.cur] = Absent]

\* driveDelivery has returned an error that is not the connection's.
DriveError == IF ses.errs + 1 >= MaxSessionErrors THEN EndSession
              ELSE NextDelivery(ses.errs + 1)

\* A step of driveDelivery has returned: "done" leaves driveDelivery, "loop"
\* takes its next turn, "apply" is the loop of applyReconcileReport.
Return(after) ==
  \/ after = "done" /\ NextDelivery(ses.errs)
  \/ /\ after = "loop"
     /\ ses' = [ses EXCEPT !.pc = "drive", !.cur = NoDeployment, !.offset = 0,
                           !.reader = NewReader, !.again = TRUE, !.after = "done"]
     /\ held' = [held EXCEPT ![ses.cur] = Absent]
  \/ /\ after = "apply"
     /\ ses' = [ses EXCEPT !.pc = "apply", !.todo = @ \ {ses.cur},
                           !.cur = NoDeployment, !.after = "done"]
     /\ held' = [held EXCEPT ![ses.cur] = Absent]

Error(after) == IF after = "apply" THEN FailSession ELSE DriveError

\* The worker commits r as the record of the delivery it works on.
Commit(r) == rec' = [rec EXCEPT ![ses.cur] = r]

\* recordTransition on the worker's own copy, and the step after it.
Transition(to, pc, after) ==
  LET r == [held[ses.cur] EXCEPT !.state = to] IN
  IF IsLegalTransition(held[ses.cur].state, to)
  THEN /\ Commit(r)
       /\ held' = [held EXCEPT ![ses.cur] = r]
       /\ ses' = [ses EXCEPT !.pc = pc, !.after = after]
  ELSE Error(after) /\ UNCHANGED rec

RecordRejected(after) ==
  IF held[ses.cur].state = "Rejected"
  THEN Commit(held[ses.cur]) /\ Return(after)
  ELSE Transition("Rejected", "rewrite", after)

RecordRetired(after) ==
  IF held[ses.cur].state = "Retired" THEN Return(after) /\ UNCHANGED rec
  ELSE Transition("Retired", "rewrite", after)

RecordFailure(after) ==
  IF MayFail(held[ses.cur])
  THEN Commit(Charged(held[ses.cur])) /\ Return(after)
  ELSE Error(after) /\ UNCHANGED rec

\* adoptActivation, first half: the record becomes Applied.
Adopt(after) ==
  IF IsActivationState(held[ses.cur].state)
  THEN /\ ses' = [ses EXCEPT !.pc = "adopt", !.after = after]
       /\ UNCHANGED <<rec, held>>
  ELSE Transition("Applied", "adopt", after)

-----------------------------------------------------------------------------
(* The session worker: from picking the target to the report.              *)

\* What no step of the session worker touches.
aside == <<stored, listed, epoch, loc, ctl, ops>>

\* pickWork: some pending delivery needs a session; one whose budget is
\* exhausted asks for a slow probe.
PickWork(d, elapsed) ==
  /\ ses.pc = "idle"
  /\ IsPendingState(rec[d].state)
  /\ Decision(d, rec[d], elapsed, TRUE) \in {"Offer", "Activate", "Reconcile", "GiveUp"}
  /\ ses' = [Idle EXCEPT !.pc = "dial"]
  /\ UNCHANGED <<rec, tgt, held, verify, heard, faults, aside>>

PickVerification ==
  /\ ses.pc = "idle"
  /\ verify
  /\ verify' = FALSE
  /\ ses' = [Idle EXCEPT !.pc = "dial"]
  /\ UNCHANGED <<rec, tgt, held, heard, faults, aside>>

\* The connection is there and Hello is sent.
Connect ==
  /\ ses.pc = "dial"
  /\ ses' = [ses EXCEPT !.pc = "helloAck"]
  /\ UNCHANGED <<rec, tgt, held, verify, heard, faults, aside>>

Unreachable ==
  /\ ses.pc = "dial"
  /\ FailSession
  /\ UNCHANGED <<rec, tgt, verify, heard, aside>>

\* recordSessionFailure, one delivery at a time, from the copies; one that the
\* table does not let fail is only logged ...
SessionFailureOne ==
  LET d == FirstId(ses.todo) IN
  /\ ses.pc = "fail"
  /\ ses.todo # {}
  /\ rec' = IF MayFail(held[d]) THEN [rec EXCEPT ![d] = Charged(held[d])] ELSE rec
  /\ ses' = [ses EXCEPT !.todo = @ \ {d}]
  /\ held' = [held EXCEPT ![d] = Absent]
  /\ UNCHANGED <<tgt, verify, heard, faults, aside>>

\* ... and then the contact evidence is no longer current.
SessionFailureDone ==
  /\ ses.pc = "fail"
  /\ ses.todo = {}
  /\ tgt' = [tgt EXCEPT !.contact = FALSE]
  /\ EndSession
  /\ UNCHANGED <<rec, verify, heard, faults, aside>>

\* handshake: an older boot term is fenced; an accepted one is recorded with
\* the committed pair, and a newer one re-arms the failed deliveries.
OnHello(m) ==
  LET failed == {d \in Deployments : rec[d].state = "Failed"}
      restarted == tgt.term # 0 /\ m.term > tgt.term /\ failed # {} IN
  /\ ses.pc = "helloAck"
  /\ IF m.kind # "HelloAck" \/ m.term < tgt.term
     THEN FailSession /\ UNCHANGED tgt
     ELSE /\ tgt' = [tgt EXCEPT !.known = TRUE, !.atomic = Atomic, !.term = m.term,
                                !.pair = m.pair, !.contact = TRUE]
          /\ ses' = [ses EXCEPT !.term = m.term,
                                !.pc = IF restarted THEN "rearm" ELSE "report",
                                !.todo = IF restarted THEN failed ELSE {}]
          /\ held' = IF restarted THEN Copies(failed) ELSE NoCopies
  /\ UNCHANGED <<rec, verify, faults, aside>>

\* Mutant: the budget is not reset.
RearmNothing ==
  LET d == FirstId(ses.todo) IN
  /\ ses.pc = "rearm"
  /\ rec' = [rec EXCEPT ![d] = held[d]]
  /\ ses' = [ses EXCEPT !.todo = @ \ {d},
                        !.pc = IF ses.todo = {d} THEN "report" ELSE "rearm"]
  /\ held' = [held EXCEPT ![d] = Absent]
  /\ UNCHANGED <<tgt, verify, heard, faults, aside>>

\* rearmAfterRestart, one delivery at a time, from the copies; then the
\* reconcile request is sent.
RearmOne ==
  LET d == FirstId(ses.todo) IN
  /\ ses.pc = "rearm"
  /\ rec' = [rec EXCEPT ![d] = [held[d] EXCEPT !.failures = 0]]
  /\ ses' = [ses EXCEPT !.todo = @ \ {d},
                        !.pc = IF ses.todo = {d} THEN "report" ELSE "rearm"]
  /\ held' = [held EXCEPT ![d] = Absent]
  /\ UNCHANGED <<tgt, verify, heard, faults, aside>>

\* reconcile: a report under the session's own authority is recorded.
OnReport(m) ==
  /\ ses.pc = "report"
  /\ IF m.kind # "Report" \/ m.term # ses.term
     THEN FailSession /\ UNCHANGED tgt
     ELSE /\ tgt' = [tgt EXCEPT !.known = TRUE, !.atomic = Atomic, !.term = m.term,
                                !.pair = m.pair, !.contact = TRUE,
                                !.window = m.window # NoDeployment]
          /\ ses' = [ses EXCEPT !.pc = "apply", !.report = m, !.todo = Pending(rec)]
          /\ held' = Copies(Pending(rec))
  /\ UNCHANGED <<rec, verify, faults, aside>>

\* applyReconcileReport, one delivery at a time, oldest first.  A change that
\* the table refuses ends it, as an error of the session.
ApplyReport ==
  LET d == First(ses.todo)
      outcome == ReconcileDelivery(ses.report, ses.term, d, NoDeployment)
      from == held[d]
      moved(s) == [from EXCEPT !.state = s]
      legal == IF outcome = "RetireStale" THEN IsLegalTransition(from.state, "Retired")
               ELSE from.state = "Applied" \/ IsLegalTransition(from.state, "Applied") IN
  /\ ses.pc = "apply"
  /\ ses.todo # {}
  /\ IF outcome \in {"RetireStale", "AdoptActivation"} /\ ~legal
     THEN FailSession /\ UNCHANGED rec
     ELSE \/ /\ outcome = "ResolvePrepareWindow"
             /\ ses' = [ses EXCEPT !.cur = d, !.pc = "abortAck"]
             /\ UNCHANGED <<rec, held>>
          \/ /\ outcome = "RetireStale"
             /\ rec' = [rec EXCEPT ![d] = moved("Retired")]
             /\ held' = [held EXCEPT ![d] = moved("Retired")]
             /\ ses' = [ses EXCEPT !.cur = d, !.pc = "rewrite", !.after = "apply"]
          \/ /\ outcome = "AdoptActivation"
             /\ rec' = IF from.state = "Applied" THEN rec
                       ELSE [rec EXCEPT ![d] = moved("Applied")]
             /\ held' = [held EXCEPT ![d] = moved("Applied")]
             /\ ses' = [ses EXCEPT !.cur = d, !.pc = "adopt", !.after = "apply"]
          \/ /\ outcome = "Drive"
             /\ ses' = [ses EXCEPT !.todo = @ \ {d}]
             /\ held' = [held EXCEPT ![d] = Absent]
             /\ UNCHANGED rec
  /\ UNCHANGED <<tgt, verify, heard, faults, aside>>

\* The answer to an abort; whether it was aborted makes no difference.
OnAbortAck(m) ==
  /\ ses.pc = "abortAck"
  /\ IF m.kind = "AbortAck" THEN Return("apply") ELSE FailSession
  /\ UNCHANGED <<rec, tgt, verify, faults, aside>>

\* The report is applied: driveDeliveries takes the pending deliveries.
ApplyDone ==
  /\ ses.pc = "apply"
  /\ ses.todo = {}
  /\ ses' = [ses EXCEPT !.pc = "drive", !.todo = Pending(rec), !.report = NoReport]
  /\ held' = NoCopies
  /\ UNCHANGED <<rec, tgt, verify, heard, faults, aside>>

-----------------------------------------------------------------------------
(* The session worker: recording evidence.                                 *)

\* adoptActivation, second half: the target record takes over the pair
\* unless it has a newer generation; then the record is read again.
AdoptTarget ==
  /\ ses.pc = "adopt"
  /\ tgt' = IF ~tgt.known \/ tgt.pair.gen > ses.cur.gen THEN tgt
            ELSE [tgt EXCEPT !.pair = PairOf(ses.cur)]
  /\ held' = [held EXCEPT ![ses.cur] = rec[ses.cur]]
  /\ ses' = [ses EXCEPT !.pc = IF ses.after = "ack" THEN "ack" ELSE "acknowledge",
                        !.after = IF ses.after = "ack" THEN "loop" ELSE @]
  /\ UNCHANGED <<rec, verify, heard, faults, aside>>

Acknowledge ==
  /\ ses.pc = "acknowledge"
  /\ IF held[ses.cur].state = "Acknowledged"
     THEN Return(ses.after) /\ UNCHANGED rec
     ELSE Transition("Acknowledged", "rewrite", ses.after)
  /\ UNCHANGED <<tgt, verify, heard, faults, aside>>

\* The second commit of the same copy.
Rewrite ==
  /\ ses.pc = "rewrite"
  /\ Commit(held[ses.cur])
  /\ Return(ses.after)
  /\ UNCHANGED <<tgt, verify, heard, faults, aside>>

-----------------------------------------------------------------------------
(* The session worker: driving one delivery.                               *)

\* activateDelivery: stage, then the window if the guarantee asks for one,
\* then the commit.
ActivationStep(state) ==
  IF state = "Verified" THEN "stageAck" ELSE IF Declared THEN "commitAck" ELSE "windowAck"

\* One turn of driveDelivery: read the record, decide.
DriveRead(elapsed, fresh) ==
  LET d == First(ses.todo)
      action == Decision(d, rec[d], elapsed, fresh) IN
  /\ ses.pc = "drive"
  /\ ses.todo # {}
  /\ ses.again => ~elapsed
  /\ IF \/ rec[d].state = "None"
        \/ action \in {"None", "Wait", "Reconcile"}
        \/ action = "GiveUp" /\ rec[d].state = "Failed"
     THEN /\ ses' = [ses EXCEPT !.todo = @ \ {d}, !.again = FALSE]
          /\ UNCHANGED held
     ELSE /\ ses' = [ses EXCEPT !.cur = d, !.after = "loop",
                                !.pc = IF action = "Activate" THEN ActivationStep(rec[d].state)
                                       ELSE action]
          /\ held' = [held EXCEPT ![d] = rec[d]]
  /\ UNCHANGED <<rec, tgt, verify, heard, aside>>

DriveDone ==
  /\ ses.pc = "drive"
  /\ ses.todo = {}
  /\ EndSession
  /\ UNCHANGED <<rec, tgt, verify, heard, faults, aside>>

\* The decisions that only change the record.
DriveLocal ==
  /\ \/ ses.pc = "Reject" /\ RecordRejected("done")
     \/ ses.pc = "Retire" /\ RecordRetired("done")
     \/ ses.pc = "RecordFailureAndRetry" /\ RecordFailure("done")
     \/ ses.pc = "GiveUp" /\ Transition("Failed", "rewrite", "done")
  /\ UNCHANGED <<tgt, verify, heard, faults, aside>>

\* A retry re-enters the pipeline at its first boundary ...
Retry ==
  /\ ses.pc = "Offer"
  /\ held[ses.cur].state = "Failed"
  /\ Transition("Prepared", "Offer", "loop")
  /\ UNCHANGED <<tgt, verify, heard, faults, aside>>

\* ... and the artifact is offered.
SendPrepare ==
  /\ ses.pc = "Offer"
  /\ held[ses.cur].state # "Failed"
  /\ IF held[ses.cur].state = "Prepared"
     THEN Transition("Offered", "prepareAck", "loop")
     ELSE /\ ses' = [ses EXCEPT !.pc = "prepareAck", !.after = "loop"]
          /\ UNCHANGED <<rec, held>>
  /\ UNCHANGED <<tgt, verify, heard, faults, aside>>

\* A DeliveryNack without a key cannot be decoded.
OnNack(m) == IF m.keyed THEN RecordFailure("loop") ELSE DriveError /\ UNCHANGED rec

\* Mutant: a transfer that is complete counts as a suppressed duplicate.
OnPrepareAckComplete(m) ==
  \/ m.dep # ses.cur /\ DriveError /\ UNCHANGED rec
  \/ m.dep = ses.cur /\ m.bytes = ses.cur.size /\ Adopt("loop")
  \/ /\ m.dep = ses.cur
     /\ m.bytes < ses.cur.size
     /\ ses' = [ses EXCEPT !.pc = "chunk", !.offset = m.bytes]
     /\ UNCHANGED <<rec, held>>

\* A prepare acknowledgement for this deployment: a suppressed duplicate is
\* evidence of activation; otherwise the stored artifact is opened and the
\* transfer starts where the target says.
OnPrepareAck(m) ==
  \/ /\ m.dep # ses.cur
     /\ DriveError
     /\ UNCHANGED rec
  \/ /\ m.dep = ses.cur
     /\ m.duplicate
     /\ Adopt("loop")
  \/ /\ m.dep = ses.cur
     /\ ~m.duplicate
     /\ IF ses.cur.digest \notin stored THEN RecordFailure("loop")
        ELSE /\ ses' = [ses EXCEPT !.pc = "chunk", !.offset = m.bytes]
             /\ rec' = IF m.bytes = 0 THEN rec
                       ELSE [rec EXCEPT ![ses.cur] = held[ses.cur]]
             /\ UNCHANGED held

\* A refusal is taken for this delivery's whatever deployment it names.
OnPrepareReject(m) ==
  \/ m.code \in {"Terminal", "GenerationConflict"} /\ RecordRejected("loop")
  \/ m.code = "StaleGeneration" /\ RecordRetired("loop")
  \/ m.code = "Retryable" /\ RecordFailure("loop")

OnPrepareReply(m) ==
  /\ ses.pc = "prepareAck"
  /\ \/ m.kind = "PrepareAck" /\ OnPrepareAck(m)
     \/ m.kind = "PrepareReject" /\ OnPrepareReject(m)
     \/ m.kind = "DeliveryNack" /\ OnNack(m)
     \/ /\ m.kind \notin {"PrepareAck", "PrepareReject", "DeliveryNack"}
        /\ DriveError
        /\ UNCHANGED rec
  /\ UNCHANGED <<tgt, verify, faults, aside>>

\* A chunk is read from the stored artifact and sent.
SendChunk ==
  /\ ses.pc = "chunk"
  /\ ses.offset < ses.cur.size
  /\ ~DigestFails(ses.reader, ses.offset, 1, ses.cur.size, TRUE)
  /\ ses' = [ses EXCEPT !.pc = "chunkAck", !.reader = AfterRead(@, ses.offset, 1)]
  /\ UNCHANGED <<rec, tgt, held, verify, heard, faults, aside>>

\* The reader takes an intact artifact for a damaged one: the transfer did not
\* start at its first byte, or went back.
DigestMismatch ==
  /\ ses.pc = "chunk"
  /\ ses.offset < ses.cur.size
  /\ DigestFails(ses.reader, ses.offset, 1, ses.cur.size, TRUE)
  /\ RecordFailure("loop")
  /\ UNCHANGED <<tgt, verify, heard, faults, aside>>

\* The stored bytes cannot be read, or are damaged.
ReadFails ==
  /\ ses.pc = "chunk"
  /\ ses.offset < ses.cur.size
  /\ RecordFailure("loop")
  /\ UNCHANGED <<tgt, verify, heard, aside>>

\* The target's byte count decides where the transfer goes on.
OnChunkReply(m) ==
  /\ ses.pc = "chunkAck"
  /\ \/ m.kind = "DeliveryNack" /\ OnNack(m)
     \/ /\ m.kind = "ChunkAck" /\ m.dep = ses.cur
        /\ IF m.code = "Refused" \/ m.bytes = ses.offset THEN RecordFailure("loop")
           ELSE /\ ses' = [ses EXCEPT !.pc = "chunk", !.offset = m.bytes]
                /\ UNCHANGED <<rec, held>>
     \/ /\ m.kind # "DeliveryNack"
        /\ ~(m.kind = "ChunkAck" /\ m.dep = ses.cur)
        /\ DriveError
        /\ UNCHANGED rec
  /\ UNCHANGED <<tgt, verify, faults, aside>>

SendComplete ==
  /\ ses.pc = "chunk"
  /\ ses.offset >= ses.cur.size
  /\ IF held[ses.cur].state \in {"Offered", "Prepared"}
     THEN Transition("Transferred", "result", "loop")
     ELSE /\ ses' = [ses EXCEPT !.pc = "result"]
          /\ UNCHANGED <<rec, held>>
  /\ UNCHANGED <<tgt, verify, heard, faults, aside>>

\* An answer with a verdict on the request at hand (transfer result, stage
\* and apply-prepare acknowledgement): no deployment is compared.
OnVerdict(m, pc, kind, to, next) ==
  /\ ses.pc = pc
  /\ \/ /\ m.kind = kind /\ m.ok
        /\ IF to = held[ses.cur].state
           THEN /\ Commit(held[ses.cur])
                /\ ses' = [ses EXCEPT !.pc = next]
                /\ UNCHANGED held
           ELSE Transition(to, next, "loop")
     \/ /\ m.kind = kind /\ ~m.ok
        /\ RecordFailure("loop")
     \/ m.kind = "DeliveryNack" /\ OnNack(m)
     \/ /\ m.kind \notin {kind, "DeliveryNack"}
        /\ DriveError
        /\ UNCHANGED rec
  /\ UNCHANGED <<tgt, verify, faults, aside>>

OnTransferResult(m) ==
  OnVerdict(m, "result", "TransferResult", "Verified", ActivationStep("Verified"))

OnStageAck(m) == OnVerdict(m, "stageAck", "StageAck", "Staged", ActivationStep("Staged"))

\* The window is noted on the record, whose state does not change.
OnApplyPrepareAck(m) ==
  OnVerdict(m, "windowAck", "ApplyPrepareAck", held[ses.cur].state, "commitAck")

\* A commit counts when the pair the target committed is the one asked for.
OnCommitAck(m) ==
  /\ ses.pc = "commitAck"
  /\ \/ /\ m.kind = "ApplyCommitAck" /\ m.ok /\ m.pair = PairOf(ses.cur)
        /\ Adopt("ack")
     \/ /\ m.kind = "ApplyCommitAck" /\ ~(m.ok /\ m.pair = PairOf(ses.cur))
        /\ RecordFailure("loop")
     \/ /\ m.kind = "DeliveryNack"
        /\ IF m.keyed /\ m.stale THEN RecordRetired("loop") ELSE OnNack(m)
     \/ /\ m.kind \notin {"ApplyCommitAck", "DeliveryNack"}
        /\ DriveError
        /\ UNCHANGED rec
  /\ UNCHANGED <<tgt, verify, faults, aside>>

\* Mutant: the acknowledgement of any deployment will do.
OwnAckAny(m) == m.keyed /\ held[ses.cur].state # "None" /\ m.term = ses.term

\* The acknowledgement of exactly this deployment under current authority.
OwnAck(m) == m.keyed /\ m.dep = ses.cur /\ held[ses.cur].state # "None" /\ m.term = ses.term

\* awaitAcknowledgement.
OnAck(m) ==
  /\ ses.pc = "ack"
  /\ \/ /\ m.kind = "DeliveryAck" /\ OwnAck(m)
        /\ Adopt("loop")
     \/ m.kind = "DeliveryNack" /\ OnNack(m)
     \/ /\ m.kind # "DeliveryNack" /\ ~(m.kind = "DeliveryAck" /\ OwnAck(m))
        /\ DriveError
        /\ UNCHANGED rec
  /\ UNCHANGED <<tgt, verify, faults, aside>>

Receiving == {"helloAck", "report", "abortAck", "prepareAck", "chunkAck", "result",
              "stageAck", "windowAck", "commitAck", "ack"}
Sending == {"Offer", "chunk"}

\* The connection is gone or a wait has timed out.  Up to the report this
\* fails the session; later it only ends it, and a missing acknowledgement
\* leaves the delivery Applied and goes on with the next one.
ConnectionLost ==
  /\ ses.pc \in Receiving \cup Sending
  /\ IF ses.pc \in {"helloAck", "report", "abortAck"} THEN FailSession
     ELSE IF ses.pc = "ack" THEN Return("loop") \/ EndSession
     ELSE EndSession
  /\ UNCHANGED <<rec, tgt, verify, heard, aside>>

-----------------------------------------------------------------------------
(* Another worker: a decision that needs no session.                       *)

LocalActions == {"Reject", "Retire", "RecordFailureAndRetry"}

\* pickWork finds the delivery, applyLocalDecision reads its record ...
LocalRead(d) ==
  /\ loc.step = "idle"
  /\ IsPendingState(rec[d].state)
  /\ Decision(d, rec[d], FALSE, TRUE) \in LocalActions
  /\ loc' = [step |-> "write", dep |-> d, copy |-> rec[d]]
  /\ UNCHANGED <<store, ses, held, ctl, verify, heard, counters>>

\* ... decides again, and commits the changed copy, ...
LocalWrite ==
  LET action == Decision(loc.dep, loc.copy, FALSE, TRUE)
      to == IF action = "Reject" THEN "Rejected" ELSE "Retired"
      moved == IF action = "RecordFailureAndRetry" THEN Charged(loc.copy)
               ELSE [loc.copy EXCEPT !.state = to]
      legal == action = "RecordFailureAndRetry" \/ IsLegalTransition(loc.copy.state, to) IN
  /\ loc.step = "write"
  /\ IF action \in LocalActions /\ legal
     THEN /\ rec' = [rec EXCEPT ![loc.dep] = moved]
          /\ loc' = IF action = "RecordFailureAndRetry" THEN NoLocal
                    ELSE [loc EXCEPT !.step = "rewrite", !.copy = moved]
     ELSE loc' = NoLocal /\ UNCHANGED rec
  /\ UNCHANGED <<tgt, stored, listed, epoch, ses, held, ctl, verify, heard, counters>>

\* ... twice if it rejects or retires.
LocalRewrite ==
  /\ loc.step = "rewrite"
  /\ rec' = [rec EXCEPT ![loc.dep] = loc.copy]
  /\ loc' = NoLocal
  /\ UNCHANGED <<tgt, stored, listed, epoch, ses, held, ctl, verify, heard, counters>>

-----------------------------------------------------------------------------
(* The control thread.                                                     *)

\* What no step of the control thread touches, besides stored and listed.
away == <<epoch, ses, held, loc, heard, faults>>

\* submitPlan, for one instruction: the bytes go into the artifact store
\* unless they are there; a source that is missing or has other content is
\* only logged.
Submit(d, good) ==
  /\ ctl.step = "idle"
  /\ ops < MaxOps
  /\ ops' = ops + 1
  /\ stored' = IF good THEN stored \cup {d.digest} ELSE stored
  /\ ctl' = [NoControl EXCEPT !.dep = d,
                              !.step = IF good /\ d.digest \notin stored THEN "list" ELSE "read"]
  /\ UNCHANGED <<rec, tgt, listed, verify, away>>

\* ingestArtifact: the ArtifactUpsert record.
SubmitList ==
  /\ ctl.step = "list"
  /\ listed' = listed \cup {ctl.dep.digest}
  /\ ctl' = [ctl EXCEPT !.step = "read"]
  /\ UNCHANGED <<rec, tgt, stored, verify, ops, away>>

\* A submitted delivery that is pending keeps its state, any other starts
\* again, with the failures it had.
Submitted(r) == IF IsPendingState(r.state) THEN r
                ELSE [state |-> "Prepared", failures |-> r.failures]

\* An acknowledged delivery is left alone.
SubmitRead ==
  LET d == ctl.dep IN
  /\ ctl.step = "read"
  /\ ctl' = IF rec[d].state = "Acknowledged" THEN NoControl
            ELSE [ctl EXCEPT !.step = "older", !.copies[d] = Submitted(rec[d])]
  /\ UNCHANGED <<rec, tgt, stored, listed, verify, ops, away>>

\* Older pending deliveries of the lineage are superseded.
SubmitOlder ==
  LET d == ctl.dep
      older == {e \in SameLineage(d) : e.gen < d.gen} \cap Pending(rec) IN
  /\ ctl.step = "older"
  /\ ctl' = [ctl EXCEPT !.step = "supersede", !.todo = older,
                        !.copies = [Copies(older) EXCEPT ![d] = ctl.copies[d]]]
  /\ UNCHANGED <<rec, tgt, stored, listed, verify, ops, away>>

\* One that the table does not let retire ends the submission.
SubmitSupersede ==
  LET e == FirstId(ctl.todo)
      retired == [ctl.copies[e] EXCEPT !.state = "Retired"]
      legal == IsLegalTransition(ctl.copies[e].state, "Retired") IN
  /\ ctl.step = "supersede"
  /\ ctl.todo # {}
  /\ rec' = IF legal THEN [rec EXCEPT ![e] = retired] ELSE rec
  /\ ctl' = IF legal THEN [ctl EXCEPT !.step = "supersede2", !.copies[e] = retired]
            ELSE NoControl
  /\ UNCHANGED <<tgt, stored, listed, verify, ops, away>>

SubmitSupersedeRewrite ==
  LET e == FirstId(ctl.todo) IN
  /\ ctl.step = "supersede2"
  /\ rec' = [rec EXCEPT ![e] = ctl.copies[e]]
  /\ ctl' = [ctl EXCEPT !.step = "supersede", !.todo = @ \ {e}, !.copies[e] = Absent]
  /\ UNCHANGED <<tgt, stored, listed, verify, ops, away>>

\* Mutant: the newest records go.
DoomedNewest(d) ==
  LET history == Known(rec) \cap SameLineage(d) IN
  {e \in history : Cardinality({f \in history : Before(f, e)}) >= MaxHistory}

\* The history of the lineage beyond its newest MaxHistory records ...
Doomed(d) ==
  LET history == Known(rec) \cap SameLineage(d) IN
  {e \in history : Cardinality({f \in history : Before(e, f)}) >= MaxHistory}

SubmitHistory ==
  /\ ctl.step = "supersede"
  /\ ctl.todo = {}
  /\ ctl' = [ctl EXCEPT !.step = "remove", !.todo = Doomed(ctl.dep)]
  /\ UNCHANGED <<rec, tgt, stored, listed, verify, ops, away>>

\* ... is removed.
SubmitRemove ==
  LET e == FirstId(ctl.todo) IN
  /\ ctl.step = "remove"
  /\ ctl.todo # {}
  /\ rec' = [rec EXCEPT ![e] = Absent]
  /\ ctl' = [ctl EXCEPT !.todo = @ \ {e}]
  /\ UNCHANGED <<tgt, stored, listed, verify, ops, away>>

\* The target record is read, and the whole copy written back: only the flag
\* of contact, which is this process's own, is kept.
SubmitTargetRead ==
  /\ ctl.step = "remove"
  /\ ctl.todo = {}
  /\ ctl' = [ctl EXCEPT !.step = "target", !.target = tgt]
  /\ UNCHANGED <<rec, tgt, stored, listed, verify, ops, away>>

SubmitTargetWrite ==
  /\ ctl.step = "target"
  /\ tgt' = [ctl.target EXCEPT !.known = TRUE, !.contact = tgt.contact,
                               !.atomic = IF ctl.target.term = 0 THEN Declared ELSE @]
  /\ ctl' = [ctl EXCEPT !.step = "delivery", !.target = NoTarget]
  /\ UNCHANGED <<rec, stored, listed, verify, ops, away>>

\* The delivery is written as it was read, or made, before.
SubmitDelivery ==
  /\ ctl.step = "delivery"
  /\ rec' = [rec EXCEPT ![ctl.dep] = ctl.copies[ctl.dep]]
  /\ ctl' = NoControl
  /\ UNCHANGED <<tgt, stored, listed, verify, ops, away>>

\* retireDeployment.
Retire(d) ==
  /\ ctl.step = "idle"
  /\ ops < MaxOps
  /\ rec[d].state # "None"
  /\ ops' = ops + 1
  /\ ctl' = [NoControl EXCEPT !.step = "retire", !.dep = d, !.copies[d] = rec[d]]
  /\ UNCHANGED <<rec, tgt, stored, listed, verify, away>>

RetireWrite ==
  LET d == ctl.dep  retired == [ctl.copies[d] EXCEPT !.state = "Retired"] IN
  /\ ctl.step \in {"retire", "retire2"}
  /\ IF ctl.step = "retire" /\ ~IsLegalTransition(ctl.copies[d].state, "Retired")
     THEN ctl' = NoControl /\ UNCHANGED rec
     ELSE /\ rec' = [rec EXCEPT ![d] = retired]
          /\ ctl' = IF ctl.step = "retire"
                    THEN [ctl EXCEPT !.step = "retire2", !.copies[d] = retired]
                    ELSE NoControl
  /\ UNCHANGED <<tgt, stored, listed, verify, ops, away>>

RequestVerification ==
  /\ ctl.step = "idle"
  /\ ops < MaxOps
  /\ tgt.known
  /\ ops' = ops + 1
  /\ verify' = TRUE
  /\ UNCHANGED <<rec, tgt, stored, listed, ctl, away>>

-----------------------------------------------------------------------------
\* Mutant: everything that is not settled starts from the beginning.
RestartFromScratch ==
  /\ epoch < MaxEpoch
  /\ epoch' = epoch + 1
  /\ rec' = [d \in Deployments |-> IF IsPendingState(rec[d].state)
                                   THEN [rec[d] EXCEPT !.state = "Prepared"] ELSE rec[d]]
  /\ tgt' = [tgt EXCEPT !.contact = FALSE]
  /\ ses' = Idle
  /\ held' = NoCopies
  /\ loc' = NoLocal
  /\ ctl' = NoControl
  /\ verify' = FALSE
  /\ UNCHANGED <<stored, listed, heard, counters>>

\* The process is stopped or dies, and is opened again: no thread survives,
\* contact is not current, an unverified transfer is not trusted.  stop()
\* adds nothing to this: a worker that sees the flag or an interrupted
\* connection ends its session as ConnectionLost does.
Restart ==
  /\ epoch < MaxEpoch
  /\ epoch' = epoch + 1
  /\ rec' = [d \in Deployments |-> IF rec[d].state = "Transferred"
                                   THEN [rec[d] EXCEPT !.state = "Offered"] ELSE rec[d]]
  /\ tgt' = [tgt EXCEPT !.contact = FALSE]
  /\ ses' = Idle
  /\ held' = NoCopies
  /\ loc' = NoLocal
  /\ ctl' = NoControl
  /\ verify' = FALSE
  /\ UNCHANGED <<stored, listed, heard, counters>>

\* A store that was just opened, empty or with one acknowledged delivery.
Init ==
  LET before == {Installed} \ {NoDeployment} IN
  /\ rec = [d \in Deployments |-> IF d \in before THEN [state |-> "Acknowledged", failures |-> 0]
                                  ELSE Absent]
  /\ tgt = IF before = {} THEN NoTarget
           ELSE [NoTarget EXCEPT !.known = TRUE, !.atomic = Atomic, !.term = 1,
                                 !.pair = PairOf(Installed)]
  /\ stored = {d.digest : d \in before}
  /\ listed = {d.digest : d \in before}
  /\ epoch = 1
  /\ ses = Idle
  /\ held = NoCopies
  /\ loc = NoLocal
  /\ ctl = NoControl
  /\ verify = FALSE
  /\ heard = [active |-> before, settled |-> before]
  /\ faults = 0
  /\ ops = 0

LocalStep == (\E d \in Deployments : LocalRead(d)) \/ LocalWrite \/ LocalRewrite

Operation ==
  \E d \in Deployments :
    \/ <<"submit", d>> \in Operations /\ Submit(d, TRUE)
    \/ <<"submitUnreadable", d>> \in Operations /\ Submit(d, FALSE)
    \/ <<"retire", d>> \in Operations /\ Retire(d)
    \/ <<"verify", d>> \in Operations /\ RequestVerification

ControlStep ==
  \/ SubmitList \/ SubmitRead \/ SubmitOlder
  \/ SubmitSupersede \/ SubmitSupersedeRewrite
  \/ SubmitHistory \/ SubmitRemove \/ SubmitTargetRead \/ SubmitTargetWrite
  \/ SubmitDelivery \/ RetireWrite

\* The steps of a session that wait for nobody.
SessionStep ==
  \/ \E d \in Deployments, elapsed \in BOOLEAN : PickWork(d, elapsed)
  \/ PickVerification
  \/ SessionFailureOne \/ SessionFailureDone
  \/ RearmOne
  \/ ApplyReport \/ ApplyDone
  \/ AdoptTarget \/ Acknowledge \/ Rewrite
  \/ \E elapsed \in BOOLEAN : DriveRead(elapsed, TRUE) /\ UNCHANGED faults
  \/ DriveDone \/ DriveLocal
  \/ Retry \/ SendPrepare \/ SendChunk \/ DigestMismatch \/ SendComplete

\* History: what a frame says is active on the target, under the authority of
\* the session.  settled leaves out the answer to a commit, which comes before
\* the acknowledgement.
Settles(m) ==
  {d \in Deployments :
     \/ m.kind = "Report" /\ m.term = ses.term /\ PairOf(d) \in m.findings \cup {m.pair}
     \/ m.kind = "PrepareAck" /\ m.duplicate /\ m.dep = d
     \/ m.kind = "DeliveryAck" /\ m.keyed /\ m.term = ses.term /\ m.dep = d}
Activates(m) ==
  Settles(m) \cup {d \in Deployments : /\ m.kind = "ApplyCommitAck" /\ m.ok
                                       /\ m.pair = PairOf(d)}

Receive(m) ==
  /\ heard' = [active |-> heard.active \cup Activates(m),
               settled |-> heard.settled \cup Settles(m)]
  /\ \/ OnHello(m) \/ OnReport(m) \/ OnAbortAck(m) \/ OnPrepareReply(m)
     \/ OnChunkReply(m) \/ OnTransferResult(m) \/ OnStageAck(m)
     \/ OnApplyPrepareAck(m) \/ OnCommitAck(m) \/ OnAck(m)

Fault ==
  /\ faults < MaxFaults
  /\ faults' = faults + 1
  /\ \/ Unreachable
     \/ ReadFails
     \/ ConnectionLost
     \/ DriveRead(FALSE, FALSE)

-----------------------------------------------------------------------------
(* Any peer: it answers with any frame of Replies, whatever was asked.     *)

\* Any thread of the process but the session's.
Aside == LocalStep \/ Operation \/ ControlStep

Next ==
  \/ SessionStep
  \/ Connect
  \/ ses.pc \in Receiving /\ \E m \in Replies : Receive(m)
  \/ Fault
  \/ Aside
  \/ Restart

Spec == Init /\ [][Next]_vars

-----------------------------------------------------------------------------
(* Properties.                                                             *)

Copy == [state : DeliveryStates \cup {"None"}, failures : 0 .. MaxAttempts]
Target == [known : BOOLEAN, atomic : BOOLEAN, term : Nat, pair : PairOfAny,
           window : BOOLEAN, contact : BOOLEAN]
MaybeDeployment == Deployments \cup {NoDeployment}
Reported == [kind : {"Report"}, term : Nat, pair : PairOfAny, findings : SUBSET PairOfAny,
             window : MaybeDeployment]
Session ==
  [pc : Receiving \cup Sending \cup LocalActions
          \cup {"idle", "dial", "fail", "rearm", "apply", "adopt", "acknowledge", "rewrite",
                "drive", "GiveUp"},
   term : Nat, todo : SUBSET Deployments, cur : MaybeDeployment, report : Reported,
   offset : Nat, reader : Reader, errs : Nat, again : BOOLEAN,
   after : {"done", "loop", "apply", "ack"}]
Local == [step : {"idle", "write", "rewrite"}, dep : MaybeDeployment, copy : Copy]
Control ==
  [step : {"idle", "list", "read", "older", "supersede", "supersede2", "remove", "target",
           "delivery", "retire", "retire2"},
   dep : MaybeDeployment, todo : SUBSET Deployments, copies : [Deployments -> Copy],
   target : Target]

\* The types of the state.
TypeOK ==
  /\ rec \in [Deployments -> Copy]
  /\ tgt \in Target
  /\ stored \subseteq Digests /\ listed \subseteq Digests
  /\ epoch \in Nat
  /\ ses \in Session
  /\ held \in [Deployments -> Copy]
  /\ loc \in Local
  /\ ctl \in Control
  /\ verify \in BOOLEAN
  /\ heard \in [active : SUBSET Deployments, settled : SUBSET Deployments]
  /\ faults \in Nat /\ ops \in Nat

\* "An accepted write is never reported as an activation": a record claims an
\* activation or an acknowledgement only if a frame said so of exactly that
\* deployment.  Records are written from copies that three threads took earlier,
\* over any number of sessions and restarts.
EvidenceBacked ==
  \A d \in Deployments : /\ rec[d].state = "Applied" => d \in heard.active
                         /\ rec[d].state = "Acknowledged" => d \in heard.settled

\* The desired generation of a lineage (that of its newest record) never goes
\* back: neither the removal of old records in submitPlan nor a worker that
\* writes back the copy of a removed record can make an older plan current.
DesiredStays ==
  [][\A d \in Known(rec) :
       \E e \in SameLineage(d) : rec'[e].state # "None" /\ e.gen >= d.gen]_vars

\* A change of state that the table, or one of its three documented exceptions,
\* allows: a record is made or removed, a rejected or retired delivery is
\* submitted again, an unverified transfer is offered again after a restart.
Allowed(from, to) ==
  \/ from = to
  \/ IsLegalTransition(from, to)
  \/ "None" \in {from, to}
  \/ from \in {"Rejected", "Retired"} /\ to = "Prepared"
  \/ from = "Transferred" /\ to = "Offered"

\* The deliveries whose record was changed after the session worker, the other
\* worker, or the control thread took its copy.  A submission holds the record
\* as it makes it anew; one that is acknowledged it would not have touched.
StaleHeld == {d \in Deployments : held[d] \notin {Absent, rec[d]}}
StaleLocal == {d \in Deployments : loc.dep = d /\ loc.copy # rec[d]}
StaleControl ==
  {d \in Deployments :
     /\ ctl.copies[d] \notin {Absent, rec[d]}
     /\ rec[d].state = "Acknowledged" \/ ctl.copies[d] # Submitted(rec[d])}

\* The thread that takes the step works from such a copy.
Overtaken(d) ==
  \/ d \in StaleHeld /\ UNCHANGED <<epoch, loc, ctl>>
  \/ d \in StaleLocal /\ UNCHANGED <<epoch, ses, held, ctl>>
  \/ d \in StaleControl /\ UNCHANGED <<epoch, ses, held, loc>>

\* "Every transition is decided by an explicit table" (lifecycle.hpp), of what
\* the writer has read: unless the very copy it writes back was overtaken, every
\* commit moves the record as the table or a documented exception allows.  This
\* is about a transition and its second commit, deliveries driven over several
\* transitions from one copy, and the two places that assign a state without
\* asking: a resubmission and a restart.
TableUnlessOvertaken ==
  [][\A d \in Deployments : Overtaken(d) \/ Allowed(rec[d].state, rec'[d].state)]_vars

\* "Every transition is decided by an explicit table ... Nothing else in the
\* runtime is allowed to assign a delivery state" (lifecycle.hpp), whichever
\* threads work on the record: what is durable moves only along the table.
TableAlways ==
  [][\A d \in Deployments : Allowed(rec[d].state, rec'[d].state)]_vars
=============================================================================
