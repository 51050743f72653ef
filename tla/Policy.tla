------------------------------- MODULE Policy -------------------------------
(***************************************************************************)
(* The policy function decide() (src/src/policy.cpp): from what the        *)
(* controller has on record about a delivery and its target to the next    *)
(* action.  The order of the tests is the code's; it is part of the        *)
(* contract.  Durations are abstracted to whether they have passed.        *)
(*                                                                         *)
(* An input has: superseded, gen, targetGen (0 is unset), guaranteed (the  *)
(* target satisfies the delivery's requirement), available (the artifact   *)
(* is on record), state, exhausted (failures >= maxAttempts), elapsed (the *)
(* backoff has passed), contact (this process has been in contact with the *)
(* target, or has no record of it), window (unresolved prepare window) and *)
(* live (the contact is fresh).                                            *)
(*                                                                         *)
(* requireAcknowledgement is taken as TRUE, its default.  ResumeTransfer   *)
(* does not occur: resumableTransfer needs two deliveries with the same    *)
(* target, key, generation and digest, and these four make up the id.      *)
(***************************************************************************)
EXTENDS Lifecycle, Integers

PolicyActions ==
  {"None", "Offer", "Activate", "Reconcile", "Wait",
   "RecordFailureAndRetry", "Reject", "GiveUp", "Retire"}

\* The last guards: a target that is not in contact, or has an open window, is
\* asked first; then the state of the delivery decides.
Pipeline(in) ==
  IF ~in.contact \/ in.window \/ ~in.live THEN "Reconcile"
  ELSE IF in.state \in {"Prepared", "Offered", "Transferred"} THEN "Offer"
  ELSE "Activate"

Decide(in) ==
  IF in.superseded \/ in.targetGen > in.gen THEN "Retire"
  ELSE IF ~in.guaranteed THEN "Reject"
  ELSE IF ~in.available
       THEN IF in.state = "Prepared" THEN "Reject"
            ELSE IF in.exhausted THEN "GiveUp" ELSE "RecordFailureAndRetry"
  ELSE IF IsTerminalState(in.state) THEN "None"
  ELSE IF in.state = "Applied" THEN "Reconcile"
  ELSE IF in.state = "Failed"
       THEN IF in.exhausted THEN "GiveUp"
            ELSE IF ~in.elapsed THEN "Wait" ELSE "Offer"
  ELSE Pipeline(in)
=============================================================================
