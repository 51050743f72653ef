--------------------------- MODULE Reconciliation ---------------------------
(***************************************************************************)
(* What a live reconcile report means for one delivery                     *)
(* (src/src/reconciliation.cpp).  A report has the term of the target, its *)
(* committed pair, the pairs of its findings and the window it left open.  *)
(* The transfer statuses of a report only choose between outcomes that     *)
(* have the same effect ("drive"), and are left out.                       *)
(***************************************************************************)
EXTENDS Integers

PairOf(d) == [gen |-> d.gen, digest |-> d.digest]

\* The committed pair or a finding, by generation and digest; the key of the
\* delivery is not compared.
ReportProvesActivation(report, d) ==
  PairOf(d) \in report.findings \cup {report.pair}

\* Authority first, then an open window, then staleness, then evidence.
ReconcileDelivery(report, sessionTerm, d, noWindow) ==
  IF report.term # sessionTerm THEN "FenceAuthority"
  ELSE IF report.window # noWindow THEN "ResolvePrepareWindow"
  ELSE IF report.pair.gen > d.gen THEN "RetireStale"
  ELSE IF ReportProvesActivation(report, d) THEN "AdoptActivation"
  ELSE "Drive"
=============================================================================
