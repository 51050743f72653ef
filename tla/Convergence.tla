---------------------------- MODULE Convergence ----------------------------
(***************************************************************************)
(* What the controller concludes from its records about one target         *)
(* (src/src/convergence.cpp, helpers of src/src/state.cpp): the input of a *)
(* policy decision and the convergence report.  rec maps a deployment to   *)
(* its delivery record, tgt is the record of the target.                   *)
(***************************************************************************)
EXTENDS Policy, DeploymentSet

CONSTANTS
  Rank,           \* order of the deployment ids as strings
  MaxAttempts     \* policy.maxAttempts

Known(rec) == {d \in Deployments : rec[d].state # "None"}
Pending(rec) == {d \in Deployments : IsPendingState(rec[d].state)}
SameLineage(d) == {e \in Deployments : e.key = d.key}

\* By generation, then by id.
Before(d, e) == d.gen < e.gen \/ (d.gen = e.gen /\ Rank[d] < Rank[e])

\* Mutant: the order is turned round.
Earliest(rec, d) ==
  CHOOSE e \in Known(rec) \cap SameLineage(d) :
    \A f \in Known(rec) \cap SameLineage(d) : f = e \/ Before(e, f)

\* latestForLineage, for a lineage that has a record.
Latest(rec, d) ==
  CHOOSE e \in Known(rec) \cap SameLineage(d) :
    \A f \in Known(rec) \cap SameLineage(d) : f = e \/ Before(f, e)

\* buildDecisionInput for delivery d whose record reads r.
DecisionInput(rec, tgt, listed, d, r, elapsed, fresh) ==
  [superseded |-> /\ Known(rec) \cap SameLineage(d) # {}
                  /\ Latest(rec, d).gen > d.gen,
   gen        |-> d.gen,
   targetGen  |-> tgt.pair.gen,
   guaranteed |-> ~d.strict \/ tgt.atomic,
   available  |-> d.digest \in listed,
   state      |-> r.state,
   exhausted  |-> r.failures >= MaxAttempts,
   elapsed    |-> elapsed,
   contact    |-> ~tgt.known \/ tgt.contact,
   window     |-> tgt.window,
   live       |-> tgt.contact /\ fresh]

\* buildConvergenceReport, for a lineage with a record: the newest record
\* is the desired delivery, and it alone decides.  blockers.front() is the
\* smallest of the blocker kinds, so a lineage that is retrying counts as
\* pending or diverged whatever its last error was.
Converged(rec, d) == rec[Latest(rec, d)].state = "Acknowledged"

LineageClass(rec, tgt, d) ==
  LET desired == Latest(rec, d)  r == rec[desired] IN
  IF Converged(rec, d) THEN "converged"
  ELSE IF \/ r.state = "Failed" /\ r.failures >= MaxAttempts
          \/ r.state = "Rejected" /\ tgt.known
          \/ r.state = "Retired" /\ tgt.pair.gen > desired.gen
       THEN "blocked"
  ELSE IF tgt.pair.gen # 0 /\ tgt.pair.gen < desired.gen THEN "diverged"
  ELSE "pending"
=============================================================================
