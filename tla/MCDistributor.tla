--------------------------- MODULE MCDistributor ---------------------------
(* Instances of Distributor for TLC. *)
EXTENDS Distributor, TLC

CONSTANTS k1, g0, g1, g2

Base == [key |-> k1, gen |-> 1, digest |-> g0, size |-> 1, strict |-> FALSE]
Old == [key |-> k1, gen |-> 2, digest |-> g1, size |-> 1, strict |-> FALSE]
New == [key |-> k1, gen |-> 3, digest |-> g2, size |-> 3, strict |-> FALSE]

\* One generation delivered before, two to come.
Upgrade == {Base, Old, New}
UpgradeRank == (Base :> 1 @@ Old :> 2 @@ New :> 3)
UpgradePlans == {<<"submitUnreadable", Old>>, <<"submit", New>>, <<"retire", New>>,
                 <<"verify", New>>}

\* A peer that has been restarted since and answers with every kind of frame,
\* in turn or not, about New or about the deployment before; only the reports
\* and the byte counts are samples.
Named == {Base, New}
Pairs == {PairOf(d) : d \in Named}
SampleReports ==
  [kind : {"Report"}, term : {2}, pair : {PairOf(Base)}, findings : {{}},
   window : {NoDeployment, New}]
    \cup [kind : {"Report"}, term : {2}, pair : {PairOf(New)},
          findings : {{PairOf(Old)}}, window : {NoDeployment}]
AnyPeer ==
  SampleReports
    \cup [kind : {"HelloAck"}, term : {2}, pair : {PairOf(Base)}]
    \cup [kind : {"PrepareAck"}, dep : Named, duplicate : BOOLEAN, bytes : {0, 1}]
    \cup [kind : {"PrepareReject"},
          code : {"Terminal", "GenerationConflict", "StaleGeneration", "Retryable"}]
    \cup [kind : {"ChunkAck"}, dep : Named, code : {"Ok", "Refused"}, bytes : {2, 3}]
    \cup [kind : {"TransferResult", "StageAck", "ApplyPrepareAck"}, ok : BOOLEAN]
    \cup [kind : {"ApplyCommitAck"}, ok : BOOLEAN, pair : Pairs]
    \cup [kind : {"DeliveryAck"}, dep : Named, keyed : BOOLEAN, term : {2}]
    \cup [kind : {"DeliveryNack"}, keyed : BOOLEAN, stale : BOOLEAN]
    \cup [kind : {"AbortAck", "Other"}]
=============================================================================
