-------------------------- MODULE MCArtifactStore --------------------------
(* Instances of ArtifactStore for TLC. *)
EXTENDS ArtifactStore, TLC

CONSTANTS small, large, t1, t2

\* Either artifact fits into the store of the instance, but not both.
TwoSizes == (small :> 1 @@ large :> 2)

\* Enough chunks for a read that starts in the middle.
ThreeChunks == (large :> 3)

AnyThread == Permutations({t1, t2})
=============================================================================
