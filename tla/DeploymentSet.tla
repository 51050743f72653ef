--------------------------- MODULE DeploymentSet ---------------------------
(***************************************************************************)
(* What the controller and the agent of one target both know: the          *)
(* deployments and their contents.                                         *)
(***************************************************************************)

CONSTANTS
  Digests,        \* content digests (SHA-256 taken as collision free)
  NoDigest,       \* the all-zero digest
  Deployments,    \* what a plan may name and a peer may deliver; the id is
                  \* derived from (target, key, gen, digest), so the record
                  \* is the identity
  NoDeployment,
  Atomic          \* the guarantee of the target: TRUE is atomic-activate,
                  \* FALSE prepare-commit-abort

\* The pair of a target that has nothing committed.
Unset == [gen |-> 0, digest |-> NoDigest]
=============================================================================
