-------------------------- MODULE MCAgentRetention --------------------------
(* Agent with a count, for TLC, of the copies written behind a payload.    *)
EXTENDS MCAgent

VARIABLE since    \* history: copies begun in the key's directory after the
                  \* payload of that name was renamed into place, up to
                  \* RetainedPayloads

Names == {Ptr(d) : d \in Deployments}

Begun(k) == pc = "serve" /\ pc' = "copy" /\ job'.key = k
Renamed(k, p) == pc = "copy" /\ pc' = "stage" /\ job.key = k /\ Ptr(job) = p

Count ==
  since' = [k \in Keys |-> [p \in Names |->
              IF Renamed(k, p) THEN 0
              ELSE IF Begun(k) /\ since[k][p] < RetainedPayloads THEN since[k][p] + 1
              ELSE since[k][p]]]

CountInit == AgentInit /\ since = [k \in Keys |-> [p \in Names |-> 0]]
CountSpec == CountInit /\ [][AgentNext /\ Count]_<<agentVars, since>>

\* However little is retained: the payload a live pointer names is missing
\* only if at least RetainedPayloads copies, cut off by a crash or not, were
\* begun in the directory of the key after it was put there.  The pointer may
\* have been switched before or after the payload was pruned.
MissingOnlyIfCrowded ==
  \A k \in Keys :
    IsSet(current[k]) /\ ~Intact(k) => since[k][current[k]] >= RetainedPayloads
=============================================================================
