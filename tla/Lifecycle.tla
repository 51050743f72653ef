----------------------------- MODULE Lifecycle -----------------------------
(***************************************************************************)
(* The delivery lifecycle (src/src/lifecycle.cpp): ten states and the      *)
(* table of legal transitions.  "None" stands for a delivery that the      *)
(* controller has no record of.                                            *)
(***************************************************************************)

DeliveryStates ==
  {"Prepared", "Offered", "Transferred", "Verified", "Staged", "Applied",
   "Acknowledged", "Failed", "Rejected", "Retired"}

IsActivationState(s) == s \in {"Applied", "Acknowledged"}

IsTerminalState(s) == s \in {"Acknowledged", "Rejected", "Retired"}

IsPendingState(s) == s \in DeliveryStates /\ ~IsTerminalState(s)

\* kTransitions: the rows of the table.
Successors(s) ==
  CASE s = "Prepared"     -> {"Offered", "Applied", "Failed", "Rejected", "Retired"}
    [] s = "Offered"      -> {"Transferred", "Applied", "Failed", "Rejected", "Retired"}
    [] s = "Transferred"  -> {"Verified", "Applied", "Failed", "Rejected", "Retired"}
    [] s = "Verified"     -> {"Staged", "Applied", "Failed", "Rejected", "Retired"}
    [] s = "Staged"       -> {"Applied", "Failed", "Rejected", "Retired"}
    [] s = "Applied"      -> {"Acknowledged", "Failed", "Retired"}
    [] s = "Acknowledged" -> {"Retired"}
    [] s = "Failed"       -> {"Prepared", "Applied", "Rejected", "Retired"}
    [] s = "Rejected"     -> {"Retired"}
    [] OTHER              -> {}

IsLegalTransition(from, to) == to \in Successors(from)
=============================================================================
