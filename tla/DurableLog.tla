----------------------------- MODULE DurableLog -----------------------------
(***************************************************************************)
(* What a durable store promises its owner (src/include/cf/store.hpp): a   *)
(* set of changes that only grows.  A commit adds its change; a crash      *)
(* loses nothing, and may or may not keep the one change being committed.  *)
(***************************************************************************)
CONSTANT Changes

VARIABLES kept,   \* the changes the store holds
          up      \* is the owner running on it

vars == <<kept, up>>

Init == kept = {} /\ up = FALSE

Commit == up /\ (\E c \in Changes \ kept : kept' = kept \cup {c}) /\ UNCHANGED up

Stop ==
  /\ up
  /\ up' = FALSE
  /\ kept' = kept \/ (\E c \in Changes \ kept : kept' = kept \cup {c})

Start == ~up /\ up' = TRUE /\ UNCHANGED kept

Next == Commit \/ Stop \/ Start

Spec == Init /\ [][Next]_vars
=============================================================================
