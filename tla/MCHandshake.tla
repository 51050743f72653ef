---------------------------- MODULE MCHandshake ----------------------------
(* Instances of Handshake for TLC. *)
EXTENDS Handshake, TLC

CONSTANTS c1, c2, a1, a2

Processes == Permutations({c1, c2}) \cup Permutations({a1, a2})
=============================================================================
