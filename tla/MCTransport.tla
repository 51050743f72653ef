---------------------------- MODULE MCTransport ----------------------------
(* Transport on a small instance.                                          *)
EXTENDS Transport
=============================================================================
