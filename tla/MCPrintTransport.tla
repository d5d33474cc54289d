-------------------------- MODULE MCPrintTransport --------------------------
(* Instances of PrintTransport for TLC. *)
EXTENDS PrintTransport
=============================================================================
