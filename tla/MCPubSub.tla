------------------------------ MODULE MCPubSub ------------------------------
(* Constants for model checking PubSub. *)
EXTENDS PubSub

CONSTANTS a, b
=============================================================================
