-------------------------- MODULE MCGatewayStream --------------------------
(* Instances of GatewayStream for TLC: two StartStream calls for the task. *)
EXTENDS GatewayStream

CONSTANTS r1, r2
=============================================================================
