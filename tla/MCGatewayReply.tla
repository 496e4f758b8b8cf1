--------------------------- MODULE MCGatewayReply ---------------------------
(* Small instances of the gateway's reply path for TLC. *)
EXTENDS GatewayReply, TLC
=============================================================================
