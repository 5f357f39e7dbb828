---------------------------- MODULE MCGatewayArp ----------------------------
(***************************************************************************)
(* A small instance of GatewayArp for TLC.                                 *)
(***************************************************************************)
EXTENDS GatewayArp

=============================================================================
