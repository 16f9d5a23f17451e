------------------------ MODULE MCGatewaySupervision ------------------------
(***************************************************************************)
(* A small instance of GatewaySupervision for TLC.                         *)
(***************************************************************************)
EXTENDS GatewaySupervision
=============================================================================
