----------------------------- MODULE MCGateway ------------------------------
(* Small instances of the control gateway with its history.                   *)
EXTENDS ActuationHistory, MCSetpointValues
=============================================================================
