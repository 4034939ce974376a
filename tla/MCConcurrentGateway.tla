------------------------ MODULE MCConcurrentGateway -------------------------
(* A small instance of the control gateway, two threads inside it, with its   *)
(* history.                                                                   *)
EXTENDS ActuationHistory, MCSetpointValues
=============================================================================
