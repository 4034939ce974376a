------------------------ MODULE MCAutonomousControl -------------------------
(* Small instances of the closed control loop.                                *)
EXTENDS AutonomousControl, MCSetpointValues

\* An operator asks for 23 and for 25 degrees.
MCPutRequests == [field: {"hvac"}, value: {46, 50}]
=============================================================================
